----------------------------- MODULE PartsProofs -----------------------------
(***************************************************************************)
(* Eight parts that stand on their own, each proved for every value of its *)
(* constants: which folders a run is asked about, what the command line's  *)
(* exit number tells, what the window sets up before a run, how far the    *)
(* counter goes, what stays selected while rows move, what a listing tells *)
(* of a folder, what stays in the folder of presets, and what a plan of    *)
(* the file manager's menu leaves behind.                                  *)
(***************************************************************************)
EXTENDS Counter, Guard, CommandLine, Setup, Rows, Walk, Presets, Menu,
        SequenceTheorems, WellFoundedInduction, TLAPS

(***************************************************************************)
(* The guard misses nothing and refuses nothing else: for every set of     *)
(* guarded folders, every spelling and every number of paths.  The loop    *)
(* asks about a path only where its parent holds a root; the heart of it   *)
(* is that one name more cannot bring a path under a root unless the       *)
(* folder it is added to is under one, or the path is a root itself.       *)
(***************************************************************************)

\* Folding keeps a place as long as it was, and a name at its end folded with it.
LEMMA FoldedAppend ==
    ASSUME NEW q \in Seq(Parts), NEW n \in Parts
    PROVE  /\ Folded(q) \in Seq(Parts)
           /\ Len(Folded(q)) = Len(q)
           /\ Folded(Append(q, n)) = Append(Folded(q), Fold[n])
<1>1. Len(q) \in Nat /\ DOMAIN q = 1..Len(q)
    OBVIOUS
<1>2. \A i \in 1..Len(q) : Fold[q[i]] \in Parts
    BY GuardAssumption
<1>3. Folded(q) \in [1..Len(q) -> Parts]
    BY <1>1, <1>2 DEF Folded
<1>4. Folded(q) \in Seq(Parts) /\ Len(Folded(q)) = Len(q)
    BY <1>1, <1>3
<1>5. Fold[n] \in Parts
    BY GuardAssumption
<1>6. Len(Folded(Append(q, n))) = Len(q) + 1
    BY <1>1, GuardAssumption DEF Folded
<1>7. Folded(Append(q, n)) = Append(Folded(q), Fold[n])
    BY <1>1, <1>4, <1>5 DEF Folded
<1> QED BY <1>4, <1>7

\* What a longer place begins with, the place begins with, unless it is all of it.
LEMMA PrefixOfAppend ==
    ASSUME NEW q \in Seq(Parts), NEW n \in Parts, NEW r \in Seq(Parts)
    PROVE  IsPrefix(r, Append(q, n)) <=> IsPrefix(r, q) \/ r = Append(q, n)
<1>1. Len(r) \in Nat /\ Len(q) \in Nat /\ Len(Append(q, n)) = Len(q) + 1
    OBVIOUS
<1>2. CASE Len(r) <= Len(q)
  <2>1. SubSeq(Append(q, n), 1, Len(r)) = SubSeq(q, 1, Len(r))
      BY <1>2, <1>1
  <2>2. r # Append(q, n)
      BY <1>2, <1>1
  <2> QED BY <1>1, <1>2, <2>1, <2>2 DEF IsPrefix
<1>3. CASE Len(r) = Len(q) + 1
  <2>1. SubSeq(r, 1, Len(r)) = r
      OBVIOUS
  <2>2. SubSeq(Append(q, n), 1, Len(r)) = Append(q, n)
      BY <1>3, <1>1
  <2>3. ~IsPrefix(r, q)
      BY <1>3, <1>1 DEF IsPrefix
  <2> QED BY <1>3, <1>1, <2>1, <2>2, <2>3 DEF IsPrefix
<1>4. CASE Len(r) > Len(q) + 1
    BY <1>4, <1>1 DEF IsPrefix
<1> QED BY <1>1, <1>2, <1>3, <1>4

\* A name added to a place brings it under a root only where the place is under one,
\* or holds one (under_a_root, holds_a_root).
LEMMA OneNameMore ==
    ASSUME NEW q \in Seq(Parts), NEW n \in Parts
    PROVE  /\ UnderARoot(q) => UnderARoot(Append(q, n))
           /\ UnderARoot(Append(q, n)) => UnderARoot(q) \/ HoldsARoot(q)
<1>1. /\ Folded(q) \in Seq(Parts) /\ Fold[n] \in Parts
      /\ Folded(Append(q, n)) = Append(Folded(q), Fold[n])
    BY FoldedAppend, GuardAssumption
<1>2. \A r \in Roots : IsPrefix(r, Folded(Append(q, n)))
                        <=> IsPrefix(r, Folded(q)) \/ r = Append(Folded(q), Fold[n])
    BY <1>1, PrefixOfAppend, GuardAssumption
<1>3. UnderARoot(q) => UnderARoot(Append(q, n))
    BY <1>2 DEF UnderARoot
<1>4. ASSUME UnderARoot(Append(q, n)) PROVE UnderARoot(q) \/ HoldsARoot(q)
    BY <1>1, <1>2, <1>4 DEF UnderARoot, HoldsARoot
<1> QED BY <1>3, <1>4

\* What the verdict on a parent says of a path in it (first_guarded).
LEMMA VerdictTells ==
    ASSUME NEW q \in Seq(Parts), NEW n \in Parts
    PROVE  /\ Verdict(q) = "guarded" <=> UnderARoot(q)
           /\ Verdict(q) = "guarded" => UnderARoot(Append(q, n))
           /\ Verdict(q) \notin {"guarded", "holds a root"} => ~UnderARoot(Append(q, n))
BY OneNameMore DEF Verdict

GuardInv == GuardTypeOK /\ Cleared /\ GuardIsExact

\* What a request is made of.
LEMMA RequestFields ==
    ASSUME asked \in Requests
    PROVE  /\ asked.dir \in Parents \cup {Nowhere}
           /\ asked.paths \in Seq([parent : Parents \cup {Nowhere}, name : Parts])
           /\ Len(asked.paths) \in Nat /\ DOMAIN asked.paths = 1..Len(asked.paths)
           /\ \A i \in DOMAIN asked.paths :
                 asked.paths[i].parent \in Parents \cup {Nowhere} /\ asked.paths[i].name \in Parts
<1>1. asked \in [dir : Parents \cup {Nowhere},
                 paths : Seq([parent : Parents \cup {Nowhere}, name : Parts])]
    BY GuardAssumption
<1>2. asked.paths \in Seq([parent : Parents \cup {Nowhere}, name : Parts])
    BY <1>1
<1>3. DOMAIN asked.paths = 1..Len(asked.paths)
    BY <1>2
<1>4. \A i \in 1..Len(asked.paths) : asked.paths[i] \in [parent : Parents \cup {Nowhere}, name : Parts]
    BY <1>2, ElementOfSeq
<1> QED BY <1>1, <1>2, <1>3, <1>4

\* The invariant holds of a request that nothing has been answered to.
LEMMA GuardInitInv == GuardInit => GuardInv
BY GuardAssumption DEF GuardInit, GuardInv, GuardTypeOK, Cleared, GuardIsExact

\* The folder browsed is refused, or is clear (first_guarded).
LEMMA BrowseInv == GuardInv /\ Browse => GuardInv'
<1> SUFFICES ASSUME GuardInv, Browse PROVE GuardInv'
    OBVIOUS
<1> USE DEF GuardInv
<1>0. asked \in Requests
    BY DEF GuardTypeOK
<1>1. asked.dir \in Parents \cup {Nowhere}
    BY <1>0, RequestFields
<1>2. CASE asked.dir # Nowhere /\ UnderARoot(Place[asked.dir])
  <2>1. answer' = Place[asked.dir] /\ answer' \in Seq(Parts)
      BY <1>1, <1>2, GuardAssumption DEF Browse
  <2>2. answer' # Undecided /\ answer' # Nowhere
      BY <2>1, GuardAssumption
  <2>3. Danger'
      BY <1>2 DEF Browse, Danger
  <2> QED BY <1>0, <1>2, <2>1, <2>2, <2>3 DEF Browse, GuardTypeOK, Cleared, GuardIsExact
<1>3. CASE ~(asked.dir # Nowhere /\ UnderARoot(Place[asked.dir]))
  <2>1. answer' = Undecided /\ reached' = 1 /\ UNCHANGED <<asked, seen>>
      BY <1>3 DEF Browse
  <2>2. \A i \in DOMAIN asked.paths : ~(i < 1)
      BY <1>0, RequestFields
  <2> QED BY <1>0, <1>3, <2>1, <2>2, GuardAssumption DEF GuardTypeOK, Cleared, GuardIsExact
<1> QED BY <1>2, <1>3

\* A path is passed over only when it is clear (first_guarded).
LEMMA LookInv == GuardInv /\ LookUp => GuardInv'
<1> SUFFICES ASSUME GuardInv, LookUp PROVE GuardInv'
    OBVIOUS
<1> USE DEF GuardInv
<1> DEFINE p == asked.paths[reached]
<1>0. asked \in Requests
    BY DEF GuardTypeOK
<1>1. /\ asked' = asked /\ reached \in Nat /\ reached' = reached + 1
      /\ answer = Undecided /\ reached > 0 /\ reached \in DOMAIN asked.paths
  <2>1. Len(asked.paths) \in Nat /\ DOMAIN asked.paths = 1..Len(asked.paths)
      BY <1>0, RequestFields
  <2>2. /\ answer = Undecided /\ reached > 0 /\ reached <= Len(asked.paths)
        /\ reached' = reached + 1 /\ asked' = asked
      BY ZenonT(30) DEF LookUp
  <2>3. reached \in Nat
      BY DEF GuardTypeOK
  <2> QED BY <2>1, <2>2, <2>3
<1>2. p.parent \in Parents \cup {Nowhere} /\ p.name \in Parts
    BY <1>0, <1>1, RequestFields
<1>3. ~(asked.dir # Nowhere /\ UnderARoot(Place[asked.dir]))
    BY <1>1 DEF Cleared
<1>4. \A i \in DOMAIN asked.paths : i < reached' => i < reached \/ i = reached
    BY <1>0, <1>1, RequestFields
<1>5. \A i \in DOMAIN asked.paths :
         i < reached /\ asked.paths[i].parent # Nowhere => ~UnderARoot(Lies(asked.paths[i]))
    BY <1>1 DEF Cleared
<1>6. ASSUME p.parent # Nowhere => ~UnderARoot(Lies(p)), answer' = answer,
             \A s \in seen' : \E q \in Parents : s = <<q, Verdict(Place[q])>>
      PROVE  GuardInv'
  <2>1. \A i \in DOMAIN asked'.paths :
           i < reached' /\ asked'.paths[i].parent # Nowhere => ~UnderARoot(Lies(asked'.paths[i]))
      BY <1>1, <1>4, <1>5, <1>6
  <2>2. Cleared'
      BY <1>1, <1>3, <1>6, <2>1 DEF Cleared
  <2>3. GuardTypeOK' /\ GuardIsExact'
      BY <1>0, <1>1, <1>6, GuardAssumption DEF GuardTypeOK, GuardIsExact
  <2> QED BY <2>2, <2>3
<1>7. CASE p.parent = Nowhere
  <2>1. UNCHANGED <<seen, answer>>
      BY <1>7 DEF LookUp
  <2> QED BY <1>6, <1>7, <2>1 DEF Cleared
<1>8. CASE p.parent # Nowhere
  <2> DEFINE v == Verdict(Place[p.parent])
  <2>1. p.parent \in Parents /\ Place[p.parent] \in Seq(Parts)
      BY <1>2, <1>8, GuardAssumption
  <2>2. Lies(p) \in Seq(Parts)
      BY <2>1, <1>2 DEF Lies
  <2>3. seen' = Known(p.parent)
      BY <1>8 DEF LookUp
  <2>4. \A s \in seen' : \E q \in Parents : s = <<q, Verdict(Place[q])>>
      BY <2>1, <2>3 DEF Known, Cleared
  <2>5. <<p.parent, v>> \in seen'
    <3>1. \A s \in seen : s[1] = p.parent => s = <<p.parent, v>>
        BY DEF Cleared
    <3> QED BY <2>3, <3>1 DEF Known
  <2>6. /\ <<p.parent, "guarded">> \in seen' <=> v = "guarded"
        /\ <<p.parent, "holds a root">> \in seen' <=> v = "holds a root"
      BY <2>4, <2>5
  <2>7. /\ v = "guarded" <=> UnderARoot(Place[p.parent])
        /\ v = "guarded" => UnderARoot(Lies(p))
        /\ v \notin {"guarded", "holds a root"} => ~UnderARoot(Lies(p))
      BY <2>1, <1>2, VerdictTells DEF Lies
  <2>8. answer' = IF v = "guarded" THEN Place[p.parent]
                  ELSE IF v = "holds a root" /\ UnderARoot(Lies(p)) THEN Lies(p) ELSE answer
      BY <1>8, <2>6 DEF LookUp
  <2>9. ASSUME UnderARoot(Lies(p)), answer' \in Seq(Parts), UnderARoot(answer')
        PROVE  GuardInv'
    <3>1. answer' # Undecided /\ answer' # Nowhere
        BY <2>9, GuardAssumption
    <3>2. Danger'
        BY <1>1, <1>8, <2>9 DEF Danger, Touched
    <3>3. UnderARoot(answer)'
        BY <2>9 DEF UnderARoot, Folded
    <3> QED BY <1>0, <1>1, <2>4, <2>9, <3>1, <3>2, <3>3 DEF GuardTypeOK, Cleared, GuardIsExact
  <2>10. CASE v = "guarded"
      BY <2>1, <2>7, <2>8, <2>9, <2>10
  <2>11. CASE v = "holds a root" /\ UnderARoot(Lies(p))
      BY <2>2, <2>8, <2>9, <2>11
  <2>12. CASE v # "guarded" /\ ~(v = "holds a root" /\ UnderARoot(Lies(p)))
      BY <1>6, <2>4, <2>7, <2>8, <2>12
  <2> QED BY <2>10, <2>11, <2>12
<1> QED BY <1>7, <1>8

\* At the end of the paths all of them are clear (first_guarded).
LEMMA EndInv == GuardInv /\ ComesToTheEnd => GuardInv'
<1> SUFFICES ASSUME GuardInv, ComesToTheEnd PROVE GuardInv'
    OBVIOUS
<1> USE DEF GuardInv
<1>0. asked \in Requests
    BY DEF GuardTypeOK
<1>1. /\ UNCHANGED <<asked, seen, reached>> /\ answer' = Nowhere /\ answer = Undecided
      /\ \A i \in DOMAIN asked.paths : i < reached
      /\ reached > 0
  <2>1. Len(asked.paths) \in Nat /\ DOMAIN asked.paths = 1..Len(asked.paths)
      BY <1>0, RequestFields
  <2> QED BY <2>1 DEF GuardTypeOK, ComesToTheEnd
<1>2. ~Danger
    BY <1>1 DEF Cleared, Danger, Touched
<1>3. ~Danger'
    BY <1>1, <1>2 DEF Danger, Touched
<1> QED BY <1>0, <1>1, <1>3, GuardAssumption DEF GuardTypeOK, Cleared, GuardIsExact

\* What the loop relies on holds all through it (first_guarded, guarded.rs).
THEOREM GuardInductive == GuardSpec => []GuardInv
<1>1. GuardInv /\ UNCHANGED guardVars => GuardInv'
    BY DEF GuardInv, guardVars, GuardTypeOK, Cleared, GuardIsExact, Danger, Touched
<1>2. GuardInv /\ [GuardNext]_guardVars => GuardInv'
    BY <1>1, BrowseInv, LookInv, EndInv DEF GuardNext
<1> QED BY GuardInitInv, <1>2, PTL DEF GuardSpec

\* No run that touches a guarded folder is let through, and no other is refused
\* (first_guarded, guarded.rs).
THEOREM GuardIsExactHolds == GuardSpec => []GuardIsExact
<1>1. GuardInv => GuardIsExact
    BY DEF GuardInv
<1> QED BY <1>1, GuardInductive, PTL

-----------------------------------------------------------------------------
(***************************************************************************)
(* The number the command line ends with is true, for every line typed and *)
(* every way the engine can end: the stages only pass on what they know.   *)
(***************************************************************************)

\* What an old line comes to is a command of today that never rolls back, and never a
\* rehearsal (compat.rs).
LEMMA OldLinesAreCommands ==
    ASSUME NEW args
    PROVE  /\ OldLine(args).command \in {"help", "none", "preview", "apply"}
           /\ OldLine(args).rollback = FALSE
           /\ OldLine(args).simulate = FALSE
<1>1. \A c, s : /\ Plain(c, s).command = c /\ Plain(c, s).rollback = FALSE
                /\ Plain(c, s).simulate = FALSE
    BY DEF Plain
<1>2. CASE args = <<>>
    BY <1>1, <1>2 DEF OldLine
<1>3. CASE args # <<>> /\ Said(args, "/?")
    BY <1>1, <1>3 DEF OldLine
<1>4. CASE args # <<>> /\ ~Said(args, "/?") /\ \A i \in DOMAIN args : ~IsSwitch(args[i])
  <2>1. OldLine(args) = BarePaths(args)
      BY <1>4 DEF OldLine
  <2> QED BY <1>1, <2>1 DEF BarePaths
<1>5. CASE args # <<>> /\ ~Said(args, "/?") /\ ~(\A i \in DOMAIN args : ~IsSwitch(args[i]))
  <2>1. OldLine(args) = Translate(args)
      BY <1>5 DEF OldLine
  <2>2. /\ Translate(args).command = IF Holds(args, "/r") THEN "apply" ELSE "preview"
        /\ Translate(args).rollback = FALSE
        /\ Translate(args).simulate = FALSE
      BY DEF Translate, Plain
  <2> QED BY <2>1, <2>2
<1> QED BY <1>2, <1>3, <1>4, <1>5

\* And a line of today: only recover rolls back, and a preview is no rehearsal of a run.
LEMMA NewLinesAreCommands ==
    ASSUME NEW l \in NewLines
    PROVE  /\ l.command \in {"preview", "apply", "undo", "recover", "presets"}
           /\ l.rollback => l.command = "recover"
           /\ l.command = "preview" => ~l.simulate
<1>1. \A c, s : /\ Plain(c, s).command = c /\ Plain(c, s).rollback = FALSE
                /\ Plain(c, s).simulate = FALSE
    BY DEF Plain
<1>2. [Plain("recover", "none") EXCEPT !.rollback = TRUE].command = "recover"
    BY DEF Plain
<1>3. CASE l \in {Plain("undo", "none"), Plain("recover", "none"), Plain("presets", "none")}
    BY <1>1, <1>3
<1>4. CASE l = [Plain("recover", "none") EXCEPT !.rollback = TRUE]
    BY <1>2, <1>4
<1>5. CASE /\ l.command \in {"preview", "apply"} /\ l.rollback = FALSE
           /\ l.command = "preview" => ~l.simulate
    BY <1>5
<1> QED BY <1>3, <1>4, <1>5 DEF NewLines

\* Between the stages of a run nothing is done and no number is out.
LEMMA CliStarts == CliInit => CliInv
<1> SUFFICES ASSUME CliInit PROVE CliInv
    OBVIOUS
<1>1. LineIsParsed
  <2>1. CASE line \in NewLines
      BY <2>1, NewLinesAreCommands DEF LineIsParsed
  <2>2. CASE \E args : line = OldLine(args)
      BY <2>2, OldLinesAreCommands DEF LineIsParsed
  <2> QED BY <2>1, <2>2 DEF CliInit
<1>2. StageIsOfTheLine /\ NothingDoneYet /\ RollingBack /\ ExitTellsTheTruth
    BY DEF CliInit, StageIsOfTheLine, NothingDoneYet, RollingBack, ExitTellsTheTruth
<1> QED BY <1>1, <1>2 DEF CliInv

\* The numbers of exit.rs, and the one that is none, are all different.
LEMMA NumbersDiffer ==
    /\ Success # Usage /\ Success # Blocked /\ Success # Failed /\ Success # NoExit
    /\ Failed # Usage /\ Failed # Blocked /\ Failed # NoExit
    /\ Usage # Blocked /\ Usage # NoExit /\ Blocked # NoExit
<1> QED BY DEF Success, Usage, Blocked, Failed, NoExit

\* A stage that only goes on or refuses leaves nothing done.
LEMMA GoesOnOrRefuses ==
    ASSUME CliInv, stage # "over", stage # "rollback",
           UNCHANGED <<line, did, listFile, pending, left, complete>>,
           \/ /\ exit' \in {Usage, Blocked} /\ stage' = "over"
           \/ /\ UNCHANGED exit
              /\ \/ /\ stage' \in {"resolve", "guard the folder", "list", "guard the entries", "answer"}
                    /\ line.command \in {"preview", "apply"}
                 \/ /\ stage' \in {"preview", "apply", "undo", "recover", "presets"}
                    /\ line.command = stage'
                    /\ stage' = "apply" => unanswered' = {}
    PROVE  CliInv'
<1> USE DEF CliInv
<1>1. LineIsParsed'
    BY DEF LineIsParsed
<1>2. StageIsOfTheLine'
    BY DEF StageIsOfTheLine
<1>3. NothingDoneYet'
    BY DEF NothingDoneYet
<1>4. RollingBack'
    BY DEF RollingBack
<1>5. ExitTellsTheTruth'
  <2>1. did' = "nothing" /\ listFile'
      BY DEF NothingDoneYet
  <2>2. exit' \in {Usage, Blocked, NoExit}
      BY DEF NothingDoneYet
  <2>3. exit' # Success /\ (exit' # NoExit => exit' \in {Usage, Blocked})
      BY <2>2, NumbersDiffer, Zenon
  <2> HIDE DEF CliInv
  <2> QED BY <2>1, <2>3, Zenon DEF ExitTellsTheTruth
<1> QED BY <1>1, <1>2, <1>3, <1>4, <1>5

\* A run that was refused or never began has changed nothing, and one that reports no
\* failure has done all of it, unless it only simulated.
LEMMA HowItEnds ==
    ASSUME NEW end \in Engine
    PROVE  \/ (end.how = "refused" \/ end.how = "not begun") /\ end.did = "nothing"
           \/ end.how = "report" /\ end.did = "all"
           \/ end.how = "report" /\ end.did = "nothing" /\ line.simulate
           \/ end.how = "report with failures"
           \/ end.how = "interrupted"
<1> DEFINE Never == {[how |-> "refused", did |-> "nothing"], [how |-> "not begun", did |-> "nothing"]}
           Rehearsed == {[how |-> "report", did |-> "nothing"],
                         [how |-> "report with failures", did |-> "nothing"]}
           Done == {[how |-> "report", did |-> "all"], [how |-> "report with failures", did |-> "part"],
                    [how |-> "report with failures", did |-> "nothing"],
                    [how |-> "interrupted", did |-> "part"], [how |-> "interrupted", did |-> "nothing"]}
<1>1. \A e \in Never : (e.how = "refused" \/ e.how = "not begun") /\ e.did = "nothing"
  <2> TAKE e \in Never
  <2>1. CASE e = [how |-> "refused", did |-> "nothing"]
      BY <2>1
  <2>2. CASE e = [how |-> "not begun", did |-> "nothing"]
      BY <2>2
  <2> QED BY <2>1, <2>2
<1>2. \A e \in Rehearsed : \/ e.how = "report" /\ e.did = "nothing"
                           \/ e.how = "report with failures" \/ e.how = "interrupted"
  <2> TAKE e \in Rehearsed
  <2>1. CASE e = [how |-> "report", did |-> "nothing"]
      BY <2>1
  <2>2. CASE e = [how |-> "report with failures", did |-> "nothing"]
      BY <2>2
  <2> QED BY <2>1, <2>2
<1>3. \A e \in Done : \/ e.how = "report" /\ e.did = "all"
                      \/ e.how = "report with failures" \/ e.how = "interrupted"
  <2> TAKE e \in Done
  <2>1. CASE e = [how |-> "report", did |-> "all"]
      BY <2>1
  <2>2. CASE e = [how |-> "report with failures", did |-> "part"]
      BY <2>2
  <2>3. CASE e = [how |-> "report with failures", did |-> "nothing"]
      BY <2>3
  <2>4. CASE e = [how |-> "interrupted", did |-> "part"]
      BY <2>4
  <2>5. CASE e = [how |-> "interrupted", did |-> "nothing"]
      BY <2>5
  <2> QED BY <2>1, <2>2, <2>3, <2>4, <2>5
<1>4. end \in Never \/ end \in IF line.simulate THEN Rehearsed ELSE Done
    BY Zenon DEF Engine
<1> HIDE DEF Never, Rehearsed, Done
<1>5. CASE line.simulate
    BY <1>1, <1>2, <1>4, <1>5, Zenon
<1>6. CASE ~line.simulate
    BY <1>1, <1>3, <1>4, <1>6, Zenon
<1> QED BY <1>5, <1>6

\* What each stage leaves the next, and what the last one of a command comes to.
LEMMA CliSteps == CliInv /\ [CliNext]_cliVars => CliInv'
<1> SUFFICES ASSUME CliInv, [CliNext]_cliVars PROVE CliInv'
    OBVIOUS
<1>p. LineIsParsed /\ StageIsOfTheLine /\ NothingDoneYet /\ RollingBack /\ ExitTellsTheTruth
    BY DEF CliInv
<1>1. CASE Parse
  <2>1. CASE line.command = "help"
    <3>1. exit' = Success /\ stage' = "over" /\ UNCHANGED <<line, did, listFile, unanswered, pending, left, complete>>
        BY <1>1, <2>1 DEF Parse, Exits, Goes
    <3>2. stage = "parse"
        BY <1>1 DEF Parse
    <3>3. ExitTellsTheTruth'
        BY <1>p, <2>1, <3>1, <3>2 DEF ExitTellsTheTruth, NothingDoneYet, LineIsParsed,
            Usage, Blocked, Success, NoExit
    <3> QED BY <1>p, <3>1, <3>3 DEF CliInv, LineIsParsed, StageIsOfTheLine, NothingDoneYet, RollingBack
  <2>2. CASE line.command # "help"
      BY <1>1, <1>p, <2>2, GoesOnOrRefuses DEF Parse, Exits, Goes, LineIsParsed
  <2> QED BY <2>1, <2>2
<1>2. CASE Resolve
    BY <1>2, <1>p, GoesOnOrRefuses DEF Resolve, Exits, Goes, StageIsOfTheLine
<1>3. CASE Prepare
    BY <1>3, <1>p, GoesOnOrRefuses DEF Prepare, RefuseGuarded, Exits, Goes, StageIsOfTheLine
<1>4. CASE Answers
  <2>1. stage = "answer" /\ UNCHANGED <<line, did, listFile, pending, left, complete>>
      BY <1>4 DEF Answers
  <2>2. line.command \in {"preview", "apply"}
      BY <1>p, <2>1 DEF StageIsOfTheLine
  <2>3. \/ exit' = Usage /\ stage' = "over"
        \/ /\ UNCHANGED exit /\ stage' = line.command
           /\ line.command = "apply" => unanswered' = {}
      BY <1>4 DEF Answers, Exits, Goes
  <2> QED BY <2>1, <2>2, <2>3, GoesOnOrRefuses
<1>5. CASE Preview
  <2>1. stage = "preview" /\ line.command = "preview" /\ ~line.simulate /\ ~line.rollback
      BY <1>5, <1>p DEF Preview, StageIsOfTheLine, LineIsParsed
  <2>2. UNCHANGED <<line, did, unanswered, pending, left, complete>> /\ stage' = "over"
      BY <1>5 DEF Preview, Exits
  <2>3. did = "nothing" /\ left = 0 /\ listFile
      BY <1>p, <2>1 DEF NothingDoneYet
  <2>4. \/ exit' = Blocked /\ listFile'
        \/ exit' = Success /\ (line.deleteList \/ listFile')
      BY <1>5, <2>3 DEF Preview, Exits, ConsumeList
  <2>5. ExitTellsTheTruth'
      BY <2>1, <2>2, <2>3, <2>4 DEF ExitTellsTheTruth, Usage, Blocked, Success
  <2> QED BY <1>p, <2>2, <2>5 DEF CliInv, LineIsParsed, StageIsOfTheLine, NothingDoneYet, RollingBack
<1>6. CASE Apply
  <2>1. stage = "apply" /\ line.command = "apply" /\ ~line.rollback
      BY <1>6, <1>p DEF Apply, StageIsOfTheLine, LineIsParsed
  <2>2. UNCHANGED <<line, unanswered, pending, left, complete>> /\ stage' = "over"
      BY <1>6 DEF Apply, Exits
  <2>3. unanswered = {} /\ left = 0 /\ listFile
      BY <1>p, <2>1 DEF NothingDoneYet
  <2>4. PICK end \in Engine :
            /\ did' = end.did /\ exit' = ExitOf(end.how)
            /\ IF end.how = "report" THEN ConsumeList(line.simulate) ELSE UNCHANGED listFile
      BY <1>6 DEF Apply, Exits
  <2>5. \/ (end.how = "refused" \/ end.how = "not begun") /\ end.did = "nothing"
        \/ end.how = "report" /\ end.did = "all"
        \/ end.how = "report" /\ end.did = "nothing" /\ line.simulate
        \/ end.how = "report with failures"
        \/ end.how = "interrupted"
      BY HowItEnds, Zenon
  <2>6. ASSUME end.how = "report"
       PROVE  ExitTellsTheTruth'
    <3>1. exit' = Success
        BY <2>4, <2>6 DEF ExitOf
    <3>2. \/ listFile'
          \/ line.deleteList /\ ~line.simulate
        BY <2>3, <2>4, <2>6 DEF ConsumeList
    <3>3. did' = "all" \/ line.simulate
        BY <2>4, <2>5, <2>6
    <3> QED BY <2>1, <2>2, <2>3, <2>4, <2>5, <2>6, <3>1, <3>2
            DEF ExitTellsTheTruth, Usage, Blocked, Success
  <2>7. ASSUME end.how = "refused" \/ end.how = "not begun"
       PROVE  ExitTellsTheTruth'
    <3>1. exit' \in {Usage, Blocked} /\ listFile' /\ did' = "nothing"
      <4>1. exit' = IF end.how = "refused" THEN Blocked ELSE Usage
          BY <2>4, <2>7 DEF ExitOf
      <4>2. end.how # "report" /\ end.how # "report with failures" /\ end.how # "interrupted"
          BY <2>7
      <4> QED BY <2>3, <2>4, <2>5, <4>1, <4>2, Zenon
    <3> QED BY <3>1, NumbersDiffer, Zenon DEF ExitTellsTheTruth
  <2>8. ASSUME end.how = "report with failures" \/ end.how = "interrupted"
       PROVE  ExitTellsTheTruth'
    <3>1. exit' = Failed /\ listFile'
        BY <2>3, <2>4, <2>8 DEF ExitOf
    <3> QED BY <3>1 DEF ExitTellsTheTruth, Usage, Blocked, Success, Failed
  <2>9. ExitTellsTheTruth'
      BY <2>5, <2>6, <2>7, <2>8
  <2> QED BY <1>p, <2>2, <2>9 DEF CliInv, LineIsParsed, StageIsOfTheLine, NothingDoneYet, RollingBack
<1>7. CASE UndoLast
  <2>1. stage = "undo" /\ line.command = "undo" /\ ~line.rollback
      BY <1>7, <1>p DEF UndoLast, StageIsOfTheLine, LineIsParsed
  <2>2. UNCHANGED <<line, listFile, unanswered, pending, left, complete>> /\ stage' = "over"
      BY <1>7 DEF UndoLast, Exits
  <2>3. did = "nothing" /\ listFile
      BY <1>p, <2>1 DEF NothingDoneYet
  <2>4. \/ did' = "all" /\ exit' = Success
        \/ exit' = Failed
        \/ did' = "nothing" /\ exit' \in {Blocked, Usage}
      BY <1>7, <2>3 DEF UndoLast, Exits
  <2>5. ExitTellsTheTruth'
      BY <2>1, <2>2, <2>3, <2>4 DEF ExitTellsTheTruth, Usage, Blocked, Success, Failed
  <2> QED BY <1>p, <2>2, <2>5 DEF CliInv, LineIsParsed, StageIsOfTheLine, NothingDoneYet, RollingBack
<1>8. CASE Recover
  <2>1. stage = "recover" /\ line.command = "recover"
      BY <1>8, <1>p DEF Recover, StageIsOfTheLine
  <2>2. did = "nothing" /\ listFile /\ exit = NoExit
      BY <1>p, <2>1 DEF NothingDoneYet
  <2>3. UNCHANGED <<line, did, listFile, unanswered>>
      BY <1>8 DEF Recover
  <2>4. PICK n \in 0..MaxPending, unreadable \in BOOLEAN :
            /\ pending' = n /\ left' = n
            /\ IF n = 0 \/ ~line.rollback
               THEN Exits(IF unreadable THEN Failed ELSE Success)
               ELSE Goes("rollback")
      BY <1>8 DEF Recover
  <2>5. n \in Nat
      BY CommandLineAssumption
  <2>6. CASE n = 0 \/ ~line.rollback
    <3>1. exit' \in {Success, Failed} /\ stage' = "over"
        BY <2>4, <2>6 DEF Exits
    <3>2. ExitTellsTheTruth'
        BY <2>1, <2>2, <2>3, <2>4, <2>6, <3>1 DEF ExitTellsTheTruth, Usage, Blocked, Success, Failed
    <3> QED BY <1>p, <2>3, <3>1, <3>2 DEF CliInv, LineIsParsed, StageIsOfTheLine, NothingDoneYet, RollingBack
  <2>7. CASE ~(n = 0 \/ ~line.rollback)
    <3>1. stage' = "rollback" /\ exit' = NoExit
        BY <2>2, <2>4, <2>7 DEF Goes
    <3>2. ExitTellsTheTruth'
        BY <3>1 DEF ExitTellsTheTruth
    <3>3. RollingBack'
        BY <2>2, <2>3, <2>4, <2>5 DEF RollingBack
    <3> QED BY <1>p, <2>1, <2>2, <2>3, <3>1, <3>2, <3>3 DEF CliInv, LineIsParsed, StageIsOfTheLine, NothingDoneYet
  <2> QED BY <2>6, <2>7
<1>9. CASE Rollback
  <2>1. stage = "rollback" /\ pending > 0 /\ pending' = pending - 1
      BY <1>9 DEF Rollback
  <2>2. UNCHANGED <<line, stage, listFile, unanswered, exit>>
      BY <1>9 DEF Rollback
  <2>3. pending \in Nat /\ left \in Int /\ (complete => left = pending /\ did # "part")
      BY <1>p, <2>1 DEF RollingBack
  <2>4. \/ left' = left - 1 /\ complete' = complete /\ did' = IF did = "nothing" THEN "all" ELSE did
        \/ complete' = FALSE /\ left' = left
      BY <1>9 DEF Rollback
  <2>5. pending' \in Nat /\ left' \in Int
      BY <2>1, <2>3, <2>4
  <2>6. complete' => left' = pending'
      BY <2>1, <2>3, <2>4
  <2>7. complete' => did' # "part"
      BY <2>3, <2>4
  <2>8. RollingBack'
      BY <2>5, <2>6, <2>7 DEF RollingBack
  <2>9. ExitTellsTheTruth'
      BY <1>p, <2>1, <2>2 DEF ExitTellsTheTruth, NothingDoneYet
  <2> QED BY <1>p, <2>1, <2>2, <2>8, <2>9 DEF CliInv, LineIsParsed, StageIsOfTheLine, NothingDoneYet
<1>10. CASE RollbackEnds
  <2>1. /\ stage = "rollback" /\ pending = 0 /\ stage' = "over"
        /\ exit' = IF complete THEN Success ELSE Failed
        /\ UNCHANGED <<line, did, listFile, unanswered, pending, left, complete>>
      BY <1>10 DEF RollbackEnds, Exits
  <2>2. line.command = "recover" /\ listFile
      BY <1>p, <2>1 DEF StageIsOfTheLine, NothingDoneYet
  <2>3. complete => left = 0 /\ did # "part"
      BY <1>p, <2>1 DEF RollingBack
  <2>4. ExitTellsTheTruth'
      BY <2>1, <2>2, <2>3 DEF ExitTellsTheTruth, Usage, Blocked, Success, Failed
  <2> QED BY <1>p, <2>1, <2>4 DEF CliInv, LineIsParsed, StageIsOfTheLine, NothingDoneYet, RollingBack
<1>11. CASE RunPresets
  <2>1. /\ stage = "presets" /\ stage' = "over"
        /\ UNCHANGED <<line, listFile, unanswered, pending, left, complete>>
        /\ \/ did' \in {"nothing", "all"} /\ exit' = Success
           \/ did' = did /\ exit' = Usage
      BY <1>11 DEF RunPresets, Exits
  <2>2. line.command = "presets" /\ ~line.rollback /\ listFile /\ did = "nothing"
      BY <1>p, <2>1 DEF StageIsOfTheLine, LineIsParsed, NothingDoneYet
  <2>3. ExitTellsTheTruth'
      BY <2>1, <2>2 DEF ExitTellsTheTruth, Usage, Blocked, Success, Failed
  <2> QED BY <1>p, <2>1, <2>3 DEF CliInv, LineIsParsed, StageIsOfTheLine, NothingDoneYet, RollingBack
<1>12. CASE UNCHANGED cliVars
    BY <1>p, <1>12 DEF cliVars, CliInv, LineIsParsed, StageIsOfTheLine, NothingDoneYet, RollingBack,
        ExitTellsTheTruth
<1> QED BY <1>1, <1>2, <1>3, <1>4, <1>5, <1>6, <1>7, <1>8, <1>9, <1>10, <1>11, <1>12 DEF CliNext

\* Where a run of any command stands, whatever line was typed and however the engine ends:
\* before its last stage nothing is done, and recovery is complete only while what is left
\* is what it has yet to come to.
THEOREM CliInductive == CliSpec => []CliInv
<1> QED BY CliStarts, CliSteps, PTL DEF CliSpec

\* The number a script hears is true: one that says nothing was changed leaves nothing
\* changed, success means all of it with no question open and no unfinished run left, and
\* the list of paths is gone only after a run that was done (exit.rs, main.rs).
THEOREM ExitTellsTheTruthHolds == CliSpec => []ExitTellsTheTruth
<1>1. CliInv => ExitTellsTheTruth
    BY DEF CliInv
<1> QED BY <1>1, CliInductive, PTL

-----------------------------------------------------------------------------
(***************************************************************************)
(* What the window has set up when a run starts, for any cards, listings   *)
(* and presets, and whatever is edited meanwhile: the clean-ups at the end *)
(* of every frame keep the strip, its mark and the answers to their text.  *)
(***************************************************************************)

\* What the strip shows of a listing it shows again: the file itself, or, where the
\* listing has lost it, its first (opening_file, viewmodel/visual_assist.rs).
LEMMA OpeningAgain ==
    ASSUME NEW fs \in Photos, NEW showing, OpeningFile(fs, showing) # Blank
    PROVE  OpeningFile(fs, OpeningFile(fs, showing)) = OpeningFile(fs, showing)
<1>1. fs \in Seq(ToSet(fs))
    BY SetupAssumption
<1>2. CASE showing \in ToSet(fs)
    BY <1>2 DEF OpeningFile
<1>3. CASE showing \notin ToSet(fs)
  <2>1. fs # <<>> /\ OpeningFile(fs, showing) = fs[1]
      BY <1>3 DEF OpeningFile
  <2>2. 1 \in DOMAIN fs
      BY <1>1, <2>1
  <2>3. fs[1] \in ToSet(fs)
      BY <2>2 DEF ToSet
  <2> QED BY <2>1, <2>3 DEF OpeningFile
<1> QED BY <1>2, <1>3

\* The end of a frame leaves everything as it should be, over whatever cards, listing and
\* answers it is given, as long as a mark that comes with a strip is on what that shows.
LEMMA FrameSettles ==
    ASSUME NEW open, NEW s, NEW kept, NEW given,
           listed' \in Photos, outlived = {},
           s # Blank => StripShape(s),
           s # Blank /\ kept # Blank => kept = s.text,
           Settles(cards', open, s, kept, listed', given)
    PROVE  SetupInv'
<1> DEFINE file == OpeningFile(listed', s.file)
           shown == IF file = Blank THEN s.file ELSE file
           name == TextFor(cards', s.card, s.target, file)
           now == [s EXCEPT !.file = shown, !.text = name]
<1>1. /\ strip' = Recomputed(s, cards', open, listed')
      /\ marked' = KeptMark(s, strip', kept)
      /\ answers' = KeptAnswers(cards', given)
      /\ pendingAsk' = Unanswered(cards', answers')
      /\ outlived' = {q \in answers'.asks : q \in outlived \cap answers.asks \/ q \notin Asks(cards')}
    BY DEF Settles
<1>2. strip' # Blank => s # Blank /\ strip' = now
    BY <1>1 DEF Recomputed
<1> HIDE DEF file, shown, name
<1>3. strip' # Blank => /\ StripShape(strip')
                        /\ strip'.card = s.card /\ strip'.target = s.target
                        /\ strip'.file = shown /\ strip'.text = name
  <2>1. ASSUME s # Blank
        PROVE  /\ StripShape(now)
               /\ now.card = s.card /\ now.target = s.target /\ now.file = shown /\ now.text = name
    <3>1. s \in [card : {s.card}, target : {s.target}, file : {s.file}, text : {s.text}, for : {s.for}]
        BY <2>1 DEF StripShape
    <3>2. /\ now.card = s.card /\ now.target = s.target /\ now.file = shown /\ now.text = name
          /\ now \in [card : {s.card}, target : {s.target}, file : {shown}, text : {name}, for : {s.for}]
        BY <3>1
    <3> HIDE DEF now
    <3>3. StripShape(now)
        BY <3>2 DEF StripShape
    <3> QED BY <3>2, <3>3
  <2> HIDE DEF now
  <2> QED BY <1>2, <2>1
<1>4. OpeningFile(listed', shown) = file
  <2>1. CASE file = Blank
      BY <2>1 DEF file, shown
  <2>2. CASE file # Blank
      BY <2>2, OpeningAgain DEF file, shown
  <2> QED BY <2>1, <2>2
<1>5. StripShowsTheName'
    BY <1>3, <1>4 DEF StripShowsTheName, name
<1>6. MarkIsOnTheStrip'
  <2>1. marked' # Blank => /\ strip' # Blank /\ s # Blank
                           /\ strip'.text = s.text /\ marked' = kept /\ kept # Blank
      BY <1>1 DEF KeptMark
  <2> QED BY <2>1 DEF MarkIsOnTheStrip
<1>7. answers'.asks \subseteq Asks(cards')
    BY <1>1 DEF KeptAnswers
<1>8. outlived' = {}
    BY <1>1, <1>7
<1>9. AnswersAreAskedFor'
    BY <1>1, <1>7, <1>8 DEF AnswersAreAskedFor
<1> QED BY <1>5, <1>6, <1>9 DEF SetupInv

\* The same where the strip, the listing and the mark are as they were, whatever became of
\* the cards and the answers.
LEMMA EditSettles ==
    ASSUME SetupInv, listed' = listed, NEW open, NEW given,
           Settles(cards', open, strip, marked, listed, given)
    PROVE  SetupInv'
<1>1. /\ listed' \in Photos /\ outlived = {}
      /\ strip # Blank => StripShape(strip)
      /\ strip # Blank /\ marked # Blank => marked = strip.text
    BY DEF SetupInv, StripShowsTheName, MarkIsOnTheStrip, AnswersAreAskedFor
<1>2. Settles(cards', open, strip, marked, listed', given)
    BY DEF Settles
<1> QED BY <1>1, <1>2, FrameSettles

\* And where the strip is shut.
LEMMA ShutSettles ==
    ASSUME SetupInv, listed' \in Photos, NEW open, NEW given,
           Settles(cards', open, Blank, Blank, listed', given)
    PROVE  SetupInv'
<1>1. outlived = {}
    BY DEF SetupInv, AnswersAreAskedFor
<1> QED BY <1>1, FrameSettles

\* A frame that touches neither cards nor listing nor answers: the strip stays, with a mark
\* on it, or goes, with its mark.
LEMMA StripStaysOrGoes ==
    ASSUME SetupInv, UNCHANGED <<cards, listed, answers, pendingAsk, outlived>>,
           \/ strip' = strip /\ marked' = marked
           \/ strip' = strip /\ strip # Blank /\ marked' = strip.text
           \/ strip' = Blank /\ marked' = Blank
    PROVE  SetupInv'
<1>1. listed' \in Photos /\ AnswersAreAskedFor'
    BY DEF SetupInv, AnswersAreAskedFor
<1>2. StripShowsTheName'
    BY DEF SetupInv, StripShowsTheName
<1>3. MarkIsOnTheStrip'
    BY DEF SetupInv, MarkIsOnTheStrip
<1> QED BY <1>1, <1>2, <1>3 DEF SetupInv

\* A position pointed at: the strip moves there, opens there or shuts.
LEMMA PointsKeeps ==
    ASSUME SetupInv, UNCHANGED <<cards, listed>>, NEW target, PointsAt(target)
    PROVE  SetupInv'
<1>1. listed' \in Photos /\ listed' = listed /\ cards' = cards /\ outlived = {}
    BY DEF SetupInv, AnswersAreAskedFor
<1>2. CASE strip' = Blank /\ marked' = Blank /\ UNCHANGED <<answers, pendingAsk, outlived>>
    BY <1>2, StripStaysOrGoes
<1>3. ASSUME strip # Blank,
             Settles(cards, expanded, [strip EXCEPT !.target = target], Blank, listed, answers)
      PROVE  SetupInv'
  <2> DEFINE s == [strip EXCEPT !.target = target]
  <2>1. StripShape(strip)
      BY <1>3 DEF SetupInv, StripShowsTheName
  <2>2. strip \in [card : {strip.card}, target : {strip.target}, file : {strip.file},
                  text : {strip.text}, for : {strip.for}]
      BY <2>1 DEF StripShape
  <2>3. s \in [card : {strip.card}, target : {target}, file : {strip.file},
              text : {strip.text}, for : {strip.for}]
      BY <2>2
  <2>4. Settles(cards', expanded, s, Blank, listed', answers)
      BY <1>1, <1>3 DEF Settles
  <2> HIDE DEF s
  <2>5. StripShape(s)
      BY <2>3 DEF StripShape
  <2> QED BY <1>1, <2>4, <2>5, FrameSettles
<1>4. ASSUME NEW s, NEW seed, StripShape(s), seed = Blank \/ seed = s.text,
             Settles(cards, expanded, s, seed, listed, answers)
      PROVE  SetupInv'
  <2>1. Settles(cards', expanded, s, seed, listed', answers)
      BY <1>1, <1>4 DEF Settles
  <2> QED BY <1>1, <1>4, <2>1, FrameSettles
<1>5. CASE \E s, seed : /\ StripShape(s) /\ (seed = Blank \/ seed = s.text)
                        /\ Settles(cards, expanded, s, seed, listed, answers)
    BY <1>4, <1>5
<1>6. CASE /\ strip # Blank
           /\ Settles(cards, expanded, [strip EXCEPT !.target = target], Blank, listed, answers)
    BY <1>3, <1>6
<1>7. \/ strip' = Blank /\ marked' = Blank /\ UNCHANGED <<answers, pendingAsk, outlived>>
      \/ strip # Blank /\ Settles(cards, expanded, [strip EXCEPT !.target = target], Blank, listed, answers)
      \/ \E s, seed : /\ StripShape(s) /\ (seed = Blank \/ seed = s.text)
                      /\ Settles(cards, expanded, s, seed, listed, answers)
  <2>1. CASE strip # Blank /\ strip.card = expanded
      BY <2>1 DEF PointsAt
  <2>2. CASE ~(strip # Blank /\ strip.card = expanded)
    <3> DEFINE s == [card |-> expanded, target |-> target, file |-> listed[1],
                     text |-> TextFor(cards, expanded, target, listed[1]),
                     for |-> cards[IndexOf(cards, expanded)].born]
    <3>1. \E seed \in {Blank, s.text} : Settles(cards, expanded, s, seed, listed, answers)
        BY <2>2, Zenon DEF PointsAt
    <3>2. StripShape(s)
        BY DEF StripShape
    <3> HIDE DEF s
    <3> QED BY <3>1, <3>2
  <2> QED BY <2>1, <2>2
<1> QED BY <1>2, <1>5, <1>6, <1>7
\* A fresh window has no strip, no form and no answers.
LEMMA SetupStarts == SetupInit => SetupInv
<1> SUFFICES ASSUME SetupInit PROVE SetupInv
    OBVIOUS
<1>1. listed \in Photos /\ StripShowsTheName /\ MarkIsOnTheStrip
    BY DEF SetupInit, StripShowsTheName, MarkIsOnTheStrip
<1>2. AnswersAreAskedFor
    BY DEF SetupInit, AnswersAreAskedFor
<1> QED BY <1>1, <1>2 DEF SetupInv

\* And everything that can be done in a frame settles by its end.
LEMMA SetupSteps == SetupInv /\ [SetupNext]_setupVars => SetupInv'
<1> SUFFICES ASSUME SetupInv, [SetupNext]_setupVars PROVE SetupInv'
    OBVIOUS
<1>1. CASE AddOperation
  <2>1. listed' = listed /\ Settles(cards', expanded', strip, marked, listed, answers)
      BY <1>1 DEF AddOperation, Kept
  <2> QED BY <2>1, EditSettles
<1>2. CASE ChangeCardKind
  <2>1. listed' = listed /\ Settles(cards', expanded', strip, marked, listed, answers)
      BY <1>2 DEF ChangeCardKind, Kept
  <2> QED BY <2>1, EditSettles
<1>3. CASE EditsCard
  <2>1. listed' = listed /\ Settles(cards', expanded', strip, marked, listed, answers)
      BY <1>3 DEF EditsCard, Kept
  <2> QED BY <2>1, EditSettles
<1>4. CASE MoveCard
  <2>1. listed' = listed /\ Settles(cards', expanded', strip, marked, listed, answers)
      BY <1>4 DEF MoveCard, Kept
  <2> QED BY <2>1, EditSettles
<1>5. CASE DuplicateCard
  <2>1. listed' = listed /\ Settles(cards', expanded', strip, marked, listed, answers)
      BY <1>5 DEF DuplicateCard, Kept
  <2> QED BY <2>1, EditSettles
<1>6. CASE DeleteCard
  <2>1. listed' = listed /\ Settles(cards', expanded', strip, marked, listed, answers)
      BY <1>6 DEF DeleteCard, Kept
  <2> QED BY <2>1, EditSettles
<1>7. CASE ExpandCard
  <2>1. UNCHANGED <<cards, listed>> /\ OnlyOpens(expanded')
      BY <1>7 DEF ExpandCard, Kept, Restack
  <2>2. UNCHANGED <<answers, pendingAsk, outlived>>
      BY <2>1 DEF OnlyOpens
  <2>3. \/ strip' = strip /\ marked' = marked
        \/ strip' = Blank /\ marked' = Blank
    <3>1. CASE strip' = Blank
        BY <2>1, <3>1 DEF OnlyOpens
    <3>2. CASE strip' # Blank
        BY <2>1, <3>2 DEF OnlyOpens
    <3> QED BY <3>1, <3>2
  <2> QED BY <2>1, <2>2, <2>3, StripStaysOrGoes
<1>8. CASE LoadPreset
  <2>1. listed' = listed
      BY <1>8 DEF LoadPreset, Kept
  <2>2. Settles(cards', expanded', strip, marked, listed, [asks |-> {}, clipboard |-> Blank])
      BY <1>8 DEF LoadPreset, Loaded
  <2> QED BY <2>1, <2>2, EditSettles
<1>9. CASE AppendPreset
  <2>1. listed' = listed
      BY <1>9 DEF AppendPreset, Kept
  <2>2. Settles(cards', expanded', strip, marked, listed, [asks |-> {}, clipboard |-> Blank])
      BY <1>9 DEF AppendPreset
  <2> QED BY <2>1, <2>2, EditSettles
<1>10. CASE ListingChanges
  <2>1. listed' \in Photos /\ cards' = cards
      BY <1>10 DEF ListingChanges, stackVars
  <2>2. Settles(cards', expanded, strip, marked, listed', answers)
      BY <1>10, <2>1 DEF ListingChanges, Settles
  <2>3. /\ listed' \in Photos /\ outlived = {}
        /\ strip # Blank => StripShape(strip)
        /\ strip # Blank /\ marked # Blank => marked = strip.text
      BY <2>1 DEF SetupInv, StripShowsTheName, MarkIsOnTheStrip, AnswersAreAskedFor
  <2> QED BY <2>2, <2>3, FrameSettles
<1>11. CASE PointVisualAssist
  <2>1. UNCHANGED <<cards, listed>>
      BY <1>11 DEF PointVisualAssist, Assisted, Kept, stackVars
  <2>2. \E target : PointsAt(target)
      BY <1>11 DEF PointVisualAssist
  <2> QED BY <2>1, <2>2, PointsKeeps
<1>12. CASE CycleVisualAssist
  <2>1. UNCHANGED <<cards, listed>>
      BY <1>12 DEF CycleVisualAssist, Assisted, Kept, stackVars
  <2>2. \/ \E target : PointsAt(target)
        \/ strip' = Blank /\ marked' = Blank /\ UNCHANGED <<answers, pendingAsk, outlived>>
      BY <1>12, Zenon DEF CycleVisualAssist
  <2>3. ASSUME strip' = Blank, marked' = Blank, UNCHANGED <<answers, pendingAsk, outlived>>
        PROVE  SetupInv'
      BY <2>1, <2>3, StripStaysOrGoes
  <2> QED BY <2>1, <2>2, <2>3, PointsKeeps
<1>13. CASE ShowsFile
  <2>1. UNCHANGED <<cards, listed>> /\ strip # Blank
      BY <1>13 DEF ShowsFile, Assisted, Kept, stackVars
  <2>2. PICK f \in ToSet(listed) \ {strip.file} :
            Settles(cards, expanded, [strip EXCEPT !.file = f], Blank, listed, answers)
      BY <1>13 DEF ShowsFile
  <2> DEFINE s == [strip EXCEPT !.file = f]
  <2>3. strip \in [card : {strip.card}, target : {strip.target}, file : {strip.file},
                  text : {strip.text}, for : {strip.for}]
      BY <2>1 DEF SetupInv, StripShowsTheName, StripShape
  <2>4. s \in [card : {strip.card}, target : {strip.target}, file : {f},
              text : {strip.text}, for : {strip.for}]
      BY <2>3
  <2>5. Settles(cards', expanded, s, Blank, listed', answers)
      BY <2>1, <2>2 DEF Settles
  <2>6. listed' \in Photos /\ outlived = {}
      BY <2>1 DEF SetupInv, AnswersAreAskedFor
  <2> HIDE DEF s
  <2>7. StripShape(s)
      BY <2>4 DEF StripShape
  <2> QED BY <2>5, <2>6, <2>7, FrameSettles
<1>14. CASE MarksText
  <2>1. /\ UNCHANGED <<cards, listed, answers, pendingAsk, outlived>>
        /\ strip' = strip /\ strip # Blank /\ marked' = strip.text
      BY <1>14 DEF MarksText, stackVars, askVars
  <2> QED BY <2>1, StripStaysOrGoes
<1>15. CASE CommitVisualAssist
  <2>1. listed' \in Photos /\ listed' = listed
      BY <1>15 DEF CommitVisualAssist, Kept, SetupInv
  <2>2. Settles(cards', expanded, Blank, Blank, listed', answers)
      BY <1>15, <2>1 DEF CommitVisualAssist, Settles
  <2> QED BY <2>1, <2>2, ShutSettles
<1>16. CASE CloseVisualAssist
  <2>1. /\ UNCHANGED <<cards, listed, answers, pendingAsk, outlived>>
        /\ strip' = Blank /\ marked' = Blank
      BY <1>16 DEF CloseVisualAssist, Assisted, Kept, stackVars
  <2> QED BY <2>1, StripStaysOrGoes
<1>17. CASE PressesRename
  <2>1. UNCHANGED <<cards, listed, answers, pendingAsk, outlived, strip, marked>>
      BY <1>17 DEF PressesRename, stackVars, stripVars
  <2> QED BY <2>1, StripStaysOrGoes
<1>18. CASE Deferred
  <2>1. UNCHANGED <<cards, listed, answers, pendingAsk, outlived, strip, marked>>
      BY <1>18 DEF Deferred, stackVars, stripVars
  <2> QED BY <2>1, StripStaysOrGoes
<1>19. CASE RunPreset
  <2>1. listed' = listed
      BY <1>19 DEF RunPreset
  <2>2. Settles(cards', expanded', strip, marked, listed, [asks |-> {}, clipboard |-> Blank])
      BY <1>19 DEF RunPreset, Loaded
  <2> QED BY <2>1, <2>2, EditSettles
<1>20. CASE PlanArrives
  <2>1. UNCHANGED <<cards, listed, answers, pendingAsk, outlived, strip, marked>>
      BY <1>20 DEF PlanArrives, stackVars, stripVars, askVars
  <2> QED BY <2>1, StripStaysOrGoes
<1>21. CASE ConfirmsAsk
  <2>1. UNCHANGED <<cards, listed>>
      BY <1>21 DEF ConfirmsAsk, stackVars
  <2>2. \E given : Settles(cards, expanded, strip, marked, listed, given)
      BY <1>21, Zenon DEF ConfirmsAsk
  <2>3. \E given : Settles(cards', expanded, strip, marked, listed, given)
      BY <2>1, <2>2 DEF Settles
  <2> QED BY <2>1, <2>3, EditSettles
<1>22. CASE CancelsAsk
  <2>1. UNCHANGED <<cards, listed, answers, pendingAsk, outlived, strip, marked>>
      BY <1>22 DEF CancelsAsk, stackVars, stripVars
  <2> QED BY <2>1, StripStaysOrGoes
<1>23. CASE RunLands
  <2>1. listed' \in Photos /\ cards' = cards
      BY <1>23 DEF RunLands, stackVars
  <2>2. Settles(cards', expanded, Blank, Blank, listed', answers)
      BY <1>23, <2>1 DEF RunLands, Settles
  <2> QED BY <2>1, <2>2, ShutSettles
<1>24. CASE BoardChanges
  <2>1. UNCHANGED <<cards, listed, answers, pendingAsk, outlived, strip, marked>>
      BY <1>24 DEF BoardChanges, stackVars, stripVars
  <2> QED BY <2>1, StripStaysOrGoes
<1>25. CASE UNCHANGED setupVars
  <2>1. UNCHANGED <<cards, listed, answers, pendingAsk, outlived, strip, marked>>
      BY <1>25 DEF setupVars, stackVars, stripVars, askVars
  <2> QED BY <2>1, StripStaysOrGoes
<1> QED
    BY <1>1, <1>2, <1>3, <1>4, <1>5, <1>6, <1>7, <1>8, <1>9, <1>10, <1>11, <1>12, <1>13, <1>14, <1>15, <1>16, <1>17, <1>18, <1>19, <1>20, <1>21, <1>22, <1>23, <1>24, <1>25 DEF SetupNext

\* Over any cards, presets and listings, whatever is edited while the strip or the form is
\* open: the strip shows the name as it now is, a mark is on what it shows, and no answer
\* outlives its question.
THEOREM SetupInductive == SetupSpec => []SetupInv
<1> QED BY SetupStarts, SetupSteps, PTL DEF SetupSpec

\* What a Select writes was marked on the very text its card is handed
\* (viewmodel/visual_assist.rs: a selection made on another text is forgotten).
THEOREM SelectIsOfItsTextHolds == SetupSpec => []SelectIsOfItsText
<1>1. SetupInv => SelectIsOfItsText
    BY DEF SetupInv, StripShowsTheName, MarkIsOnTheStrip, SelectIsOfItsText
<1> QED BY <1>1, SetupInductive, PTL

\* A run starts only from PressesRename and Deferred, with nothing left to ask.
LEMMA StartsAreRuns ==
    ASSUME [SetupNext]_setupVars, Starts
    PROVE  UNCHANGED <<cards, answers, pendingAsk, outlived>> /\ pendingAsk = NoForm
<1>1. ASSUME NEW wait, Run(wait)
      PROVE  pendingAsk = NoForm
    BY <1>1 DEF Run, Starts
<1>2. CASE PressesRename
    BY <1>1, <1>2 DEF PressesRename, stackVars
<1>3. CASE Deferred
    BY <1>1, <1>3 DEF Deferred, stackVars
<1>4. CASE ~PressesRename /\ ~Deferred
  <2>1. running' = running \/ running' = FALSE
      BY <1>4 DEF SetupNext, setupVars, runVars, Assisted, Kept, AddOperation, ChangeCardKind, EditsCard,
          MoveCard, DuplicateCard, DeleteCard, ExpandCard, LoadPreset, AppendPreset, ListingChanges,
          PointVisualAssist, CycleVisualAssist, ShowsFile, MarksText, CommitVisualAssist,
          CloseVisualAssist, RunPreset, PlanArrives, ConfirmsAsk, CancelsAsk, RunLands, BoardChanges
  <2> QED BY <2>1 DEF Starts
<1> QED BY <1>2, <1>3, <1>4

\* A run starts with an answer to everything its pipeline asks, each given since the
\* pipeline began to ask (forget_stale_answers and ask_pass, app.rs).
THEOREM AnswersAreToItsQuestionsHolds == SetupSpec => AnswersAreToItsQuestions
<1>1. ASSUME SetupInv, [SetupNext]_setupVars, Starts
      PROVE  /\ Asks(cards) \subseteq answers.asks
             /\ outlived \cap Asks(cards) = {}
             /\ WantsClipboard(cards) => answers.clipboard # Blank
  <2>1. Unanswered(cards, answers) = NoForm /\ outlived = {}
      BY <1>1, StartsAreRuns DEF SetupInv, AnswersAreAskedFor
  <2>2. /\ Unanswered(cards, answers).slots = {}
        /\ Unanswered(cards, answers).clipboard = FALSE
      BY <2>1 DEF NoForm
  <2> QED BY <2>1, <2>2 DEF Unanswered
<1>2. SetupInv /\ [SetupNext]_setupVars =>
        [Starts => /\ Asks(cards) \subseteq answers.asks
                   /\ outlived \cap Asks(cards) = {}
                   /\ WantsClipboard(cards) => answers.clipboard # Blank]_setupVars
    BY <1>1
<1> QED BY <1>2, SetupInductive, PTL DEF SetupSpec, AnswersAreToItsQuestions

(***************************************************************************)
(* The counter stays within its limit: proved for every setup, listing,    *)
(* width and number of runs.  The invariant is that the start and whatever *)
(* comes next are on the near side of the limit; a step gets past it only  *)
(* by way of Advance, which goes back to the start instead.                *)
(***************************************************************************)

Near(n) == ~Beyond(first, n)

InRange ==
    HasLimit => /\ Near(setup.start) /\ Near(current)
                /\ \A i \in DOMAIN values : Near(values[i])
                /\ \A i \in DOMAIN used : Near(used[i])

CounterInv == CounterTypeOK /\ InRange

\* The setup in use is the user's but for where it starts (counter.rs).
LEMMA SetupFields ==
    ASSUME CounterTypeOK
    PROVE  /\ setup.limit = first.limit /\ setup.step = first.step
           /\ first.step \in Int /\ first.limit \in Int \cup {NoLimit}
           /\ DOMAIN setup = DOMAIN first
BY CounterAssumption DEF CounterTypeOK

\* Saturating keeps a number a number (counter.rs, saturating_add).
LEMMA SaturatedInt == ASSUME NEW n \in Int PROVE Saturated(n) \in Int
BY CounterAssumption DEF Saturated

\* What comes after a value is a number, and near when the start is (advance).
LEMMA AdvanceNear ==
    ASSUME CounterTypeOK, NEW n \in Int
    PROVE  /\ Advance(setup, n) \in Int
           /\ HasLimit /\ Near(setup.start) => Near(Advance(setup, n))
<1>1. n + setup.step \in Int
    BY SetupFields
<1>2. Saturated(n + setup.step) \in Int
    BY <1>1, SaturatedInt
<1>3. Advance(setup, n) \in Int
    BY <1>2 DEF Advance, CounterTypeOK
<1>4. ASSUME HasLimit, Near(setup.start) PROVE Near(Advance(setup, n))
  <2>1. \A m : Beyond(setup, m) <=> Beyond(first, m)
      BY SetupFields DEF Beyond
  <2>2. CASE Passed(setup, n) \/ Beyond(setup, Saturated(n + setup.step))
    <3>1. Advance(setup, n) = setup.start
        BY <2>2, <1>4, SetupFields DEF Advance, HasLimit
    <3> QED BY <3>1, <1>4
  <2>3. CASE ~(Passed(setup, n) \/ Beyond(setup, Saturated(n + setup.step)))
    <3>1. Advance(setup, n) = Saturated(n + setup.step)
        BY <2>3 DEF Advance
    <3> QED BY <3>1, <2>3, <2>1 DEF Near
  <2> QED BY <2>2, <2>3
<1> QED BY <1>3, <1>4

\* The last of the values given is one of them.
LEMMA NextStartNear ==
    ASSUME CounterTypeOK
    PROVE  /\ NextStart(setup, values) \in Int
           /\ HasLimit /\ InRange => Near(NextStart(setup, values))
<1>1. CASE values = <<>>
    BY <1>1 DEF NextStart, InRange, CounterTypeOK
<1>2. CASE values # <<>>
  <2>1. values[Len(values)] \in Int
      BY <1>2 DEF CounterTypeOK
  <2> QED BY <1>2, <2>1, AdvanceNear DEF NextStart, InRange
<1> QED BY <1>1, <1>2

\* The counter starts on the near side when it is set up there.
LEMMA CounterStarts == CounterInit => CounterInv
<1> SUFFICES ASSUME CounterInit PROVE CounterInv
    OBVIOUS
<1>1. setup.start \in Int /\ setup = [first EXCEPT !.start = setup.start]
    BY CounterAssumption DEF CounterInit
<1>2. CounterTypeOK
    BY <1>1, CounterAssumption DEF CounterInit, CounterTypeOK
<1> QED BY <1>2 DEF CounterInit, CounterInv, InRange, HasLimit, Near

\* Every step keeps the invariant.
LEMMA CounterSteps == CounterInv /\ [CounterNext]_counterVars => CounterInv'
<1> SUFFICES ASSUME CounterInv, [CounterNext]_counterVars PROVE CounterInv'
    OBVIOUS
<1> USE DEF CounterInv
<1>1. ASSUME NEW l \in Listings, Begin(l) PROVE CounterInv'
  <2>1. CounterTypeOK'
      BY <1>1, CounterAssumption DEF Begin, CounterTypeOK
  <2>2. InRange'
      BY <1>1 DEF Begin, InRange, HasLimit, Near, Beyond
  <2> QED BY <2>1, <2>2
<1>2. CASE Number
  <2> DEFINE i == Len(values) + 1
             value == IF i > 1 /\ StartsOver(setup, list[i], list[i - 1]) THEN setup.start ELSE current
  <2>1. /\ values' = Append(values, value)
        /\ current' = Advance(setup, value)
        /\ UNCHANGED <<setup, first, list, used, counted, counts>>
      BY <1>2 DEF Number
  <2>2. value \in Int
      BY DEF CounterTypeOK
  <2>3. HasLimit => Near(value)
      BY DEF InRange
  <2> HIDE DEF value
  <2>4. CounterTypeOK'
      BY <2>1, <2>2, AdvanceNear DEF CounterTypeOK
  <2>5. ASSUME HasLimit PROVE \A j \in DOMAIN values' : Near(values'[j])
    <3> SUFFICES ASSUME NEW j \in DOMAIN values' PROVE Near(values'[j])
        OBVIOUS
    <3>1. CASE j \in DOMAIN values
        BY <3>1, <2>1, <2>2, <2>5 DEF CounterTypeOK, InRange
    <3>2. CASE j \notin DOMAIN values
      <4>1. values'[j] = value
          BY <3>2, <2>1, <2>2 DEF CounterTypeOK
      <4> QED BY <4>1, <2>3, <2>5
    <3> QED BY <3>1, <3>2
  <2>6. HasLimit => Near(current')
      BY <2>1, <2>2, AdvanceNear DEF InRange
  <2>7. InRange'
      BY <2>1, <2>5, <2>6 DEF InRange, HasLimit, Near, Beyond
  <2> QED BY <2>4, <2>7
<1>3. CASE Completed
  <2> DEFINE start == IF setup.running THEN NextStart(setup, values) ELSE setup.start
  <2>1. start \in Int /\ (HasLimit => Near(start))
      BY NextStartNear DEF CounterTypeOK, InRange
  <2>2. /\ setup' = [setup EXCEPT !.start = start]
        /\ used' = used \o values /\ counted' = counted \o list /\ list' = <<>>
        /\ UNCHANGED <<first, values, current, counts>>
      BY <1>3 DEF Completed
  <2> HIDE DEF start
  <2>3. setup'.start = start /\ setup' = [first EXCEPT !.start = start]
      BY <2>2, CounterAssumption DEF CounterTypeOK
  <2>4. counted' \in Seq(Entries) /\ used' \in Seq(Int)
      BY <2>2, <1>3, CounterAssumption DEF CounterTypeOK, Completed
  <2>5. CounterTypeOK'
      BY <2>1, <2>2, <2>3, <2>4 DEF CounterTypeOK
  <2>6. ASSUME HasLimit PROVE \A j \in DOMAIN used' : Near(used'[j])
    <3> SUFFICES ASSUME NEW j \in DOMAIN used' PROVE Near(used'[j])
        OBVIOUS
    <3>1. CASE j \in DOMAIN used
        BY <3>1, <2>2, <2>6 DEF CounterTypeOK, InRange
    <3>2. CASE j \notin DOMAIN used
      <4>1. j - Len(used) \in DOMAIN values /\ used'[j] = values[j - Len(used)]
          BY <3>2, <2>2 DEF CounterTypeOK
      <4> QED BY <4>1, <2>6 DEF InRange
    <3> QED BY <3>1, <3>2
  <2>7. InRange'
      BY <2>1, <2>2, <2>3, <2>6 DEF InRange, HasLimit, Near, Beyond
  <2> QED BY <2>5, <2>7
<1>4. CASE Unfinished
  <2>1. CounterTypeOK'
      BY <1>4 DEF Unfinished, CounterTypeOK
  <2>2. InRange'
      BY <1>4 DEF Unfinished, InRange, HasLimit, Near, Beyond
  <2> QED BY <2>1, <2>2
<1>5. CASE UNCHANGED counterVars
    BY <1>5 DEF counterVars, CounterTypeOK, InRange, HasLimit, Near, Beyond
<1> QED BY <1>1, <1>2, <1>3, <1>4, <1>5 DEF CounterNext

\* No row of any run is numbered past "Reset at", however far a step of the
\* counter jumps and wherever the running counter goes on (counter.rs advance,
\* run.rs next_start).
THEOREM CounterStaysWithinLimit == CounterSpec => []NeverPastLimit
<1>1. CounterInv => NeverPastLimit
    BY DEF CounterInv, InRange, NeverPastLimit, Near
<1> QED BY CounterStarts, CounterSteps, <1>1, PTL DEF CounterSpec

(***************************************************************************)
(* The selection goes with its rows: an order is a permutation, so each    *)
(* row picked has one place it goes to, and what is picked there is the    *)
(* same file.                                                              *)
(***************************************************************************)

\* Each row has a place in an order.
LEMMA OrderReaches ==
    ASSUME NEW fs \in Seq(Rowable), NEW key, NEW rising, NEW top, NEW order \in ByKeys(fs, key, rising, top)
    PROVE  /\ order \in [DOMAIN fs -> DOMAIN fs]
           /\ \A i \in DOMAIN fs : \E p \in DOMAIN fs : order[p] = i
BY DEF ByKeys, Bijection, Injection, Surjection

\* Rows put in another order are as many, and each is one there was.
LEMMA OrderKeepsRows ==
    ASSUME NEW fs \in Seq(Rowable), NEW order \in [DOMAIN fs -> DOMAIN fs]
    PROVE  /\ [p \in DOMAIN fs |-> fs[order[p]]] \in Seq(Rowable)
           /\ DOMAIN [p \in DOMAIN fs |-> fs[order[p]]] = DOMAIN fs
OBVIOUS

\* The whole selection goes where its rows go.
LEMMA ApplyOrderKeeps ==
    ASSUME RowsAssumption, SelectionInv, NEW key, NEW rising, NEW top, NEW order \in ByKeys(rows, key, rising, top),
           ApplyOrder(order), UNCHANGED <<drag, held>>, drag = Nothing
    PROVE  /\ SelectionInv'
           /\ <<Chosen, FileAt(lead), FileAt(anchor)>>' = <<Chosen, FileAt(lead), FileAt(anchor)>>
<1> DEFINE movedTo(i) == CHOOSE p \in DOMAIN order : order[p] = i
<1>1. order \in [DOMAIN rows -> DOMAIN rows] /\ \A i \in DOMAIN rows : \E p \in DOMAIN rows : order[p] = i
    BY OrderReaches DEF SelectionInv
<1>2. rows' \in Seq(Rowable) /\ DOMAIN rows' = DOMAIN rows
    BY <1>1, OrderKeepsRows DEF SelectionInv, ApplyOrder
<1>3. \A i \in DOMAIN rows : movedTo(i) \in DOMAIN rows /\ order[movedTo(i)] = i
    BY <1>1
<1>4. \A i \in DOMAIN rows : movedTo(i) \in DOMAIN rows' /\ rows'[movedTo(i)] = rows[i]
    BY <1>1, <1>2, <1>3 DEF ApplyOrder
<1>5. picked' = {movedTo(i) : i \in picked}
    BY DEF ApplyOrder, Remap
<1>6. /\ lead' = IF lead = Nothing THEN Nothing ELSE movedTo(lead)
      /\ anchor' = IF anchor = Nothing THEN Nothing ELSE movedTo(anchor)
    BY DEF ApplyOrder, Remap
<1> HIDE DEF movedTo
<1>7. SelectionInv'
    BY <1>2, <1>4, <1>5, <1>6 DEF SelectionInv, Numbered
<1>8. Chosen' = Chosen
  <2>1. Chosen' = {rows'[movedTo(i)] : i \in picked}
      BY <1>5 DEF Chosen
  <2> QED BY <2>1, <1>4, ZenonT(30) DEF Chosen, SelectionInv
<1>9. Nothing \notin DOMAIN rows'
    BY <1>2 DEF RowsAssumption
<1>10. FileAt(lead)' = FileAt(lead)
    BY <1>4, <1>6, <1>9 DEF FileAt, SelectionInv, Numbered
<1>11. FileAt(anchor)' = FileAt(anchor)
    BY <1>4, <1>6, <1>9 DEF FileAt, SelectionInv, Numbered
<1> QED BY <1>7, <1>8, <1>10, <1>11

\* What each way of picking may do to the selection.
PicksInSight(reach) ==
    /\ UNCHANGED <<rows, hidden, drag, held>>
    /\ picked' \subseteq picked \cup reach
    /\ lead' \in Numbered /\ anchor' \in Numbered

\* A selection that grows only by rows on screen, or those a drag began with.
LEMMA PickedStays ==
    ASSUME SelectionInv, NEW reach, PicksInSight(reach),
           reach \subseteq DOMAIN rows, {rows[i] : i \in reach} \subseteq OnScreen \cup held
    PROVE  SelectionInv' /\ rows' = rows /\ Chosen' \ Chosen \subseteq OnScreen \cup held
<1>1. SelectionInv'
    BY DEF SelectionInv, PicksInSight, Numbered
<1>2. Chosen' \ Chosen \subseteq {rows[i] : i \in reach}
    BY DEF Chosen, PicksInSight
<1> QED BY <1>1, <1>2 DEF PicksInSight

\* A click picks rows on screen.
LEMMA ClickPicks ==
    ASSUME SelectionInv, NEW i \in Shown, NEW ctrl, NEW shift, Click(i, ctrl, shift)
    PROVE  PicksInSight(Shown)
<1>1. i \in DOMAIN rows
    BY DEF Shown
<1>2. CASE shift /\ anchor # Nothing /\ anchor \in Shown
    BY <1>1, <1>2 DEF Click, Picks, Span, PicksInSight, SelectionInv, Numbered
<1>3. CASE shift /\ anchor # Nothing /\ anchor \notin Shown
    BY <1>3 DEF Click, PicksInSight, SelectionInv, rowsVars
<1>4. CASE ~(shift /\ anchor # Nothing)
    BY <1>1, <1>4 DEF Click, Picks, PicksInSight, SelectionInv, Numbered
<1> QED BY <1>2, <1>3, <1>4

LEMMA JumpPicks ==
    ASSUME SelectionInv, NEW i \in Shown, NEW ctrl, NEW shift, JumpTo(i, ctrl, shift)
    PROVE  PicksInSight(Shown)
<1>1. CASE ctrl /\ ~shift
    BY <1>1 DEF JumpTo, Picks, PicksInSight, Numbered, Shown
<1>2. CASE ~(ctrl /\ ~shift)
    BY <1>2, ClickPicks DEF JumpTo
<1> QED BY <1>1, <1>2

LEMMA ArrowPicks ==
    ASSUME SelectionInv, NEW down, NEW ctrl, NEW shift, Arrow(down, ctrl, shift)
    PROVE  PicksInSight(Shown)
<1>1. PICK i \in IF lead \notin Shown THEN EndOf(Shown, down)
                 ELSE IF Further(lead, down) = {} THEN {lead}
                 ELSE EndOf(Further(lead, down), down) : JumpTo(i, ctrl, shift)
    BY DEF Arrow
<1>2. i \in Shown
    BY <1>1 DEF EndOf, Further
<1> QED BY <1>1, <1>2, JumpPicks

\* The rows in sight are rows, and on screen.
LEMMA ShownIsOnScreen ==
    Shown \subseteq DOMAIN rows /\ {rows[i] : i \in Shown} \subseteq OnScreen \cup held
BY DEF Shown, OnScreen

LEMMA RowsStarts == RowsInit => SelectionInv
BY DEF RowsInit, SelectionInv, Numbered

\* Every gesture, one by one.
LEMMA RowsSteps ==
    ASSUME RowsAssumption, Slips = FALSE, SelectionInv, [RowsNext]_rowsVars
    PROVE  SelectionInv' /\ KeptInSight
<1>0. ASSUME PicksInSight(Shown) PROVE SelectionInv' /\ KeptInSight
    BY <1>0, PickedStays, ShownIsOnScreen DEF KeptInSight
<1>1. ASSUME NEW c \in Columns, SetSort(c) PROVE SelectionInv' /\ KeptInSight
  <2>1. PICK order \in ByKeys(rows, Key[c], sort'.up, foldersFirst) : ApplyOrder(order)
      BY <1>1 DEF SetSort
  <2>2. drag = Nothing /\ UNCHANGED <<drag, held>>
      BY <1>1 DEF SetSort
  <2> QED BY <2>1, <2>2, ApplyOrderKeeps DEF KeptInSight
<1>2. ASSUME NEW key \in NewKeys, ReorderByNewNames(key) PROVE SelectionInv' /\ KeptInSight
  <2>1. PICK order \in ByKeys(rows, IF sort'.up THEN key ELSE [f \in Rowable |-> -key[f]], TRUE, foldersFirst) :
           ApplyOrder(order)
      BY <1>2 DEF ReorderByNewNames
  <2>2. drag = Nothing /\ UNCHANGED <<drag, held>>
      BY <1>2 DEF ReorderByNewNames
  <2> QED BY <2>1, <2>2, ApplyOrderKeeps DEF KeptInSight
<1>3. ASSUME NEW fs \in Lists, Listed(fs) PROVE SelectionInv' /\ KeptInSight
  <2>1. fs \in Seq(Rowable)
      BY DEF RowsAssumption
  <2>2. PICK order \in ByKeys(fs, Key[sort.column], sort.up, foldersFirst) :
           rows' = [p \in DOMAIN fs |-> fs[order[p]]]
      BY <1>3 DEF Listed
  <2>3. rows' \in Seq(Rowable)
      BY <2>1, <2>2, OrderReaches, OrderKeepsRows
  <2>4. picked' = {} /\ lead' = Nothing /\ anchor' = Nothing /\ drag = Nothing /\ UNCHANGED <<drag, held>>
      BY <1>3 DEF Listed
  <2> QED BY <2>3, <2>4 DEF SelectionInv, Numbered, KeptInSight, Chosen
<1>4. ASSUME NEW fs \in Hidings, Filters(fs) PROVE SelectionInv' /\ KeptInSight
    BY <1>4 DEF Filters, SelectionInv, Numbered, KeptInSight, Chosen
<1>5. ASSUME NEW i \in DOMAIN rows, SetLead(i) PROVE SelectionInv' /\ KeptInSight
    BY <1>5 DEF SetLead, SelectionInv, Numbered, KeptInSight, Chosen
<1>6. ASSUME NEW i \in Shown, NEW ctrl \in BOOLEAN, NEW shift \in BOOLEAN, Click(i, ctrl, shift)
      PROVE  SelectionInv' /\ KeptInSight
    BY <1>0, <1>6, ClickPicks
<1>7. ASSUME NEW i \in Shown, NEW ctrl \in BOOLEAN, NEW shift \in BOOLEAN, Presses(i, ctrl, shift)
      PROVE  SelectionInv' /\ KeptInSight
  <2>1. drag'.anchor \in DOMAIN rows
      BY <1>7, ShownIsOnScreen DEF Presses, SelectionInv, Numbered
  <2>2. drag'.base \subseteq DOMAIN rows /\ {rows[j] : j \in drag'.base} \subseteq held'
      BY <1>7 DEF Presses, SelectionInv, Chosen
  <2> QED BY <1>7, <2>1, <2>2 DEF Presses, SelectionInv, Numbered, KeptInSight, Chosen
<1>8. ASSUME NEW i \in Shown, SelectsOne(i) PROVE SelectionInv' /\ KeptInSight
    BY <1>0, <1>8, ShownIsOnScreen DEF SelectsOne, Picks, PicksInSight, Numbered
<1>9. ASSUME NEW i \in Shown, Sweeps(i) PROVE SelectionInv' /\ KeptInSight
  <2>1. PicksInSight(Shown \cup drag.base)
      BY <1>9, ShownIsOnScreen DEF Sweeps, Picks, PicksInSight, Span, Numbered
  <2>2. drag.base \subseteq DOMAIN rows /\ {rows[j] : j \in drag.base} \subseteq held
      BY <1>9 DEF Sweeps, SelectionInv
  <2> QED BY <2>1, <2>2, PickedStays, ShownIsOnScreen DEF KeptInSight
<1>10. ASSUME SelectsAll PROVE SelectionInv' /\ KeptInSight
    BY <1>0, <1>10, ShownIsOnScreen DEF SelectsAll, EndOf, Picks, PicksInSight, Numbered
<1>11. ASSUME NEW down \in BOOLEAN, NEW ctrl \in BOOLEAN, NEW shift \in BOOLEAN, Arrow(down, ctrl, shift)
       PROVE  SelectionInv' /\ KeptInSight
    BY <1>0, <1>11, ArrowPicks
<1>12. ASSUME NEW home \in BOOLEAN, NEW ctrl \in BOOLEAN, NEW shift \in BOOLEAN, NEW i \in EndOf(Shown, home),
              JumpTo(i, ctrl, shift)
       PROVE  SelectionInv' /\ KeptInSight
    BY <1>0, <1>12, JumpPicks DEF EndOf
<1>13. ASSUME LetsGo PROVE SelectionInv' /\ KeptInSight
    BY <1>13 DEF LetsGo, SelectionInv, Numbered, KeptInSight, Chosen
<1>14. ASSUME UNCHANGED rowsVars PROVE SelectionInv' /\ KeptInSight
    BY <1>14 DEF rowsVars, SelectionInv, Numbered, KeptInSight, Chosen
<1> QED
    BY <1>1, <1>2, <1>3, <1>4, <1>5, <1>6, <1>7, <1>8, <1>9, <1>10, <1>11, <1>12, <1>13, <1>14 DEF RowsNext

\* The selection is of rows there are, for any listing and any gestures, while the rows
\* do not change under a drag.
THEOREM SelectionInductive ==
    ASSUME RowsAssumption, Slips = FALSE
    PROVE  RowsSpec => []SelectionInv
<1>1. SelectionInv /\ [RowsNext]_rowsVars => SelectionInv'
    BY RowsSteps
<1> QED BY RowsStarts, <1>1, PTL DEF RowsSpec

\* A run covers only what its user saw as it was picked: a sort carries the picked files,
\* the keyboard and the anchor along, a listing drops all three, and no way of picking
\* reaches a row that is not on screen.
THEOREM PickedInSightHolds ==
    ASSUME RowsAssumption, Slips = FALSE
    PROVE  RowsSpec => PickedInSight
<1>1. SelectionInv /\ [RowsNext]_rowsVars => [KeptInSight]_rowsVars
    BY RowsSteps
<1> QED BY SelectionInductive, <1>1, PTL DEF RowsSpec, PickedInSight

(***************************************************************************)
(* The walk of a folder.  Every file asked for that is still there has its *)
(* folder, or a folder above that, before the walk, listed or named: each  *)
(* step hands it down from a folder to the one below.                      *)
(***************************************************************************)

\* A place is a path, and what it begins with is a folder.
LEMMA PlacesAre ==
    ASSUME WalkAssumption
    PROVE  /\ \A p \in Places : p \in Seq(STRING) /\ p # <<>>
           /\ \A p \in Places : \A n \in 1..(Len(p) - 1) : SubSeq(p, 1, n) \in Branches
           /\ \A p \in Branches : p \in Places
           /\ Rank \in [Places -> Nat]
           /\ \A p, q \in Places : Rank[p] = Rank[q] => p = q
           /\ \A p, q \in Places : IsPrefix(p, q) => Rank[p] <= Rank[q]
<1>1. /\ Places \subseteq Seq(STRING) \ {<<>>} /\ Branches \subseteq Places
      /\ \A p \in Places : \A n \in 1..(Len(p) - 1) : SubSeq(p, 1, n) \in Branches
      /\ Rank \in [Places -> Nat]
      /\ \A p, q \in Places : (Rank[p] = Rank[q] => p = q) /\ (IsPrefix(p, q) => Rank[p] <= Rank[q])
    BY Zenon DEF WalkAssumption
<1> QED BY <1>1, Zenon

\* A path begins with another where it agrees with it, name by name.
LEMMA PrefixIs ==
    ASSUME NEW p \in Seq(STRING), NEW q \in Seq(STRING)
    PROVE  IsPrefix(p, q) <=> Len(p) <= Len(q) /\ \A i \in 1..Len(p) : p[i] = q[i]
<1>1. SubSeq(p, 1, Len(p)) = p
    OBVIOUS
<1>2. ASSUME Len(p) <= Len(q) PROVE SubSeq(q, 1, Len(p)) = p <=> \A i \in 1..Len(p) : p[i] = q[i]
    BY <1>2
<1> QED BY <1>1, <1>2 DEF IsPrefix

LEMMA PrefixOrder ==
    ASSUME NEW p \in Seq(STRING), NEW q \in Seq(STRING), NEW r \in Seq(STRING)
    PROVE  IsPrefix(p, p) /\ (IsPrefix(p, q) /\ IsPrefix(q, r) => IsPrefix(p, r)) /\ IsPrefix(<<>>, p)
<1>0. Len(p) \in Nat /\ Len(q) \in Nat /\ Len(r) \in Nat
    OBVIOUS
<1>1. <<>> \in Seq(STRING) /\ Len(<<>>) = 0
    OBVIOUS
<1>2. IsPrefix(p, p)
    BY <1>0 DEF IsPrefix
<1>3. IsPrefix(<<>>, p)
  <2>1. SubSeq(<<>>, 1, 0) = <<>> /\ SubSeq(p, 1, 0) = <<>>
      BY SubSeqEmpty
  <2> QED BY <1>0, <1>1, <2>1 DEF IsPrefix
<1>4. ASSUME IsPrefix(p, q), IsPrefix(q, r) PROVE IsPrefix(p, r)
  <2>1. Len(p) <= Len(q) /\ \A i \in 1..Len(p) : p[i] = q[i]
      BY <1>4, PrefixIs
  <2>2. Len(q) <= Len(r) /\ \A i \in 1..Len(q) : q[i] = r[i]
      BY <1>4, PrefixIs
  <2>3. Len(p) <= Len(r) /\ \A i \in 1..Len(p) : p[i] = r[i]
      BY <1>0, <2>1, <2>2
  <2> QED BY <2>3, PrefixIs
<1> QED BY <1>2, <1>3, <1>4

\* What a path begins with, of a length.
LEMMA FirstOf ==
    ASSUME NEW w \in Seq(STRING), NEW n \in 1..Len(w)
    PROVE  /\ SubSeq(w, 1, n) \in Seq(STRING) /\ Len(SubSeq(w, 1, n)) = n
           /\ \A i \in 1..n : SubSeq(w, 1, n)[i] = w[i]
<1>1. n \in Nat /\ 1 \in Int /\ \A i \in 1..n : w[i] \in STRING
    OBVIOUS
<1>2. /\ SubSeq(w, 1, n) \in Seq(STRING) /\ Len(SubSeq(w, 1, n)) = IF 1 <= n THEN n - 1 + 1 ELSE 0
      /\ \A i \in 1..(n - 1 + 1) : SubSeq(w, 1, n)[i] = w[1 + i - 1]
    BY <1>1, SubSeqProperties
<1>3. n - 1 + 1 = n /\ 1 <= n /\ \A i \in 1..n : 1 + i - 1 = i
    BY <1>1
<1> QED BY <1>2, <1>3

\* Between a folder and what is in it, however deep, lies something it holds itself.
LEMMA ChildBetween ==
    ASSUME WalkAssumption, NEW w \in Places, NEW p \in Places \cup {<<>>}, IsPrefix(p, w), p # w
    PROVE  \E c \in Places : Len(c) = Len(p) + 1 /\ IsPrefix(p, c) /\ IsPrefix(c, w)
<1>0. w \in Seq(STRING) /\ p \in Seq(STRING) /\ w # <<>>
  <2>1. <<>> \in Seq(STRING)
      OBVIOUS
  <2> QED BY <2>1, PlacesAre, Zenon
<1>1. w \in Seq(STRING) /\ p \in Seq(STRING) /\ w # <<>> /\ Len(p) \in Nat /\ Len(w) \in Nat
    BY <1>0, LenProperties
<1>2. Len(p) <= Len(w) /\ \A i \in 1..Len(p) : p[i] = w[i]
    BY <1>1, PrefixIs
<1>3. Len(p) # Len(w)
    BY <1>1, <1>2, SeqEqual
<1> DEFINE c == SubSeq(w, 1, Len(p) + 1)
<1>4. c \in Seq(STRING) /\ Len(c) = Len(p) + 1 /\ \A i \in 1..(Len(p) + 1) : c[i] = w[i]
    BY <1>1, <1>2, <1>3, FirstOf
<1>5. c \in Places
  <2>1. CASE Len(p) + 1 = Len(w)
    <3>1. c = w
        BY <1>1, <1>4, <2>1, SeqEqual
    <3> QED BY <3>1
  <2>2. CASE Len(p) + 1 # Len(w)
    <3>1. Len(p) + 1 \in 1..(Len(w) - 1)
        BY <1>1, <1>2, <1>3, <2>2
    <3> QED BY <3>1, PlacesAre, Zenon
  <2> QED BY <2>1, <2>2
<1> HIDE DEF c
<1>6. IsPrefix(p, c)
  <2>1. Len(p) <= Len(c) /\ \A i \in 1..Len(p) : p[i] = c[i]
      BY <1>1, <1>2, <1>4
  <2> QED BY <1>1, <1>4, <2>1, PrefixIs
<1>7. IsPrefix(c, w)
  <2>1. Len(c) <= Len(w)
      BY <1>1, <1>2, <1>3, <1>4
  <2> QED BY <1>1, <1>4, <2>1, PrefixIs
<1> QED BY <1>4, <1>5, <1>6, <1>7

\* And what has something in it is a folder.
LEMMA AboveIsFolder ==
    ASSUME WalkAssumption, NEW w \in Places, NEW p \in Places, IsPrefix(p, w), p # w
    PROVE  p \in Branches /\ p \in Above(w) /\ Len(w) # 1
<1>0. w \in Seq(STRING) /\ p \in Seq(STRING) /\ p # <<>>
    BY PlacesAre, Zenon
<1>1. w \in Seq(STRING) /\ p \in Seq(STRING) /\ p # <<>> /\ Len(p) \in Nat /\ Len(w) \in Nat
    BY <1>0
<1>2. Len(p) <= Len(w) /\ \A i \in 1..Len(p) : p[i] = w[i]
    BY <1>1, PrefixIs
<1>3. Len(p) # Len(w) /\ Len(p) # 0
    BY <1>1, <1>2, SeqEqual
<1>4. Len(p) \in 1..Len(w) /\ Len(p) \in 1..(Len(w) - 1)
    BY <1>1, <1>2, <1>3
<1>5. SubSeq(w, 1, Len(p)) = p
  <2>1. /\ SubSeq(w, 1, Len(p)) \in Seq(STRING) /\ Len(SubSeq(w, 1, Len(p))) = Len(p)
        /\ \A i \in 1..Len(p) : SubSeq(w, 1, Len(p))[i] = w[i]
      BY <1>1, <1>4, FirstOf
  <2> QED BY <1>1, <1>2, <2>1, SeqEqual
<1>6. p \in Branches
  <2>1. SubSeq(w, 1, Len(p)) \in Branches
      BY <1>4, PlacesAre, Zenon
  <2> QED BY <1>5, <2>1
<1>7. Len(w) # 1
    BY <1>1, <1>4, SMTT(30)
<1> QED BY <1>6, <1>7 DEF Above

\* What is asked for does not change on the way.
LEMMA SameWishes ==
    ASSUME UNCHANGED <<option, mark>>
    PROVE  \A p \in Places : (Wanted(p)' <=> Wanted(p)) /\ (Passes(p)' <=> Passes(p)) /\ (Shows(p)' <=> Shows(p))
BY DEF Wanted, Passes, Shows, Above

\* A folder's own, once it is opened: there, below it, after it in the walk.
LEMMA ChildThere ==
    ASSUME WalkAssumption, WalkInv, NEW w \in there, NEW p \in Places \cup {<<>>}, IsPrefix(p, w), p # w
    PROVE  \E c \in Children(p) : IsPrefix(c, w)
<1>1. w \in Places
    BY DEF WalkInv
<1>2. PICK c \in Places : Len(c) = Len(p) + 1 /\ IsPrefix(p, c) /\ IsPrefix(c, w)
    BY <1>1, ChildBetween
<1>3. c \in there
    BY <1>2 DEF WalkInv
<1> QED BY <1>2, <1>3 DEF Children

LEMMA ChildrenAre ==
    ASSUME WalkAssumption, WalkInv, NEW p \in Places, NEW c \in Children(p)
    PROVE  c \in Places /\ c # <<>> /\ Rank[p] \in Nat /\ Rank[c] \in Nat /\ Rank[p] < Rank[c]
<1>1. c \in Places /\ Len(c) = Len(p) + 1 /\ IsPrefix(p, c)
    BY DEF Children, WalkInv
<1>2. c # p /\ c # <<>>
  <2>1. p \in Seq(STRING) /\ Len(p) \in Nat
      BY PlacesAre, LenProperties
  <2>2. c # p
      BY <1>1, <2>1
  <2> QED BY <1>1, <2>2, PlacesAre
<1>3. Rank[p] <= Rank[c] /\ Rank[p] # Rank[c] /\ Rank[p] \in Nat /\ Rank[c] \in Nat
    BY <1>1, <1>2, PlacesAre
<1> QED BY <1>1, <1>2, <1>3

\* Entries that may be to come.
Comings == [place : Places \cup {<<>>}, ok : BOOLEAN]
LEMMA EntriesAre ==
    /\ \A C : (\A c \in C : c \in Places /\ c # <<>>)
          => \A u \in Read(C) : u \in Comings /\ u.ok /\ u.place \in C /\ u.place # <<>>
    /\ \A p \in Places \cup {<<>>} : \A u \in Unread(p) : u \in Comings /\ ~u.ok /\ u.place = p
<1>1. ASSUME NEW C, \A c \in C : c \in Places /\ c # <<>>, NEW u \in Read(C)
      PROVE  u \in Comings /\ u.ok /\ u.place \in C /\ u.place # <<>>
  <2>1. PICK c \in C : u = [place |-> c, ok |-> TRUE]
      BY <1>1 DEF Read
  <2>2. u.ok = TRUE /\ u.place = c
      BY <2>1
  <2>3. u \in Comings
      BY <1>1, <2>1 DEF Comings
  <2> QED BY <1>1, <2>2, <2>3
<1>2. ASSUME NEW p \in Places \cup {<<>>}, NEW u \in Unread(p)
      PROVE  u \in Comings /\ ~u.ok /\ u.place = p
  <2>1. u = [place |-> p, ok |-> FALSE]
      BY <1>2 DEF Unread
  <2>2. u.ok = FALSE /\ u.place = p
      BY <2>1
  <2>3. u \in Comings
      BY <2>1 DEF Comings
  <2> QED BY <2>2, <2>3
<1> QED BY <1>1, <1>2

LEMMA WalkStarts == WalkAssumption /\ WalkInit => WalkInv
<1> SUFFICES ASSUME WalkAssumption, WalkInit PROVE WalkInv
    OBVIOUS
<1>1. entries \in Seq(Places) /\ DOMAIN entries = {}
    BY DEF WalkInit
<1> QED BY <1>1 DEF WalkInit, WalkInv, OnlyAsked, InOrder

\* The folder is opened: what it holds is to come to, or nothing is done.
LEMMA OpensKeeps ==
    ASSUME WalkAssumption, WalkInv, Opens
    PROVE  WalkInv'
<1>1. /\ outcome = "asked" /\ entries = <<>> /\ UNCHANGED <<option, mark, there, entries, problems>>
      /\ outcome' \in {"failed", "walking"}
    BY DEF Opens, Still, WalkInv
<1>2. /\ outcome' = "failed" => todo' = {}
      /\ outcome' = "walking" => todo' = Read(Children(<<>>)) \/ todo' = Unread(<<>>)
    BY DEF Opens
<1>3. \A c \in Children(<<>>) : c \in Places /\ c # <<>>
    BY PlacesAre DEF Children, WalkInv
<1>4. todo' \subseteq [place : Places \cup {<<>>}, ok : BOOLEAN] /\ \A t \in todo' : t.ok => t.place # <<>>
  <2>1. \A u \in Read(Children(<<>>)) : u \in Comings /\ u.ok /\ u.place # <<>>
      BY <1>3, EntriesAre
  <2>2. \A u \in Unread(<<>>) : u \in Comings /\ ~u.ok
      BY EntriesAre
  <2> QED BY <1>1, <1>2, <2>1, <2>2 DEF Comings
<1>5. ASSUME outcome' = "walking", NEW p \in there PROVE ToCome(p)'
  <2>1. p \in Places /\ p # <<>> /\ IsPrefix(<<>>, p)
      BY PlacesAre, PrefixOrder DEF WalkInv
  <2>2. CASE todo' = Unread(<<>>)
      BY <2>1, <2>2 DEF ToCome, Unread
  <2>3. CASE todo' = Read(Children(<<>>))
    <3>1. PICK c \in Children(<<>>) : IsPrefix(c, p)
        BY <2>1, ChildThere
    <3>2. [place |-> c, ok |-> TRUE] \in todo'
        BY <2>3 DEF Read
    <3> QED BY <3>1, <3>2 DEF ToCome
  <2> QED BY <1>2, <1>5, <2>2, <2>3
<1>6. DOMAIN entries' = {} /\ entries' \in Seq(Places)
  <2>1. entries' = <<>>
      BY <1>1
  <2> QED BY <2>1
<1>7. OnlyAsked' /\ InOrder'
    BY <1>6 DEF OnlyAsked, InOrder
<1> QED BY <1>1, <1>2, <1>4, <1>5, <1>6, <1>7 DEF WalkInv

\* A file or a folder vanishes: whoever is left had the same folders above.
LEMMA VanishesKeeps ==
    ASSUME WalkAssumption, WalkInv, Vanishes
    PROVE  WalkInv'
<1>1. UNCHANGED <<option, mark, todo, entries, problems, outcome>>
    BY DEF Vanishes
<1>2. PICK x \in there : there' = {q \in there : ~IsPrefix(x, q)}
    BY DEF Vanishes
<1>3. ASSUME NEW p \in there', NEW q \in Places, IsPrefix(q, p) PROVE q \in there'
  <2>1. q \in there
      BY <1>2, <1>3 DEF WalkInv
  <2>2. x \in Seq(STRING) /\ q \in Seq(STRING) /\ p \in Seq(STRING)
      BY <1>2, PlacesAre DEF WalkInv
  <2>3. ~IsPrefix(x, q)
      BY <1>2, <1>3, <2>2, PrefixOrder
  <2> QED BY <1>2, <2>1, <2>3
<1>4. OnlyAsked' /\ InOrder'
    BY <1>1, SameWishes DEF OnlyAsked, InOrder, WalkInv
<1>5. \A p \in there : (Wanted(p)' <=> Wanted(p)) /\ (Told(p)' <=> Told(p)) /\ (ToCome(p)' <=> ToCome(p))
    BY <1>1, SameWishes DEF Told, ToCome, WalkInv
<1> QED BY <1>1, <1>2, <1>3, <1>4, <1>5 DEF WalkInv

\* What has been listed stays, and comes before all there is still to come to.
LEMMA ListedStays ==
    ASSUME WalkAssumption, WalkInv, UNCHANGED <<option, mark, there>>,
           NEW t \in todo, IsNext(t), t.ok,
           \/ entries' = entries
           \/ Passes(t.place) /\ Shows(t.place) /\ entries' = Append(entries, t.place),
           todo' \subseteq (todo \ {t}) \cup Unread(t.place) \cup Read(Children(t.place))
    PROVE  /\ entries' \in Seq(Places) /\ OnlyAsked' /\ InOrder'
           /\ \A i \in DOMAIN entries', u \in todo' : u.ok => Rank[entries'[i]] < Rank[u.place]
           /\ todo' \subseteq [place : Places \cup {<<>>}, ok : BOOLEAN]
           /\ \A u \in todo' : u.ok => u.place # <<>>
<1> DEFINE p == t.place
<1>1. p \in Places /\ p # <<>>
    BY DEF WalkInv
<1>2. \A c \in Children(p) : c \in Places /\ c # <<>> /\ Rank[p] \in Nat /\ Rank[c] \in Nat /\ Rank[p] < Rank[c]
    BY <1>1, ChildrenAre
<1>3. /\ todo' \subseteq [place : Places \cup {<<>>}, ok : BOOLEAN]
      /\ \A u \in todo' : u.ok => u.place # <<>>
  <2>1. \A u \in todo : u \in Comings /\ (u.ok => u.place # <<>>)
      BY DEF WalkInv, Comings
  <2>2. \A u \in Read(Children(p)) : u \in Comings /\ u.ok /\ u.place # <<>>
      BY <1>2, EntriesAre
  <2>3. \A u \in Unread(p) : u \in Comings /\ ~u.ok
      BY <1>1, EntriesAre
  <2>4. \A u \in todo' : u \in Comings /\ (u.ok => u.place # <<>>)
      BY <2>1, <2>2, <2>3
  <2> QED BY <2>4 DEF Comings
<1>4. \A u \in todo' : u.ok => u.place \in Places /\ Rank[p] < Rank[u.place]
  <2>1. \A u \in todo \ {t} : Rank[p] < Rank[u.place]
      BY DEF IsNext
  <2>2. \A u \in Read(Children(p)) : u.place \in Children(p)
      BY <1>2, EntriesAre
  <2>3. \A u \in Unread(p) : ~u.ok
      BY <1>1, EntriesAre
  <2>4. \A u \in todo' : u.ok => u.place \in Places
      BY <1>3
  <2> QED BY <1>2, <2>1, <2>2, <2>3, <2>4
<1>5. \A i \in DOMAIN entries : entries[i] \in Places /\ Rank[entries[i]] < Rank[p]
    BY DEF WalkInv
<1>6. \A q \in Places : Rank[q] \in Nat
    BY PlacesAre
<1>7. \A i \in DOMAIN entries, u \in todo' : u.ok => Rank[entries[i]] < Rank[u.place]
    BY <1>1, <1>4, <1>5, <1>6
<1>8. \A q \in Places : (Passes(q)' <=> Passes(q)) /\ (Shows(q)' <=> Shows(q))
    BY SameWishes
<1>9. CASE entries' = entries
  <2>1. entries' \in Seq(Places)
      BY <1>9 DEF WalkInv
  <2>2. OnlyAsked' /\ InOrder'
      BY <1>5, <1>8, <1>9 DEF OnlyAsked, InOrder, WalkInv
  <2> QED BY <1>3, <1>7, <1>9, <2>1, <2>2
<1>10. CASE Passes(p) /\ Shows(p) /\ entries' = Append(entries, p)
  <2>1. /\ entries' \in Seq(Places) /\ Len(entries) \in Nat /\ DOMAIN entries = 1..Len(entries)
        /\ DOMAIN entries' = 1..(Len(entries) + 1)
        /\ entries'[Len(entries) + 1] = p /\ \A i \in DOMAIN entries : entries'[i] = entries[i]
      BY <1>1, <1>10 DEF WalkInv
  <2>2. \A i \in DOMAIN entries' : i \in DOMAIN entries \/ i = Len(entries) + 1
      BY <2>1
  <2>3. OnlyAsked'
      BY <1>1, <1>5, <1>8, <1>10, <2>1, <2>2 DEF OnlyAsked, WalkInv
  <2>4. InOrder'
    <3> SUFFICES ASSUME NEW i \in DOMAIN entries', NEW j \in DOMAIN entries', i < j
                 PROVE  Rank[entries'[i]] < Rank[entries'[j]]
        BY PlacesAre DEF InOrder
    <3>1. i \in DOMAIN entries
        BY <2>1, <2>2
    <3>2. CASE j \in DOMAIN entries
        BY <2>1, <3>1, <3>2 DEF InOrder, WalkInv
    <3>3. CASE j = Len(entries) + 1
        BY <1>5, <2>1, <3>1, <3>3
    <3> QED BY <2>2, <3>2, <3>3
  <2>5. \A i \in DOMAIN entries', u \in todo' : u.ok => Rank[entries'[i]] < Rank[u.place]
      BY <1>4, <1>7, <2>1, <2>2
  <2> QED BY <1>3, <2>1, <2>3, <2>4, <2>5
<1> QED BY <1>9, <1>10

\* The walk comes to an entry: what was handed to it is listed, named, or handed on.
LEMMA EntryKeeps ==
    ASSUME WalkAssumption, WalkInv, outcome = "walking", UNCHANGED <<option, mark, there, outcome>>,
           NEW t \in todo, IsNext(t), ComesToEntry(t)
    PROVE  WalkInv'
<1> DEFINE p == t.place
<1>1. PICK shut \in BOOLEAN, blind \in BOOLEAN :
         /\ t.ok /\ (shut => IsDir(p) /\ Depth(p))
         /\ todo' = (todo \ {t}) \cup (IF (blind \/ p \notin there) \/ Enters(p) THEN Opened(p, shut) ELSE {})
         /\ CASE ~((blind \/ p \notin there) \/ Enters(p)) \/ ~Passes(p) -> UNCHANGED <<entries, problems>>
              [] ((blind \/ p \notin there) \/ Enters(p)) /\ Passes(p) /\ (blind \/ p \notin there) ->
                     Reported(p) /\ UNCHANGED entries
              [] OTHER -> /\ entries' = IF Shows(p) THEN Append(entries, p) ELSE entries
                          /\ UNCHANGED problems
    BY DEF ComesToEntry
<1> DEFINE unknown == blind \/ p \notin there
           entered == unknown \/ Enters(p)
<1>2. p \in Places /\ p # <<>> /\ p \in Seq(STRING)
    BY <1>1, PlacesAre DEF WalkInv
<1>3. /\ ~entered \/ ~Passes(p) => UNCHANGED <<entries, problems>>
      /\ entered /\ Passes(p) /\ unknown => problems' = problems \cup {p} /\ UNCHANGED entries
      /\ entered /\ Passes(p) /\ ~unknown => /\ entries' = IF Shows(p) THEN Append(entries, p) ELSE entries
                                             /\ UNCHANGED problems
    BY <1>1 DEF Reported
<1>4. Opened(p, shut) \subseteq Unread(p) \cup Read(Children(p))
    BY DEF Opened
<1>5. todo' \subseteq (todo \ {t}) \cup Unread(p) \cup Read(Children(p)) /\ t \in todo
    BY <1>1, <1>4
<1>6. entries' = entries \/ (Passes(p) /\ Shows(p) /\ entries' = Append(entries, p))
    BY <1>3
<1>7. /\ entries' \in Seq(Places) /\ OnlyAsked' /\ InOrder'
      /\ \A i \in DOMAIN entries', u \in todo' : u.ok => Rank[entries'[i]] < Rank[u.place]
      /\ todo' \subseteq [place : Places \cup {<<>>}, ok : BOOLEAN]
      /\ \A u \in todo' : u.ok => u.place # <<>>
    BY <1>1, <1>5, <1>6, ListedStays
<1>8. problems \subseteq problems' /\ ToSet(entries) \subseteq ToSet(entries')
  <2>1. problems \subseteq problems'
      BY <1>3
  <2>2. CASE entries' = entries
      BY <2>1, <2>2
  <2>3. CASE entries' = Append(entries, p)
    <3>1. entries \in Seq(Places)
        BY DEF WalkInv
    <3>2. \A i \in DOMAIN entries : i \in DOMAIN entries' /\ entries'[i] = entries[i]
        BY <1>2, <2>3, <3>1
    <3> QED BY <2>1, <3>2 DEF ToSet
  <2> QED BY <1>6, <2>1, <2>2, <2>3
<1>9. ASSUME NEW w \in there, Wanted(w), IsPrefix(p, w)
      PROVE  w \in ToSet(entries') \/ Told(w)' \/ ToCome(w)'
  <2>1. w \in Places
      BY DEF WalkInv
  <2>2. CASE w = p
    <3>1. Passes(p) /\ Shows(p) /\ Enters(p)
        BY <1>9, <2>2 DEF Wanted, Shows, Enters
    <3>2. CASE unknown
      <4>1. p \in problems'
          BY <1>3, <3>1, <3>2
      <4> QED BY <1>9, <2>2, <4>1 DEF Told
    <3>3. CASE ~unknown
      <4>1. entries' = Append(entries, p) /\ entries \in Seq(Places)
          BY <1>3, <3>1, <3>3 DEF WalkInv
      <4>2. Len(entries) + 1 \in DOMAIN entries' /\ entries'[Len(entries) + 1] = p
          BY <1>2, <4>1
      <4> QED BY <2>2, <4>2 DEF ToSet
    <3> QED BY <3>2, <3>3
  <2>3. CASE w # p
    <3>1. p \in Branches /\ p \in Above(w) /\ Len(w) # 1
        BY <1>2, <1>9, <2>1, <2>3, AboveIsFolder
    <3>2. Enters(p) /\ IsDir(p) /\ Depth(p)
      <4>1. Shows(p)
          BY <1>9, <3>1, Zenon DEF Wanted
      <4>2. Len(w) # 1
          BY <3>1
      <4>3. option.subfolders
          BY <1>9, <4>2, Zenon DEF Wanted
      <4>4. Enters(p)
          BY <4>1 DEF Shows, Enters
      <4>5. IsDir(p)
          BY <3>1 DEF IsDir
      <4>6. Depth(p)
          BY <4>3, Zenon DEF Depth
      <4> QED BY <4>4, <4>5, <4>6
    <3>3. Opened(p, shut) \subseteq todo'
        BY <1>1, <3>2
    <3>4. CASE shut \/ p \notin there
      <4>1. [place |-> p, ok |-> FALSE] \in todo'
          BY <3>2, <3>3, <3>4 DEF Opened, Unread
      <4> QED BY <1>9, <4>1 DEF ToCome
    <3>5. CASE ~(shut \/ p \notin there)
      <4>1. PICK c \in Children(p) : IsPrefix(c, w)
          BY <1>2, <1>9, <2>3, ChildThere
      <4>2. [place |-> c, ok |-> TRUE] \in todo'
          BY <3>2, <3>3, <3>5, <4>1 DEF Opened, Read
      <4> QED BY <4>1, <4>2 DEF ToCome
    <3> QED BY <3>4, <3>5
  <2> QED BY <2>2, <2>3
<1>10. ASSUME NEW w \in there, Wanted(w) PROVE w \in ToSet(entries') \/ Told(w)' \/ ToCome(w)'
  <2>1. w \in ToSet(entries) \/ Told(w) \/ ToCome(w)
      BY <1>10 DEF WalkInv
  <2>2. CASE w \in ToSet(entries) \/ Told(w)
      BY <1>8, <2>2 DEF Told
  <2>3. CASE ToCome(w)
    <3>1. PICK u \in todo : IsPrefix(u.place, w)
        BY <2>3 DEF ToCome
    <3>2. CASE u = t
        BY <1>9, <1>10, <3>1, <3>2
    <3>3. CASE u # t
        BY <1>1, <3>1, <3>3 DEF ToCome
    <3> QED BY <3>2, <3>3
  <2> QED BY <2>1, <2>2, <2>3
<1>11. \A w \in there' : w \in there /\ (Wanted(w)' <=> Wanted(w))
    BY SameWishes DEF WalkInv
<1> HIDE DEF p
<1> QED BY <1>7, <1>10, <1>11 DEF WalkInv

\* It comes to what could not be read, and says so.
LEMMA ProblemKeeps ==
    ASSUME WalkAssumption, WalkInv, outcome = "walking", UNCHANGED <<option, mark, there, outcome>>,
           NEW t \in todo, ComesToProblem(t)
    PROVE  WalkInv'
<1>1. /\ problems' = problems \cup {t.place} /\ todo' = todo \ {t} /\ UNCHANGED entries
    BY DEF ComesToProblem, Reported
<1>2. OnlyAsked' /\ InOrder'
    BY <1>1, SameWishes DEF OnlyAsked, InOrder, WalkInv
<1>3. \A w \in there : (Wanted(w)' <=> Wanted(w)) /\ (Told(w) \/ ToCome(w) => Told(w)' \/ ToCome(w)')
    BY <1>1, SameWishes DEF Told, ToCome, WalkInv
<1> QED BY <1>1, <1>2, <1>3 DEF WalkInv

LEMMA WalkSteps == WalkAssumption /\ WalkInv /\ [WalkNext]_walkVars => WalkInv'
<1> SUFFICES ASSUME WalkAssumption, WalkInv, [WalkNext]_walkVars PROVE WalkInv'
    OBVIOUS
<1>1. CASE Opens
    BY <1>1, OpensKeeps
<1>2. CASE WalkStep
  <2>1. PICK t \in todo : IsNext(t) /\ (ComesToProblem(t) \/ ComesToEntry(t))
      BY <1>2 DEF WalkStep
  <2>2. outcome = "walking" /\ UNCHANGED <<option, mark, there, outcome>>
      BY <1>2 DEF WalkStep, Still
  <2> QED BY <2>1, <2>2, ProblemKeeps, EntryKeeps
<1>3. CASE WalkEnds
  <2>1. /\ outcome = "walking" /\ outcome' = "done" /\ todo = {}
        /\ UNCHANGED <<option, mark, there, todo, entries, problems>>
      BY <1>3 DEF WalkEnds, Still
  <2>2. OnlyAsked' /\ InOrder'
      BY <2>1, SameWishes DEF OnlyAsked, InOrder, WalkInv
  <2>3. \A w \in there : (Wanted(w)' <=> Wanted(w)) /\ (Told(w)' <=> Told(w)) /\ (ToCome(w)' <=> ToCome(w))
      BY <2>1, SameWishes DEF Told, ToCome, WalkInv
  <2> QED BY <2>1, <2>2, <2>3 DEF WalkInv
<1>4. CASE Abandoned
  <2>1. outcome' = "abandoned" /\ entries' = <<>> /\ UNCHANGED <<option, mark, there, todo>>
      BY <1>4 DEF Abandoned, Still
  <2>2. DOMAIN entries' = {} /\ entries' \in Seq(Places)
      BY <2>1
  <2>3. OnlyAsked' /\ InOrder'
      BY <2>2 DEF OnlyAsked, InOrder
  <2> QED BY <2>1, <2>2, <2>3 DEF WalkInv
<1>5. CASE Vanishes
    BY <1>5, VanishesKeeps
<1>6. CASE UNCHANGED walkVars
  <2>1. UNCHANGED <<option, mark, there, todo, entries, problems, outcome>>
      BY <1>6 DEF walkVars
  <2>2. OnlyAsked' /\ InOrder'
      BY <2>1, SameWishes DEF OnlyAsked, InOrder, WalkInv
  <2>3. \A w \in there : (Wanted(w)' <=> Wanted(w)) /\ (Told(w)' <=> Told(w)) /\ (ToCome(w)' <=> ToCome(w))
      BY <2>1, SameWishes DEF Told, ToCome, WalkInv
  <2> QED BY <2>1, <2>2, <2>3 DEF WalkInv
<1> QED BY <1>1, <1>2, <1>3, <1>4, <1>5, <1>6 DEF WalkNext

\* Where each file asked for is, at every step of every walk.
THEOREM WalkInductive == ASSUME WalkAssumption PROVE WalkSpec => []WalkInv
<1>1. WalkInit => WalkInv
    BY WalkStarts
<1>2. WalkInv /\ [WalkNext]_walkVars => WalkInv'
    BY WalkSteps
<1> QED BY <1>1, <1>2, PTL DEF WalkSpec

\* For any folder, options and marks, and any number of failures: what a finished walk
\* lists is what was asked for, in order, and what it leaves out of that it names.
THEOREM NothingGoesMissingHolds == ASSUME WalkAssumption PROVE WalkSpec => []NothingGoesMissing
<1>1. WalkInv => NothingGoesMissing
    BY DEF WalkInv, NothingGoesMissing, Complete, ToCome
<1> QED BY WalkInductive, <1>1, PTL

(***************************************************************************)
(* The preset folder keeps what it was told to.  Two presets may share a   *)
(* work while a rename is half done, and the new file may have taken the   *)
(* place of nothing else: so the invariant speaks of the call at work      *)
(* too, of what its next steps replace and leave.                          *)
(***************************************************************************)

\* Numbers have a least.
LEMMA Least ==
    ASSUME NEW T \in SUBSET Nat, T # {}
    PROVE  \E m \in T : \A k \in T : m <= k
<1> DEFINE R == OpToRel(<, Nat)
<1>1. IsWellFoundedOn(R, Nat)
    BY NatLessThanWellFounded
<1>2. \A x, y \in Nat : <<x, y>> \in R <=> x < y
    BY DEF OpToRel
<1> HIDE DEF R
<1>3. PICK m \in T : \A k \in T : ~(<<k, m>> \in R)
    BY <1>1, WFMin, Zenon
<1>4. m \in Nat /\ \A k \in T : k \in Nat
    OBVIOUS
<1>5. \A k \in T : ~(k < m)
    BY <1>2, <1>3, <1>4, Zenon
<1>6. \A k \in T : m <= k
    BY <1>4, <1>5
<1> QED BY <1>6

WorksOf(fs) == {fs[f].work : f \in DOMAIN fs}
OneSpelling(fs) == \A f, g \in DOMAIN fs : f.key = g.key => f = g
\* What does not depend on the call at work.
FolderInv ==
    /\ calls \in Nat /\ gone \subseteq Int /\ \A work \in gone : work <= calls
    /\ None \notin DOMAIN files /\ \A f \in DOMAIN files : IsPreset(files[f])
    /\ folds => OneSpelling(files)
    /\ owed \subseteq WorksOf(files) /\ gone \cap WorksOf(files) = {}
Unmade == DOMAIN files = {} /\ up = {} /\ at = None /\ gone = {} /\ owed = {}

LEMMA PresetInvIs ==
    PresetInv <=> FolderInv /\ (~made => Unmade) /\ (at # None => CallIsSafe)
BY Zenon DEF PresetInv, FolderInv, Unmade, OneSpelling, FolderIsAsTold, WorksOf

LEMMA PresetInvIsNext ==
    ASSUME FolderInv', ~made' => Unmade', at' # None => CallIsSafe'
    PROVE  PresetInv'
BY Zenon DEF PresetInv, FolderInv, Unmade, OneSpelling, FolderIsAsTold, WorksOf

\* A free path has a name of its own.
LEMMA FreeIs ==
    ASSUME PresetsAssumption, NEW n, NEW source, FreePath(n, source) # None
    PROVE  \A f \in DOMAIN files \ {source} : f.key # FreePath(n, source).key
<1> DEFINE taken == {f.key : f \in DOMAIN files \ {source}}
           free == {i \in DOMAIN Endings : Candidate(n, i).key \notin taken}
           least == CHOOSE i \in free : \A j \in free : i <= j
<1>1. FreePath(n, source) = FirstFree(n, free)
    BY Zenon DEF FreePath
<1>2. free # {} /\ FreePath(n, source) = Candidate(n, least)
    BY <1>1, Zenon DEF FirstFree
<1>3. free \in SUBSET Nat
    BY DEF PresetsAssumption
<1>4. \E i \in free : \A j \in free : i <= j
    BY <1>2, <1>3, Least, Zenon
<1>5. least \in free
    BY <1>4
<1>6. Candidate(n, least).key \notin taken
    BY <1>5
<1> HIDE DEF least, free
<1> QED BY <1>2, <1>6

\* Taken ignoring case is taken on either volume.
LEMMA NewIsNew ==
    ASSUME NEW f, \A h \in DOMAIN files : h.key # f.key
    PROVE  f \notin DOMAIN files /\ \A h \in DOMAIN files : ~SameFile(h, f)
BY DEF SameFile

LEMMA PutIs ==
    ASSUME NEW f, NEW p
    PROVE  /\ DOMAIN Put(f, p) = {h \in DOMAIN files : ~SameFile(h, f)} \cup {f}
           /\ Put(f, p)[f] = p
           /\ \A h \in DOMAIN Put(f, p) : h # f => h \in DOMAIN files /\ ~SameFile(h, f) /\ Put(f, p)[h] = files[h]
BY DEF Put

LEMMA InitKeeps ==
    ASSUME PresetsAssumption, PresetInit
    PROVE  PresetInv
<1>1. calls = 2 /\ gone = {} /\ owed = WorksOf(files) /\ at = None /\ up = {}
    BY Zenon DEF PresetInit, WorksOf
<1>2. \/ files = << >>
      \/ made /\ \E n \in Names :
            \E its \in {{FileStem(n)}, {FileStem(n), Candidate(n, 2)}} :
                files = [f \in its |-> LET k == IF f = FileStem(n) THEN 1 ELSE 2
                                         IN  [name |-> n, about |-> k, work |-> k]]
    BY Zenon DEF PresetInit
<1>3. CASE files = << >>
  <2>1. DOMAIN files = {}
      BY <1>3
  <2>2. WorksOf(files) = {}
      BY <2>1 DEF WorksOf
  <2>3. FolderInv
      BY <1>1, <2>1, <2>2 DEF FolderInv, OneSpelling
  <2> QED BY <1>1, <2>1, <2>2, <2>3, PresetInvIs DEF Unmade
<1>4. CASE files # << >>
  <2>1. PICK n \in Names : \E its \in {{FileStem(n)}, {FileStem(n), Candidate(n, 2)}} :
              files = [f \in its |-> LET k == IF f = FileStem(n) THEN 1 ELSE 2
                                       IN  [name |-> n, about |-> k, work |-> k]]
      BY <1>2, <1>4, Zenon
  <2>2. PICK its \in {{FileStem(n)}, {FileStem(n), Candidate(n, 2)}} :
              files = [f \in its |-> LET k == IF f = FileStem(n) THEN 1 ELSE 2
                                       IN  [name |-> n, about |-> k, work |-> k]]
      BY <2>1, Zenon
  <2> DEFINE f == FileStem(n)
             g == Candidate(n, 2)
  <2>3. f # None /\ g # None /\ f.key # g.key
      BY DEF PresetsAssumption
  <2>4. DOMAIN files = its /\ its \subseteq {f, g} /\ \A h \in its : "work" \in DOMAIN files[h] /\ files[h].work = IF h = f THEN 1 ELSE 2
      BY <2>2
  <2> HIDE DEF f, g
  <2>5. FolderInv
      BY <1>1, <2>3, <2>4 DEF FolderInv, OneSpelling, IsPreset
  <2> QED BY <1>1, <1>2, <1>4, <2>5, PresetInvIs
<1> QED BY <1>3, <1>4

LEMMA ThreeSteps ==
    ASSUME NEW a, NEW b, NEW c
    PROVE  <<a, b>> \o <<c>> = <<a, b, c>>
<1> DEFINE S == {a, b, c}
           one == <<a, b>> \o <<c>>
           other == <<a, b, c>>
<1>1. <<a, b>> \in Seq(S) /\ <<c>> \in Seq(S) /\ other \in Seq(S) /\ Len(other) = 3
      /\ other[1] = a /\ other[2] = b /\ other[3] = c
    OBVIOUS
<1>2. one \in Seq(S) /\ Len(one) = 3 /\ one[1] = a /\ one[2] = b /\ one[3] = c
    BY <1>1, ConcatProperties
<1>3. \A i \in 1..3 : one[i] = other[i]
    BY <1>1, <1>2
<1> HIDE DEF one, other
<1>4. one = other
    BY <1>1, <1>2, <1>3, SeqEqual
<1> QED BY <1>4 DEF one, other

\* A call that starts with a save of p under f, and may have one step after it.
LEMMA SaveBegins ==
    ASSUME PresetsAssumption, PresetInv, NEW w \in Windows, NEW f, NEW p, NEW rest, NEW gives,
           Begins(w, SaveAs(f, p) \o rest, gives),
           rest = <<>> \/ \E last : rest = <<last>> /\ LastIsSafe(f, p, last),
           f # None, "work" \in DOMAIN p, p.work \in Int, p.work <= calls + 1, p.work \notin gone,
           \A h \in DOMAIN files : SameFile(h, f) => files[h].work \in gives \cup {p.work}
    PROVE  PresetInv'
<1> DEFINE steps == SaveAs(f, p) \o rest
<1>1. FolderInv /\ (~made => Unmade)
    BY PresetInvIs, Zenon
<1>2. /\ calls' = calls + 1 /\ at' = [who |-> w, todo |-> steps, gives |-> gives] /\ w \in up
      /\ UNCHANGED <<folds, made, files, up, owed, gone>>
    BY DEF Begins
<1>3. made
    BY <1>1, <1>2 DEF Unmade
<1>4. at'.todo = steps /\ at'.gives = gives
    BY <1>2
<1>5. /\ steps[1] = Does("temp", f, p) /\ steps[2] = Does("swap", f, p)
      /\ \/ Len(steps) = 2
         \/ Len(steps) = 3 /\ LastIsSafe(f, p, steps[3])
      /\ steps \in Seq({steps[i] : i \in DOMAIN steps})
  <2>1. CASE rest = <<>>
    <3>1. steps = <<Does("temp", f, p), Does("swap", f, p)>>
        BY <2>1 DEF SaveAs
    <3> HIDE DEF steps
    <3> QED BY <3>1
  <2>2. CASE \E last : rest = <<last>> /\ LastIsSafe(f, p, last)
    <3>1. PICK last : rest = <<last>> /\ LastIsSafe(f, p, last)
        BY <2>2
    <3>2. steps = <<Does("temp", f, p), Does("swap", f, p), last>>
        BY <3>1, ThreeSteps DEF SaveAs
    <3> HIDE DEF steps
    <3>3. steps[1] = Does("temp", f, p) /\ steps[2] = Does("swap", f, p) /\ steps[3] = last /\ Len(steps) = 3
        BY <3>2
    <3>4. steps \in Seq({steps[i] : i \in DOMAIN steps})
        BY <3>2
    <3> QED BY <3>1, <3>3, <3>4
  <2> QED BY <2>1, <2>2
<1> HIDE DEF steps
<1>6. /\ steps[1].do = "temp" /\ steps[2].do = "swap" /\ steps[2].file = f /\ steps[2].held = p
    BY <1>5 DEF Does
<1>7. SwapIsSafe(f, p)'
    BY <1>2, <1>4 DEF SwapIsSafe, SameFile, IsPreset
<1>8. Len(steps) = 3 => LastIsSafe(f, p, steps[3])'
    BY <1>2, <1>5 DEF LastIsSafe, SameFile
<1>9. SaveAhead(2)'
    BY <1>4, <1>5, <1>6, <1>7, <1>8 DEF SaveAhead
<1>10. CallIsSafe'
  <2>1. "todo" \in DOMAIN at' /\ IsSequence(at'.todo)
      BY <1>2, <1>4, <1>5 DEF IsSequence
  <2>2. TempAhead'
      BY <1>4, <1>6, <1>9 DEF TempAhead
  <2> QED BY <1>9, <2>1, <2>2, Zenon DEF CallIsSafe
<1>11. FolderInv'
    BY <1>1, <1>2 DEF FolderInv, OneSpelling, WorksOf, IsPreset
<1> QED BY <1>2, <1>3, <1>10, <1>11, PresetInvIsNext

LEMMA EmptyRest ==
    ASSUME NEW f, NEW p
    PROVE  SaveAs(f, p) \o <<>> = SaveAs(f, p)
BY DEF SaveAs

LEMMA WorkIsFresh ==
    ASSUME PresetInv
    PROVE  calls + 1 \in Int /\ calls + 1 \notin gone /\ calls \in Nat
<1>1. FolderInv
    BY PresetInvIs, Zenon
<1> QED BY <1>1 DEF FolderInv

LEMMA SaveKeeps ==
    ASSUME PresetsAssumption, PresetInv, NEW w \in Windows, Save(w)
    PROVE  PresetInv'
<1>1. FolderInv
    BY PresetInvIs, Zenon
<1>2. PICK n \in Names, l \in ListingsOf(w) :
        /\ PathFor(n) # None
        /\ Begins(w, SaveAs(PathFor(n), [name |-> n, about |-> Description(l, n), work |-> calls + 1]),
                  IF PathFor(n) \in DOMAIN files THEN {files[PathFor(n)].work} ELSE {})
    BY Zenon DEF Save
<1> DEFINE f == PathFor(n)
           p == [name |-> n, about |-> Description(l, n), work |-> calls + 1]
           gives == IF f \in DOMAIN files THEN {files[f].work} ELSE {}
           its == {g \in DOMAIN files : g.key = FileStem(n).key /\ SameName(files[g].name, n)}
<1>3. \A h \in DOMAIN files : SameFile(h, f) => files[h].work \in gives
  <2>1. CASE its = {}
    <3>1. f = FreePath(n, None)
        BY <2>1, Zenon DEF PathFor
    <3>2. \A h \in DOMAIN files \ {None} : h.key # f.key
        BY <1>2, <3>1, FreeIs
    <3>3. None \notin DOMAIN files
        BY <1>1 DEF FolderInv
    <3> HIDE DEF f
    <3>4. \A h \in DOMAIN files : ~SameFile(h, f)
        BY <3>2, <3>3, NewIsNew
    <3> QED BY <3>4
  <2>2. CASE its # {}
    <3>1. f = CHOOSE g \in its : TRUE
        BY <2>2, Zenon DEF PathFor
    <3>2. f \in its
        BY <2>2, <3>1
    <3> HIDE DEF f
    <3>3. f \in DOMAIN files
        BY <3>2
    <3>4. \A h \in DOMAIN files : SameFile(h, f) => h = f
        BY <1>1, <3>3 DEF FolderInv, OneSpelling, SameFile
    <3> QED BY <3>3, <3>4
  <2> QED BY <2>1, <2>2
<1>4. "work" \in DOMAIN p /\ p.work = calls + 1
    OBVIOUS
<1> HIDE DEF f, p, gives
<1>5. Begins(w, SaveAs(f, p) \o <<>>, gives)
    BY <1>2, EmptyRest DEF f, p, gives
<1>6. f # None
    BY <1>2 DEF f
<1>7. /\ "work" \in DOMAIN p /\ p.work \in Int /\ p.work <= calls + 1 /\ p.work \notin gone
      /\ \A h \in DOMAIN files : SameFile(h, f) => files[h].work \in gives \cup {p.work}
    BY <1>3, <1>4, WorkIsFresh
<1> QED BY <1>5, <1>6, <1>7, SaveBegins, Zenon

\* A preset under a path of its own.
LEMMA NewBegins ==
    ASSUME PresetsAssumption, PresetInv, NEW w \in Windows, NEW n, NEW p, "work" \in DOMAIN p, p.work = calls + 1,
           FreePath(n, None) # None, Begins(w, SaveAs(FreePath(n, None), p), {})
    PROVE  PresetInv'
<1> DEFINE f == FreePath(n, None)
<1>1. FolderInv
    BY PresetInvIs, Zenon
<1>2. \A h \in DOMAIN files \ {None} : h.key # f.key
    BY FreeIs
<1>3. f # None
    OBVIOUS
<1>4. Begins(w, SaveAs(f, p) \o <<>>, {})
    BY EmptyRest
<1> HIDE DEF f
<1>5. \A h \in DOMAIN files : ~SameFile(h, f)
    BY <1>1, <1>2, NewIsNew DEF FolderInv
<1>6. /\ "work" \in DOMAIN p /\ p.work \in Int /\ p.work <= calls + 1 /\ p.work \notin gone
      /\ \A h \in DOMAIN files : SameFile(h, f) => files[h].work \in {} \cup {p.work}
    BY <1>5, WorkIsFresh
<1> QED BY <1>3, <1>4, <1>6, SaveBegins, Zenon

LEMMA ImportKeeps ==
    ASSUME PresetsAssumption, PresetInv, NEW w \in Windows, Import(w)
    PROVE  PresetInv'
<1>1. PICK n \in Names : FreePath(n, None) # None
           /\ Begins(w, SaveAs(FreePath(n, None), [name |-> n, about |-> calls + 1, work |-> calls + 1]), {})
    BY Zenon DEF Import
<1> DEFINE p == [name |-> n, about |-> calls + 1, work |-> calls + 1]
<1>2. "work" \in DOMAIN p /\ p.work = calls + 1
    OBVIOUS
<1> HIDE DEF p
<1> QED BY <1>1, <1>2, NewBegins, Zenon DEF p

LEMMA DuplicateKeeps ==
    ASSUME PresetsAssumption, PresetInv, NEW w \in Windows, Duplicate(w)
    PROVE  PresetInv'
<1>1. PICK l \in ListingsOf(w) : \E f \in DOMAIN l \cap DOMAIN files :
        LET name == CopyName(l, files[f].name)
            t == FreePath(name, None)
        IN  t # None /\ Begins(w, SaveAs(t, [files[f] EXCEPT !.name = name, !.work = calls + 1]), {})
    BY Zenon DEF Duplicate
<1>2. PICK f \in DOMAIN l \cap DOMAIN files :
        /\ FreePath(CopyName(l, files[f].name), None) # None
        /\ Begins(w, SaveAs(FreePath(CopyName(l, files[f].name), None),
                            [files[f] EXCEPT !.name = CopyName(l, files[f].name), !.work = calls + 1]), {})
    BY <1>1, Zenon
<1> DEFINE p == [files[f] EXCEPT !.name = CopyName(l, files[f].name), !.work = calls + 1]
<1>3. "work" \in DOMAIN p /\ p.work = calls + 1
  <2>1. "work" \in DOMAIN files[f]
      BY PresetInvIs DEF FolderInv, IsPreset
  <2> QED BY <2>1
<1> HIDE DEF p
<1> QED BY <1>2, <1>3, NewBegins, Zenon DEF p

LEMMA OnlyItself ==
    ASSUME FolderInv, NEW f \in DOMAIN files, NEW h \in DOMAIN files, SameFile(h, f)
    PROVE  h = f
BY DEF FolderInv, OneSpelling, SameFile

LEMMA RenameKeeps ==
    ASSUME PresetsAssumption, PresetInv, NEW w \in Windows, Rename(w)
    PROVE  PresetInv'
<1>1. FolderInv
    BY PresetInvIs, Zenon
<1>2. PICK l \in ListingsOf(w) : \E f \in DOMAIN l \cap DOMAIN files, n \in Names :
        /\ FreePath(n, f) # None
        /\ Begins(w, RenameSteps(f, FreePath(n, f), [files[f] EXCEPT !.name = n]), {})
    BY Zenon DEF Rename
<1>3. PICK f \in DOMAIN l \cap DOMAIN files, n \in Names :
        /\ FreePath(n, f) # None
        /\ Begins(w, RenameSteps(f, FreePath(n, f), [files[f] EXCEPT !.name = n]), {})
    BY <1>2, Zenon
<1> DEFINE t == FreePath(n, f)
           p == [files[f] EXCEPT !.name = n]
           drop == Does("drop", f, p)
           move == [Does("move", f, p) EXCEPT !.held = t]
<1>4. t # None /\ Begins(w, RenameSteps(f, t, p), {})
    BY <1>3
<1>5. \A h \in DOMAIN files \ {f} : h.key # t.key
    BY <1>4, FreeIs
<1>6. f \in DOMAIN files /\ f # None /\ IsPreset(files[f]) /\ files[f].work \notin gone
    BY <1>1 DEF FolderInv, WorksOf
<1>7. "work" \in DOMAIN p /\ p.work = files[f].work
    BY <1>6 DEF IsPreset
<1>8. drop.do = "drop" /\ drop.file = f
    BY DEF Does
<1>9. move.do = "move" /\ move.file = f /\ move.held = t
    BY DEF Does
<1> HIDE DEF t, p, drop, move
<1>10. "work" \in DOMAIN p /\ p.work \in Int /\ p.work <= calls + 1 /\ p.work \notin gone
    BY <1>1, <1>6, <1>7 DEF IsPreset, FolderInv
<1>11. \A h \in DOMAIN files : SameFile(h, f) => files[h].work \in {} \cup {p.work}
    BY <1>1, <1>6, <1>7, OnlyItself
<1>12. CASE f.key # t.key
  <2>1. Begins(w, SaveAs(t, p) \o <<drop>>, {})
      BY <1>4, <1>12, Zenon DEF RenameSteps, drop
  <2>2. \A h \in DOMAIN files : ~SameFile(h, t)
      BY <1>5, <1>12, NewIsNew
  <2>3. LastIsSafe(t, p, drop)
      BY <1>6, <1>7, <1>8, <2>2 DEF LastIsSafe
  <2>4. \A h \in DOMAIN files : SameFile(h, t) => files[h].work \in {} \cup {p.work}
      BY <2>2
  <2>5. <<drop>> = <<>> \/ \E last : <<drop>> = <<last>> /\ LastIsSafe(t, p, last)
      BY <2>3, Zenon
  <2> QED BY <1>4, <1>10, <2>1, <2>4, <2>5, SaveBegins, Zenon
<1>13. CASE f = t
  <2>1. Begins(w, SaveAs(f, p) \o <<>>, {})
      BY <1>4, <1>13, EmptyRest, Zenon DEF RenameSteps
  <2> QED BY <1>6, <1>10, <1>11, <2>1, SaveBegins, Zenon
<1>14. CASE f.key = t.key /\ f # t
  <2>1. Begins(w, SaveAs(f, p) \o <<move>>, {})
      BY <1>4, <1>14, Zenon DEF RenameSteps, move
  <2>2. t \notin DOMAIN files \cup {None, f}
      BY <1>4, <1>5, <1>14
  <2>3. LastIsSafe(f, p, move)
      BY <1>9, <1>14, <2>2 DEF LastIsSafe
  <2>5. <<move>> = <<>> \/ \E last : <<move>> = <<last>> /\ LastIsSafe(f, p, last)
      BY <2>3, Zenon
  <2> QED BY <1>6, <1>10, <1>11, <2>1, <2>5, SaveBegins, Zenon
<1> QED BY <1>12, <1>13, <1>14

LEMMA DeleteKeeps ==
    ASSUME PresetsAssumption, PresetInv, NEW w \in Windows, Delete(w)
    PROVE  PresetInv'
<1>1. FolderInv /\ (~made => Unmade)
    BY PresetInvIs, Zenon
<1>2. /\ at = None /\ UNCHANGED <<folds, made, at>> /\ calls' = calls + 1
      /\ \E f \in DOMAIN files :
            /\ files' = Without(f)
            /\ owed' = owed \ ({files[f].work} \ {files[g].work : g \in DOMAIN files \ {f}})
            /\ gone' = gone \cup ({files[f].work} \ {files[g].work : g \in DOMAIN files \ {f}})
    BY DEF Delete
<1>3. PICK f \in DOMAIN files :
            /\ files' = Without(f)
            /\ owed' = owed \ ({files[f].work} \ {files[g].work : g \in DOMAIN files \ {f}})
            /\ gone' = gone \cup ({files[f].work} \ {files[g].work : g \in DOMAIN files \ {f}})
    BY <1>2
<1>4. DOMAIN files' = DOMAIN files \ {f} /\ \A g \in DOMAIN files' : files'[g] = files[g]
    BY <1>3 DEF Without
<1> DEFINE others == {files[g].work : g \in DOMAIN files \ {f}}
<1>5. WorksOf(files') = others /\ WorksOf(files) = others \cup {files[f].work}
    BY <1>4 DEF WorksOf
<1>6. owed' = owed \ ({files[f].work} \ others) /\ gone' = gone \cup ({files[f].work} \ others)
    BY <1>3
<1>7. IsPreset(files[f]) /\ owed \subseteq WorksOf(files) /\ gone \cap WorksOf(files) = {}
    BY <1>1 DEF FolderInv
<1> HIDE DEF others
<1>8. owed' \subseteq WorksOf(files') /\ gone' \cap WorksOf(files') = {}
    BY <1>5, <1>6, <1>7
<1>9. calls' \in Nat /\ gone' \subseteq Int /\ \A work \in gone' : work <= calls'
  <2>1. calls \in Nat /\ gone \subseteq Int /\ \A work \in gone : work <= calls
      BY <1>1 DEF FolderInv
  <2>2. files[f].work \in Int /\ files[f].work <= calls
      BY <1>7 DEF IsPreset
  <2>3. gone' \subseteq gone \cup {files[f].work} /\ calls' = calls + 1
      BY <1>2, <1>6
  <2>4. \A work \in gone \cup {files[f].work} : work \in Int /\ work <= calls + 1
      BY <2>1, <2>2
  <2>5. calls' \in Nat
      BY <2>1, <2>3
  <2>6. ASSUME NEW work \in gone' PROVE work \in Int /\ work <= calls'
    <3>1. work \in gone \cup {files[f].work}
        BY <2>3, Zenon
    <3> QED BY <2>3, <2>4, <3>1
  <2> QED BY <2>5, <2>6, Zenon
<1>10. None \notin DOMAIN files' /\ (\A g \in DOMAIN files : IsPreset(files[g]))'
  <2>1. None \notin DOMAIN files /\ calls \in Nat /\ \A g \in DOMAIN files : IsPreset(files[g])
      BY <1>1 DEF FolderInv
  <2>2. calls' = calls + 1
      BY <1>2
  <2> QED BY <1>4, <2>1, <2>2 DEF IsPreset
<1>11. folds' => OneSpelling(files')
    BY <1>1, <1>2, <1>4 DEF FolderInv, OneSpelling
<1>12. FolderInv'
    BY <1>8, <1>9, <1>10, <1>11, Zenon DEF FolderInv
<1>13. made
    BY <1>1 DEF Unmade
<1> QED BY <1>2, <1>12, <1>13, PresetInvIsNext

\* A window that looks, a call cut short, a process that dies.
LEMMA StillKeeps ==
    ASSUME PresetInv, UNCHANGED <<folds, made, files, calls, owed, gone>>, up' \subseteq up, at' \in {None, at}
    PROVE  PresetInv'
<1>1. FolderInv /\ (~made => Unmade) /\ (at # None => CallIsSafe)
    BY PresetInvIs, Zenon
<1>2. FolderInv'
    BY <1>1 DEF FolderInv, OneSpelling, WorksOf, IsPreset
<1>3. ~made' => Unmade'
    BY <1>1 DEF Unmade
<1>4. at' # None => CallIsSafe'
  <2>1. SUFFICES ASSUME at' # None PROVE CallIsSafe'
      OBVIOUS
  <2>2. at' = at /\ CallIsSafe
      BY <1>1, <2>1
  <2> QED BY <2>2, ZenonT(30) DEF CallIsSafe, TempAhead, SaveAhead, LastAhead, SeedsAhead, SwapIsSafe, LastIsSafe, IsPreset, SameFile
<1> QED BY <1>2, <1>3, <1>4, PresetInvIsNext

\* The steps of a first run.
LEMMA SeedsAre ==
    ASSUME PresetsAssumption
    PROVE  /\ DOMAIN Seeds = 1..(2 * Len(Defaults)) /\ IsSequence(Seeds)
           /\ \A k \in 1..(2 * Len(Defaults)) : \E i \in 1..Len(Defaults) :
                /\ k \in {2 * i - 1, 2 * i}
                /\ Seeds[k].do = IF k = 2 * i THEN "fill" ELSE "touch"
                /\ Seeds[k].file = FileStem(Defaults[i])
                /\ Seeds[k].held = [name |-> Defaults[i], about |-> -i, work |-> -i]
<1> DEFINE N == 2 * Len(Defaults)
<1>1. N \in Nat
    BY DEF PresetsAssumption
<1>2. DOMAIN Seeds = 1..N
    BY DEF Seeds
<1>3. IsSequence(Seeds)
  <2>1. Seeds = [k \in 1..N |-> Seeds[k]]
      BY DEF Seeds
  <2> HIDE DEF N
  <2>2. \A k \in 1..N : Seeds[k] \in {Seeds[i] : i \in DOMAIN Seeds}
      BY <1>2
  <2> DEFINE S == {Seeds[i] : i \in DOMAIN Seeds}
  <2> HIDE DEF S
  <2>3. Seeds \in [1..N -> S]
      BY <2>1, <2>2 DEF S
  <2>4. Seeds \in Seq(S)
      BY <1>1, <2>3, SeqDef
  <2> QED BY <2>4, Zenon DEF S, IsSequence
<1>4. ASSUME NEW k \in 1..N
      PROVE  \E i \in 1..Len(Defaults) :
                /\ k \in {2 * i - 1, 2 * i}
                /\ Seeds[k].do = IF k = 2 * i THEN "fill" ELSE "touch"
                /\ Seeds[k].file = FileStem(Defaults[i])
                /\ Seeds[k].held = [name |-> Defaults[i], about |-> -i, work |-> -i]
  <2> DEFINE i == (k + 1) \div 2
  <2>1. i \in 1..Len(Defaults) /\ k \in {2 * i - 1, 2 * i} /\ (k % 2 = 1 <=> k # 2 * i)
      BY SMTT(30) DEF PresetsAssumption
  <2>2. Seeds[k] = Does(IF k % 2 = 1 THEN "touch" ELSE "fill", FileStem(Defaults[i]),
                        [name |-> Defaults[i], about |-> -i, work |-> -i])
      BY <1>2 DEF Seeds
  <2> HIDE DEF i
  <2>3. /\ Seeds[k].do = IF k = 2 * i THEN "fill" ELSE "touch"
        /\ Seeds[k].file = FileStem(Defaults[i])
        /\ Seeds[k].held = [name |-> Defaults[i], about |-> -i, work |-> -i]
      BY <2>1, <2>2 DEF Does
  <2> QED BY <2>1, <2>3
<1> QED BY <1>2, <1>3, <1>4

LEMMA StartKeeps ==
    ASSUME PresetsAssumption, PresetInv, NEW w \in Windows, Start(w)
    PROVE  PresetInv'
<1>1. FolderInv /\ (~made => Unmade)
    BY PresetInvIs, Zenon
<1>2. /\ made' /\ UNCHANGED <<folds, files, calls, owed, gone>>
      /\ at' = IF made THEN None ELSE [who |-> w, todo |-> Seeds, gives |-> {}]
    BY DEF Start, Seeded
<1>3. FolderInv'
    BY <1>1, <1>2 DEF FolderInv, OneSpelling, WorksOf, IsPreset
<1>4. at' # None => CallIsSafe'
  <2>1. SUFFICES ASSUME at' # None PROVE CallIsSafe'
      OBVIOUS
  <2>2. at' = [who |-> w, todo |-> Seeds, gives |-> {}] /\ Unmade
      BY <1>1, <1>2, <2>1
  <2>3. at'.todo = Seeds /\ at'.gives = {} /\ "todo" \in DOMAIN at'
      BY <2>2
  <2>4. DOMAIN files' = {} /\ gone' = {} /\ owed' = {}
      BY <1>2, <2>2 DEF Unmade
  <2>5. DOMAIN Seeds = 1..(2 * Len(Defaults)) /\ IsSequence(Seeds) /\ 2 * Len(Defaults) \in Nat \ {0}
      BY SeedsAre DEF PresetsAssumption
  <2>6. Len(Seeds) = 2 * Len(Defaults)
      BY <2>5 DEF IsSequence
  <2>7. SeedsAhead'
    <3>1. 1 \in 1..(2 * Len(Defaults))
        BY <2>5
    <3>2. Len(at'.todo) = 2 * Len(Defaults) - 1 + 1
        BY <2>3, <2>5, <2>6
    <3>3. \A i \in 1..Len(at'.todo) : at'.todo[i] = Seeds[1 + i - 1]
      <4>1. ASSUME NEW i \in 1..Len(at'.todo) PROVE 1 + i - 1 = i
          BY <2>3, <2>5, <2>6
      <4> QED BY <2>3, <4>1
    <3> QED BY <2>3, <2>4, <3>1, <3>2, <3>3 DEF SeedsAhead
  <2> QED BY <2>3, <2>5, <2>7, Zenon DEF CallIsSafe
<1> QED BY <1>2, <1>3, <1>4, PresetInvIsNext

\* What one call of the file system does, and what it leaves of the call at work.
StepDoes(what, f, p) ==
    /\ UNCHANGED <<folds, made, up, calls, gone>>
    /\ what = "temp" => files' = files /\ owed' = owed
    /\ what = "touch" => files' = Put(f, Torn(f)) /\ owed' = owed
    /\ what \in {"fill", "swap"} => files' = Put(f, p) /\ owed' = (owed \ at.gives) \cup {p.work}
    /\ what = "move" =>
        /\ files' = [g \in (DOMAIN files \ {f}) \cup {p} |-> IF g = p THEN files[f] ELSE files[g]]
        /\ owed' = owed
    /\ what = "drop" => files' = Without(f) /\ owed' = owed
StepLeaves ==
    /\ Len(at.todo) = 1 => at' = None
    /\ Len(at.todo) # 1 =>
        /\ "todo" \in DOMAIN at' /\ at'.gives = at.gives
        /\ IsSequence(at'.todo) /\ Len(at'.todo) = Len(at.todo) - 1
        /\ \A i \in 1..Len(at'.todo) : at'.todo[i] = at.todo[i + 1]

LEMMA StepIs ==
    ASSUME StepOn, "todo" \in DOMAIN at, IsSequence(at.todo), Len(at.todo) >= 1
    PROVE  StepDoes(at.todo[1].do, at.todo[1].file, at.todo[1].held) /\ StepLeaves
<1> DEFINE step == at.todo[1]
<1> DEFINE S == {at.todo[i] : i \in DOMAIN at.todo}
<1>1. at.todo \in Seq(S)
    BY Zenon DEF IsSequence
<1> HIDE DEF S
<1>2. step = Head(at.todo)
    BY <1>1
<1>3. UNCHANGED <<folds, made, up, calls, gone>>
    BY DEF StepOn
<1>4. /\ files' = CASE step.do = "temp" -> files
                    [] step.do = "touch" -> Put(step.file, Torn(step.file))
                    [] step.do \in {"fill", "swap"} -> Put(step.file, step.held)
                    [] step.do = "move" -> [g \in (DOMAIN files \ {step.file}) \cup {step.held} |->
                                                IF g = step.held THEN files[step.file] ELSE files[g]]
                    [] step.do = "drop" -> Without(step.file)
      /\ owed' = IF step.do \in {"fill", "swap"} THEN (owed \ at.gives) \cup {step.held.work} ELSE owed
    BY <1>2, Zenon DEF StepOn
<1>5. at' = IF Len(at.todo) = 1 THEN None ELSE [at EXCEPT !.todo = Tail(@)]
    BY DEF StepOn
<1>6. step.do = "temp" => files' = files /\ owed' = owed
    BY <1>4
<1>7. step.do = "touch" => files' = Put(step.file, Torn(step.file)) /\ owed' = owed
    BY <1>4
<1>8. step.do \in {"fill", "swap"} =>
                /\ files' = Put(step.file, step.held)
                /\ owed' = (owed \ at.gives) \cup {step.held.work}
    BY <1>4
<1>9. step.do = "move" =>
                /\ files' = [g \in (DOMAIN files \ {step.file}) \cup {step.held} |->
                                IF g = step.held THEN files[step.file] ELSE files[g]]
                /\ owed' = owed
    BY <1>4
<1>10. step.do = "drop" => files' = Without(step.file) /\ owed' = owed
    BY <1>4
<1>11. Len(at.todo) # 1 =>
                /\ "todo" \in DOMAIN at' /\ at'.gives = at.gives
                /\ IsSequence(at'.todo) /\ Len(at'.todo) = Len(at.todo) - 1
                /\ \A i \in 1..Len(at'.todo) : at'.todo[i] = at.todo[i + 1]
  <2> SUFFICES ASSUME Len(at.todo) # 1 PROVE
              /\ "todo" \in DOMAIN at' /\ at'.gives = at.gives
              /\ IsSequence(at'.todo) /\ Len(at'.todo) = Len(at.todo) - 1
              /\ \A i \in 1..Len(at'.todo) : at'.todo[i] = at.todo[i + 1]
      OBVIOUS
  <2>1. at' = [at EXCEPT !.todo = Tail(at.todo)]
      BY <1>5
  <2>2. "todo" \in DOMAIN at' /\ at'.gives = at.gives /\ at'.todo = Tail(at.todo)
      BY <2>1
  <2>3. Tail(at.todo) \in Seq(S) /\ Len(Tail(at.todo)) = Len(at.todo) - 1
        /\ \A i \in 1..Len(Tail(at.todo)) : Tail(at.todo)[i] = at.todo[i + 1]
      BY <1>1
  <2>4. IsSequence(Tail(at.todo))
    <3> DEFINE tail == Tail(at.todo)
               T == {tail[i] : i \in DOMAIN tail}
    <3> HIDE DEF tail
    <3>1. tail \in Seq(S)
        BY <2>3 DEF tail
    <3>2. Len(tail) \in Nat /\ DOMAIN tail = 1..Len(tail) /\ tail = [i \in 1..Len(tail) |-> tail[i]]
        BY <3>1
    <3>3. \A i \in 1..Len(tail) : tail[i] \in T
        BY <3>2
    <3> HIDE DEF T
    <3>4. tail \in [1..Len(tail) -> T]
        BY <3>2, <3>3
    <3>5. tail \in Seq(T)
        BY <3>2, <3>4, SeqDef
    <3> QED BY <3>5, Zenon DEF T, tail, IsSequence
  <2> QED BY <2>2, <2>3, <2>4
<1> HIDE DEF step
<1>12. StepLeaves
    BY <1>5, <1>11, Zenon DEF StepLeaves
<1>13. StepDoes(step.do, step.file, step.held)
    BY <1>3, <1>6, <1>7, <1>8, <1>9, <1>10, Zenon DEF StepDoes
<1> QED BY <1>12, <1>13 DEF step

\* A file put in the folder.
LEMMA PutKeeps ==
    ASSUME FolderInv, UNCHANGED <<folds, calls, gone>>, NEW f, NEW p, files' = Put(f, p),
           f # None, IsPreset(p), p.work \notin gone,
           \A work \in owed' : work = p.work \/ (work \in owed /\ \A h \in DOMAIN files : SameFile(h, f) => files[h].work # work)
    PROVE  FolderInv'
<1>1. /\ DOMAIN files' = {h \in DOMAIN files : ~SameFile(h, f)} \cup {f}
      /\ files'[f] = p
      /\ \A h \in DOMAIN files' : h # f => h \in DOMAIN files /\ ~SameFile(h, f) /\ files'[h] = files[h]
    BY DEF Put
<1>2. calls' \in Nat /\ gone' \subseteq Int /\ \A work \in gone' : work <= calls'
    BY DEF FolderInv
<1>3. None \notin DOMAIN files' /\ (\A g \in DOMAIN files : IsPreset(files[g]))'
    BY <1>1 DEF FolderInv, IsPreset
<1>4. folds' => OneSpelling(files')
    BY <1>1 DEF FolderInv, OneSpelling, SameFile
<1>5. owed' \subseteq WorksOf(files')
  <2>1. ASSUME NEW work \in owed' PROVE \E h \in DOMAIN files' : files'[h].work = work
    <3>1. CASE work = p.work
        BY <1>1, <3>1
    <3>2. CASE work \in owed /\ \A h \in DOMAIN files : SameFile(h, f) => files[h].work # work
      <4>1. PICK h \in DOMAIN files : files[h].work = work
          BY <3>2 DEF FolderInv, WorksOf
      <4>2. h \in DOMAIN files' /\ h # f
          BY <1>1, <3>2, <4>1 DEF SameFile
      <4> QED BY <1>1, <4>1, <4>2
    <3> QED BY <3>1, <3>2
  <2> QED BY <2>1 DEF WorksOf
<1>6. gone' \cap WorksOf(files') = {}
    BY <1>1 DEF FolderInv, WorksOf
<1> QED BY <1>2, <1>3, <1>4, <1>5, <1>6, Zenon DEF FolderInv

\* A temporary file is written beside.
LEMMA TempKeeps ==
    ASSUME PresetInv, StepOn, "todo" \in DOMAIN at, IsSequence(at.todo), made, FolderInv, TempAhead
    PROVE  PresetInv'
<1>1. PICK f, p, last : f = at.todo[2].file /\ p = at.todo[2].held /\ last = at.todo[3]
    OBVIOUS
<1>2. /\ at.todo[1].do = "temp" /\ Len(at.todo) \in 2..3
      /\ at.todo[2].do = "swap" /\ SwapIsSafe(f, p)
      /\ Len(at.todo) = 3 => LastIsSafe(f, p, last)
    BY <1>1 DEF TempAhead, SaveAhead
<1> Len(at.todo) >= 1
    BY <1>2
<1>3. UNCHANGED <<folds, made, files, calls, owed, gone>>
    BY <1>2, StepIs DEF StepDoes
<1>4. /\ "todo" \in DOMAIN at' /\ at'.gives = at.gives /\ IsSequence(at'.todo)
      /\ Len(at'.todo) = Len(at.todo) - 1 /\ \A i \in 1..Len(at'.todo) : at'.todo[i] = at.todo[i + 1]
    BY <1>2, StepIs DEF StepLeaves
<1>5. FolderInv'
    BY <1>3 DEF FolderInv, OneSpelling, WorksOf, IsPreset
<1>6. Len(at'.todo) \in 1..2 /\ at'.todo[1] = at.todo[2] /\ (Len(at'.todo) = 2 => at'.todo[2] = last /\ Len(at.todo) = 3)
    BY <1>1, <1>2, <1>4
<1>7. SwapIsSafe(f, p)'
    BY <1>2, <1>3, <1>4 DEF SwapIsSafe, IsPreset, SameFile
<1>8. LastIsSafe(f, p, last) => LastIsSafe(f, p, last)'
    BY <1>3 DEF LastIsSafe, SameFile
<1>9. SaveAhead(1)'
    BY <1>1, <1>2, <1>6, <1>7, <1>8 DEF SaveAhead
<1>10. CallIsSafe'
    BY <1>4, <1>9, Zenon DEF CallIsSafe
<1> QED BY <1>3, <1>5, <1>10, PresetInvIsNext

\* It takes the place of the preset.
LEMMA SwapKeeps ==
    ASSUME PresetInv, StepOn, "todo" \in DOMAIN at, IsSequence(at.todo), made, FolderInv, SaveAhead(1)
    PROVE  PresetInv'
<1>1. PICK f, p, last : f = at.todo[1].file /\ p = at.todo[1].held /\ last = at.todo[2]
    OBVIOUS
<1>2. /\ Len(at.todo) \in 1..2
      /\ at.todo[1].do = "swap" /\ SwapIsSafe(f, p)
      /\ Len(at.todo) = 2 => LastIsSafe(f, p, last)
    BY <1>1 DEF SaveAhead
<1> Len(at.todo) >= 1
    BY <1>2
<1>3. /\ UNCHANGED <<folds, made, calls, gone>>
      /\ files' = Put(f, p) /\ owed' = (owed \ at.gives) \cup {p.work}
    BY <1>1, <1>2, StepIs DEF StepDoes
<1>4. Len(at.todo) = 1 => at' = None
    BY StepIs DEF StepLeaves
<1>5. Len(at.todo) = 2 =>
      /\ "todo" \in DOMAIN at' /\ at'.gives = at.gives /\ IsSequence(at'.todo)
      /\ Len(at'.todo) = Len(at.todo) - 1 /\ \A i \in 1..Len(at'.todo) : at'.todo[i] = at.todo[i + 1]
    BY <1>2, StepIs DEF StepLeaves
<1>6. FolderInv'
  <2>1. f # None /\ IsPreset(p) /\ p.work \notin gone
      BY <1>2 DEF SwapIsSafe
  <2>2. \A work \in owed' : work = p.work \/ (work \in owed /\ \A h \in DOMAIN files : SameFile(h, f) => files[h].work # work)
      BY <1>2, <1>3 DEF SwapIsSafe
  <2> QED BY <1>3, <2>1, <2>2, PutKeeps
<1>7. /\ DOMAIN files' = {h \in DOMAIN files : ~SameFile(h, f)} \cup {f}
      /\ files'[f] = p
      /\ \A h \in DOMAIN files' : h # f => h \in DOMAIN files /\ ~SameFile(h, f) /\ files'[h] = files[h]
    BY <1>3 DEF Put
<1>8. ASSUME at' # None PROVE CallIsSafe'
  <2>1. Len(at.todo) = 2 /\ LastIsSafe(f, p, last)
      BY <1>2, <1>4, <1>8
  <2>2. Len(at'.todo) = 1 /\ at'.todo[1] = last
      BY <1>1, <1>5, <2>1
  <2>3. CASE last.do = "drop" /\ last.file \in DOMAIN files /\ ~SameFile(last.file, f) /\ files[last.file].work = p.work
    <3>1. last.file # f /\ last.file \in DOMAIN files'
        BY <1>7, <2>3 DEF SameFile
    <3>2. files'[last.file].work = p.work /\ f \in DOMAIN files' \ {last.file} /\ files'[f].work = files'[last.file].work
        BY <1>7, <2>3, <3>1
    <3>3. LastAhead'
        BY <2>2, <2>3, <3>1, <3>2 DEF LastAhead
    <3> QED BY <1>5, <2>1, <3>3, Zenon DEF CallIsSafe
  <2>4. CASE /\ last.do = "move" /\ last.file = f
             /\ last.held \notin DOMAIN files \cup {None, f} /\ last.held.key = f.key
    <3>1. f \in DOMAIN files' /\ last.held \notin DOMAIN files' \cup {None}
        BY <1>7, <2>4
    <3>2. LastAhead'
        BY <2>2, <2>4, <3>1 DEF LastAhead
    <3> QED BY <1>5, <2>1, <3>2, Zenon DEF CallIsSafe
  <2> QED BY <2>1, <2>3, <2>4 DEF LastIsSafe
<1> QED BY <1>3, <1>6, <1>8, PresetInvIsNext

\* The last of a rename: the old file goes, or its case is put right.
LEMMA LastKeeps ==
    ASSUME PresetInv, StepOn, "todo" \in DOMAIN at, IsSequence(at.todo), made, FolderInv, LastAhead
    PROVE  PresetInv'
<1>1. PICK f, t : f = at.todo[1].file /\ t = at.todo[1].held
    OBVIOUS
<1>2. /\ Len(at.todo) = 1 /\ f \in DOMAIN files
      /\ \/ at.todo[1].do = "drop" /\ \E g \in DOMAIN files \ {f} : files[g].work = files[f].work
         \/ at.todo[1].do = "move" /\ t \notin DOMAIN files \cup {None} /\ t.key = f.key
    BY <1>1 DEF LastAhead
<1> Len(at.todo) >= 1
    BY <1>2
<1>3. UNCHANGED <<folds, made, calls, gone>> /\ at' = None
    BY <1>2, StepIs DEF StepDoes, StepLeaves
<1>4. FolderInv'
  <2>1. CASE at.todo[1].do = "drop" /\ \E g \in DOMAIN files \ {f} : files[g].work = files[f].work
    <3>1. files' = Without(f) /\ owed' = owed
        BY <1>1, <2>1, StepIs DEF StepDoes
    <3>2. DOMAIN files' = DOMAIN files \ {f} /\ \A g \in DOMAIN files' : files'[g] = files[g]
        BY <3>1 DEF Without
    <3>3. WorksOf(files') = WorksOf(files)
        BY <2>1, <3>2 DEF WorksOf
    <3> QED BY <1>3, <3>1, <3>2, <3>3 DEF FolderInv, OneSpelling, IsPreset
  <2>2. CASE at.todo[1].do = "move" /\ t \notin DOMAIN files \cup {None} /\ t.key = f.key
    <3>1. files' = [g \in (DOMAIN files \ {f}) \cup {t} |-> IF g = t THEN files[f] ELSE files[g]] /\ owed' = owed
        BY <1>1, <2>2, StepIs DEF StepDoes
    <3>2. /\ DOMAIN files' = (DOMAIN files \ {f}) \cup {t} /\ files'[t] = files[f]
          /\ \A g \in DOMAIN files' : g # t => g \in DOMAIN files \ {f} /\ files'[g] = files[g]
        BY <3>1
    <3>3. WorksOf(files') = WorksOf(files)
        BY <1>2, <2>2, <3>2 DEF WorksOf
    <3>4. None \notin DOMAIN files' /\ (\A g \in DOMAIN files : IsPreset(files[g]))'
        BY <1>2, <1>3, <2>2, <3>2 DEF FolderInv, IsPreset
    <3>5. folds' => OneSpelling(files')
        BY <1>2, <1>3, <2>2, <3>2 DEF FolderInv, OneSpelling
    <3> QED BY <1>3, <3>1, <3>3, <3>4, <3>5 DEF FolderInv
  <2> QED BY <1>2, <2>1, <2>2
<1> QED BY <1>3, <1>4, PresetInvIsNext

\* A default is made, or filled.
LEMMA SeedKeeps ==
    ASSUME PresetsAssumption, PresetInv, StepOn, "todo" \in DOMAIN at, IsSequence(at.todo), made, FolderInv, SeedsAhead
    PROVE  PresetInv'
<1> DEFINE N == 2 * Len(Defaults)
<1>1. PICK k \in 1..N :
        /\ Len(at.todo) = N - k + 1
        /\ \A i \in 1..Len(at.todo) : at.todo[i] = Seeds[k + i - 1]
        /\ at.gives = {} /\ gone = {} /\ 0 \notin owed
        /\ \A i \in 1..Len(Defaults), h \in DOMAIN files :
            h.key = FileStem(Defaults[i]).key =>
                \/ 2 * i < k
                \/ 2 * i = k /\ h = FileStem(Defaults[i]) /\ files[h].work = 0
    BY DEF SeedsAhead
<1>2. Len(Defaults) \in Nat \ {0} /\ N \in Nat
    BY DEF PresetsAssumption
<1>3. PICK i \in 1..Len(Defaults) :
        /\ k \in {2 * i - 1, 2 * i}
        /\ Seeds[k].do = IF k = 2 * i THEN "fill" ELSE "touch"
        /\ Seeds[k].file = FileStem(Defaults[i])
        /\ Seeds[k].held = [name |-> Defaults[i], about |-> -i, work |-> -i]
    BY SeedsAre
<1>4. at.todo[1] = Seeds[k] /\ Len(at.todo) >= 1
  <2>1. Len(at.todo) >= 1 /\ 1 \in 1..Len(at.todo) /\ k + 1 - 1 = k
      BY <1>1, <1>2
  <2> QED BY <1>1, <2>1
<1>5. PICK f, p : f = FileStem(Defaults[i]) /\ p = IF k = 2 * i THEN Seeds[k].held ELSE Torn(f)
    OBVIOUS
<1>6. "work" \in DOMAIN p /\ p.work = IF k = 2 * i THEN -i ELSE 0
    BY <1>3, <1>5 DEF Torn
<1>7. f # None /\ IsPreset(p) /\ p.work \notin gone
    BY <1>1, <1>2, <1>3, <1>5, <1>6 DEF PresetsAssumption, IsPreset, FolderInv
<1>8. UNCHANGED <<folds, made, calls, gone>> /\ files' = Put(f, p)
      /\ owed' = IF k = 2 * i THEN owed \cup {-i} ELSE owed
  <2>1. CASE k = 2 * i
    <3>1. at.todo[1].do = "fill" /\ at.todo[1].file = f /\ at.todo[1].held = p /\ p.work = -i
        BY <1>3, <1>4, <1>5, <1>6, <2>1
    <3>2. /\ UNCHANGED <<folds, made, calls, gone>> /\ files' = Put(f, p)
          /\ owed' = (owed \ at.gives) \cup {p.work}
        BY <1>4, <3>1, StepIs DEF StepDoes
    <3> QED BY <1>1, <2>1, <3>1, <3>2
  <2>2. CASE k # 2 * i
    <3>1. at.todo[1].do = "touch" /\ at.todo[1].file = f /\ p = Torn(f)
        BY <1>3, <1>4, <1>5, <2>2
    <3>2. UNCHANGED <<folds, made, calls, gone>> /\ files' = Put(f, p) /\ owed' = owed
        BY <1>4, <3>1, StepIs DEF StepDoes
    <3> QED BY <2>2, <3>2
  <2> QED BY <2>1, <2>2
<1>9. \A h \in DOMAIN files : SameFile(h, f) => k = 2 * i /\ files[h].work = 0
  <2>1. \A h \in DOMAIN files : SameFile(h, f) => h.key = FileStem(Defaults[i]).key
      BY <1>5 DEF SameFile
  <2> QED BY <1>1, <1>2, <1>3, <2>1
<1>10. FolderInv'
  <2>1. \A work \in owed' : work = p.work \/ (work \in owed /\ \A h \in DOMAIN files : SameFile(h, f) => files[h].work # work)
      BY <1>1, <1>6, <1>8, <1>9
  <2> QED BY <1>7, <1>8, <2>1, PutKeeps
<1>11. ASSUME at' # None PROVE CallIsSafe'
  <2>1. Len(at.todo) # 1 /\ Len(at.todo) \in Nat
      BY <1>1, <1>2, <1>4, <1>11, StepIs DEF StepLeaves
  <2>2. /\ "todo" \in DOMAIN at' /\ at'.gives = {} /\ IsSequence(at'.todo)
        /\ Len(at'.todo) = Len(at.todo) - 1 /\ \A j \in 1..Len(at'.todo) : at'.todo[j] = at.todo[j + 1]
    <3>1. StepLeaves
        BY <1>4, StepIs
    <3>2. at.gives = {}
        BY <1>1
    <3>3. /\ "todo" \in DOMAIN at' /\ at'.gives = at.gives /\ IsSequence(at'.todo)
          /\ Len(at'.todo) = Len(at.todo) - 1 /\ \A j \in 1..Len(at'.todo) : at'.todo[j] = at.todo[j + 1]
        BY <2>1, <3>1, Zenon DEF StepLeaves
    <3> QED BY <3>2, <3>3, Zenon
  <2>3. k + 1 \in 1..N /\ Len(at'.todo) = N - (k + 1) + 1
    <3> HIDE DEF N
    <3>1. k \in 1..N /\ N \in Nat /\ Len(at.todo) = N - k + 1 /\ Len(at.todo) # 1
        BY <1>1, <1>2, <2>1
    <3>2. Len(at'.todo) = Len(at.todo) - 1
        BY <2>2
    <3>3. k # N
        BY <3>1
    <3> QED BY <3>1, <3>2, <3>3
  <2>4. \A j \in 1..Len(at'.todo) : at'.todo[j] = Seeds[(k + 1) + j - 1]
    <3>1. ASSUME NEW j \in 1..Len(at'.todo)
          PROVE  at'.todo[j] = Seeds[(k + 1) + j - 1]
      <4>1. j + 1 \in 1..Len(at.todo) /\ k + (j + 1) - 1 = (k + 1) + j - 1
          BY <2>1, <2>2, <2>3
      <4>2. at.todo[j + 1] = Seeds[k + (j + 1) - 1]
          BY <1>1, <4>1
      <4> QED BY <2>2, <4>1, <4>2
    <3> QED BY <3>1
  <2>5. gone' = {} /\ 0 \notin owed'
      BY <1>1, <1>2, <1>3, <1>8
  <2>6. ASSUME NEW j \in 1..Len(Defaults), NEW h \in DOMAIN files', h.key = FileStem(Defaults[j]).key
        PROVE  2 * j < k + 1 \/ (2 * j = k + 1 /\ h = FileStem(Defaults[j]) /\ files'[h].work = 0)
    <3>1. h = f \/ (h \in DOMAIN files /\ files'[h] = files[h])
        BY <1>8 DEF Put
    <3>2. files'[f] = p
        BY <1>8 DEF Put
    <3>3. CASE h = f
      <4>1. j = i
          BY <1>5, <2>6, <3>3 DEF PresetsAssumption
      <4>2. CASE k = 2 * i
          BY <1>2, <1>3, <4>1, <4>2
      <4>3. CASE k # 2 * i
          BY <1>2, <1>3, <1>5, <1>6, <3>2, <3>3, <4>1, <4>3
      <4> QED BY <4>2, <4>3
    <3>4. CASE h \in DOMAIN files
      <4>1. 2 * j < k \/ 2 * j = k
          BY <1>1, <2>6, <3>4
      <4> QED BY <1>2, <4>1
    <3> QED BY <3>1, <3>3, <3>4
  <2>7. SeedsAhead'
      BY <2>2, <2>3, <2>4, <2>5, <2>6 DEF SeedsAhead
  <2> QED BY <2>2, <2>7, Zenon DEF CallIsSafe
<1> QED BY <1>8, <1>10, <1>11, PresetInvIsNext

LEMMA StepOnKeeps ==
    ASSUME PresetsAssumption, PresetInv, StepOn
    PROVE  PresetInv'
<1>1. FolderInv /\ (~made => Unmade) /\ (at # None => CallIsSafe)
    BY PresetInvIs, Zenon
<1>2. at # None
    BY DEF StepOn
<1>3. made
    BY <1>1, <1>2 DEF Unmade
<1>4. /\ "todo" \in DOMAIN at /\ IsSequence(at.todo)
      /\ TempAhead \/ SaveAhead(1) \/ LastAhead \/ SeedsAhead
    BY <1>1, <1>2, Zenon DEF CallIsSafe
<1> QED BY <1>1, <1>3, <1>4, TempKeeps, SwapKeeps, LastKeeps, SeedKeeps, Zenon

\* Between two steps of a call, and whatever it was cut off at, the folder holds what it should.
LEMMA PresetInductive == PresetSpec => []PresetInv
<1>1. PresetInit => PresetInv
    BY PresetsAssumption, InitKeeps
<1>2. PresetInv /\ [PresetNext]_presetVars => PresetInv'
  <2> SUFFICES ASSUME PresetInv, [PresetNext]_presetVars PROVE PresetInv'
      OBVIOUS
  <2> USE PresetsAssumption
  <2>1. ASSUME NEW w \in Windows, Save(w) PROVE PresetInv'
      BY <2>1, SaveKeeps
  <2>2. ASSUME NEW w \in Windows, Rename(w) PROVE PresetInv'
      BY <2>2, RenameKeeps
  <2>3. ASSUME NEW w \in Windows, Duplicate(w) PROVE PresetInv'
      BY <2>3, DuplicateKeeps
  <2>4. ASSUME NEW w \in Windows, Import(w) PROVE PresetInv'
      BY <2>4, ImportKeeps
  <2>5. ASSUME NEW w \in Windows, Delete(w) PROVE PresetInv'
      BY <2>5, DeleteKeeps
  <2>6. ASSUME NEW w \in Windows, Look(w) PROVE PresetInv'
    <3>1. UNCHANGED <<folds, made, files, calls, owed, gone>> /\ up' \subseteq up /\ at' \in {None, at}
        BY <2>6 DEF Look
    <3> QED BY <3>1, StillKeeps
  <2>7. ASSUME NEW w \in Windows, Start(w) PROVE PresetInv'
      BY <2>7, StartKeeps
  <2>8. ASSUME NEW w \in Windows, Dies(w) PROVE PresetInv'
    <3>1. UNCHANGED <<folds, made, files, calls, owed, gone>> /\ up' \subseteq up /\ at' \in {None, at}
        BY <2>8 DEF Dies
    <3> QED BY <3>1, StillKeeps
  <2>9. CASE StepOn
      BY <2>9, StepOnKeeps
  <2>10. CASE Fails
    <3>1. UNCHANGED <<folds, made, files, calls, owed, gone>> /\ up' \subseteq up /\ at' \in {None, at}
        BY <2>10 DEF Fails
    <3> QED BY <3>1, StillKeeps
  <2>11. CASE UNCHANGED presetVars
    <3>1. UNCHANGED <<folds, made, files, calls, owed, gone>> /\ up' \subseteq up /\ at' \in {None, at}
        BY <2>11 DEF presetVars
    <3> QED BY <3>1, StillKeeps
  <2> QED BY <2>1, <2>2, <2>3, <2>4, <2>5, <2>6, <2>7, <2>8, <2>9, <2>10, <2>11 DEF PresetNext
<1> QED BY <1>1, <1>2, PTL DEF PresetSpec

\* What the user was told is saved stays in the folder until a call is asked to replace or delete
\* it, and what was deleted does not come back, for any number of windows, names and defaults and
\* whatever fails or dies between two steps (preset.rs: path_for, free_path, write_atomically,
\* rename, seed_defaults).
THEOREM FolderIsAsToldHolds == PresetSpec => []FolderIsAsTold
<1>1. PresetInv => FolderIsAsTold
    BY Zenon DEF PresetInv
<1> QED BY <1>1, PresetInductive, PTL

(***************************************************************************)
(* The menu is never left with a root that leads nowhere.  A plan is cut   *)
(* off after any of its steps and written over by the next one, so the     *)
(* invariant speaks of every registry a plan in hand comes to; that of a   *)
(* whole plan is put together from those of its parts.                     *)
(***************************************************************************)

\* A function of the labelled numbers is a sequence; so are two in a row, and what
\* follows the labelled of one.
LEMMA ListOf ==
    ASSUME NEW n \in Nat, NEW s, s = [i \in 1..n |-> s[i]]
    PROVE  IsList(s) /\ Len(s) = n /\ DOMAIN s = 1..n
<1> DEFINE T == {s[i] : i \in 1..n}
<1>1. s \in [1..n -> T]
    OBVIOUS
<1> HIDE DEF T
<1>2. s \in Seq(T)
    BY <1>1, SeqDef
<1>3. DOMAIN s = 1..n
    BY <1>1
<1>4. Len(s) = n
    BY <1>2, <1>3, LenProperties
<1> QED BY <1>2, <1>3, <1>4 DEF IsList, T

LEMMA ListIs ==
    ASSUME NEW s, IsList(s)
    PROVE  Len(s) \in Nat /\ DOMAIN s = 1..Len(s) /\ s = [i \in 1..Len(s) |-> s[i]]
<1> DEFINE T == {s[i] : i \in 1..Len(s)}
<1>1. s \in Seq(T)
    BY DEF IsList
<1> HIDE DEF T
<1> QED BY <1>1, LenProperties

LEMMA ListsJoined ==
    ASSUME NEW s, NEW t, IsList(s), IsList(t)
    PROVE  /\ IsList(s \o t) /\ Len(s \o t) = Len(s) + Len(t)
           /\ \A i \in 1..Len(s) : (s \o t)[i] = s[i]
           /\ \A i \in (Len(s) + 1)..(Len(s) + Len(t)) : (s \o t)[i] = t[i - Len(s)]
<1> DEFINE S == {s[i] : i \in 1..Len(s)}
           T == {t[i] : i \in 1..Len(t)}
<1>1. s \in Seq(S) /\ t \in Seq(T) /\ Len(s) \in Nat /\ Len(t) \in Nat
    BY ListIs DEF IsList
<1> HIDE DEF S, T
<1>2. s \in Seq(S \cup T) /\ t \in Seq(S \cup T)
  <2>1. s \in [1..Len(s) -> S \cup T] /\ t \in [1..Len(t) -> S \cup T]
      BY <1>1, LenProperties
  <2> QED BY <1>1, <2>1, SeqDef
<1>3. /\ s \o t \in Seq(S \cup T) /\ Len(s \o t) = Len(s) + Len(t)
      /\ \A i \in 1..(Len(s) + Len(t)) :
            (s \o t)[i] = IF i <= Len(s) THEN s[i] ELSE t[i - Len(s)]
    BY <1>2, ConcatProperties
<1>4. s \o t = [i \in 1..(Len(s) + Len(t)) |-> (s \o t)[i]]
    BY <1>3, LenProperties
<1>5. Len(s) + Len(t) \in Nat
    BY <1>1
<1>6. IsList(s \o t)
    BY <1>4, <1>5, ListOf, Zenon
<1> QED BY <1>1, <1>3, <1>6

LEMMA ListAfter ==
    ASSUME NEW s, IsList(s), s # <<>>
    PROVE  /\ IsList(Tail(s)) /\ Len(s) >= 1 /\ Len(Tail(s)) = Len(s) - 1
           /\ Head(s) = s[1] /\ \A i \in 1..(Len(s) - 1) : Tail(s)[i] = s[i + 1]
<1> DEFINE S == {s[i] : i \in 1..Len(s)}
<1>1. s \in Seq(S) /\ Len(s) \in Nat
    BY ListIs DEF IsList
<1> HIDE DEF S
<1>2. /\ Len(s) >= 1 /\ Len(Tail(s)) = Len(s) - 1 /\ Tail(s) \in Seq(S)
      /\ Head(s) = s[1] /\ \A i \in 1..(Len(s) - 1) : Tail(s)[i] = s[i + 1]
    BY <1>1, LenProperties, EmptySeq, HeadTailProperties
<1>3. Len(s) - 1 \in Nat /\ Tail(s) = [i \in 1..(Len(s) - 1) |-> Tail(s)[i]]
    BY <1>1, <1>2, LenProperties
<1>4. IsList(Tail(s))
    BY <1>3, ListOf, Zenon
<1> QED BY <1>2, <1>4

LEMMA ShortLists ==
    /\ IsList(<<>>) /\ Len(<<>>) = 0
    /\ \A a : IsList(<<a>>) /\ Len(<<a>>) = 1
    /\ \A a, b, c : IsList(<<a, b, c>>) /\ Len(<<a, b, c>>) = 3
<1>1. <<>> = [i \in 1..0 |-> <<>>[i]]
    OBVIOUS
<1>2. ASSUME NEW a PROVE IsList(<<a>>) /\ Len(<<a>>) = 1
  <2>1. <<a>> = [i \in 1..1 |-> <<a>>[i]]
      OBVIOUS
  <2> QED BY <2>1, ListOf
<1>3. ASSUME NEW a, NEW b, NEW c PROVE IsList(<<a, b, c>>) /\ Len(<<a, b, c>>) = 3
  <2>1. <<a, b, c>> = [i \in 1..3 |-> <<a, b, c>>[i]]
      OBVIOUS
  <2> QED BY <2>1, ListOf
<1> QED BY <1>1, <1>2, <1>3, ListOf

\* What is left after each of some steps is as it is defined, and nothing else is.
LEMMA AheadIs ==
    ASSUME NEW reg, NEW steps, Len(steps) \in Nat
    PROVE  /\ Ahead(reg, steps)[0] = reg
           /\ \A k \in 1..Len(steps) :
                 Ahead(reg, steps)[k] = Perform(Ahead(reg, steps)[k - 1], steps[k])
<1> DEFINE n == Len(steps)
           Upto(m, f) == f = [k \in 0..m |-> IF k = 0 THEN reg ELSE Perform(f[k - 1], steps[k])]
           Bad == {m \in 0..n : \A f : ~Upto(m, f)}
<1>1. Bad = {}
  <2> SUFFICES ASSUME Bad # {} PROVE FALSE
      OBVIOUS
  <2>1. PICK m \in Bad : \A j \in Bad : m <= j
    <3>1. Bad \in SUBSET Nat
        OBVIOUS
    <3> HIDE DEF Bad
    <3> QED BY <3>1, Least
  <2>2. m \in 0..n /\ \A f : ~Upto(m, f)
      OBVIOUS
  <2>3. CASE m = 0
    <3> DEFINE f == [k \in 0..0 |-> reg]
    <3>1. Upto(0, f)
        OBVIOUS
    <3> HIDE DEF f, Upto
    <3> QED BY <2>2, <2>3, <3>1
  <2>4. CASE m # 0
    <3>1. m - 1 \in 0..n /\ m - 1 < m /\ m \in Nat
        BY <2>2, <2>4
    <3>2. m - 1 \notin Bad
      <4>1. ASSUME NEW j \in Bad PROVE m <= j
          BY <2>1
      <4> HIDE DEF Bad
      <4> QED BY <3>1, <4>1
    <3>3. PICK f : Upto(m - 1, f)
      <4> HIDE DEF Upto
      <4> QED BY <3>1, <3>2
    <3> DEFINE g == [k \in 0..m |-> IF k = m THEN Perform(f[m - 1], steps[m]) ELSE f[k]]
    <3>4. \A k \in 0..(m - 1) : f[k] = IF k = 0 THEN reg ELSE Perform(f[k - 1], steps[k])
        BY <3>3
    <3>5. \A k \in 0..m : g[k] = IF k = 0 THEN reg ELSE Perform(g[k - 1], steps[k])
      <4> TAKE k \in 0..m
      <4>1. CASE k = m
          BY <2>4, <3>1, <4>1
      <4>2. CASE k # m
        <5>1. k \in 0..(m - 1) /\ (k # 0 => k - 1 \in 0..m /\ k - 1 # m)
            BY <3>1, <4>2
        <5>2. g[k] = f[k] /\ (k # 0 => g[k - 1] = f[k - 1])
            BY <4>2, <5>1
        <5> QED BY <3>4, <5>1, <5>2
      <4> QED BY <4>1, <4>2
    <3>6. Upto(m, g)
      <4>1. g = [k \in 0..m |-> g[k]]
          OBVIOUS
      <4> HIDE DEF g
      <4> QED BY <3>5, <4>1
    <3> HIDE DEF g, Upto
    <3> QED BY <2>2, <3>6
  <2> QED BY <2>3, <2>4
<1>2. PICK f : Upto(n, f)
  <2>1. n \in 0..n
      OBVIOUS
  <2> HIDE DEF Upto
  <2> QED BY <1>1, <2>1
<1>3. Upto(n, Ahead(reg, steps))
  <2>1. Ahead(reg, steps) = CHOOSE g : Upto(n, g)
      BY DEF Ahead
  <2> HIDE DEF Upto
  <2> QED BY <1>2, <2>1
<1>4. \A k \in 0..n : Ahead(reg, steps)[k] =
          IF k = 0 THEN reg ELSE Perform(Ahead(reg, steps)[k - 1], steps[k])
    BY <1>3
<1> QED BY <1>4

LEMMA AheadOnly ==
    ASSUME NEW reg, NEW steps, Len(steps) \in Nat, NEW f, f[0] = reg,
           \A k \in 1..Len(steps) : f[k] = Perform(f[k - 1], steps[k])
    PROVE  \A k \in 0..Len(steps) : Ahead(reg, steps)[k] = f[k]
<1> DEFINE n == Len(steps)
           A == Ahead(reg, steps)
           Bad == {k \in 0..n : A[k] # f[k]}
<1> SUFFICES ASSUME Bad # {} PROVE FALSE
    OBVIOUS
<1>1. PICK m \in Bad : \A j \in Bad : m <= j
  <2>1. Bad \in SUBSET Nat
      OBVIOUS
  <2> HIDE DEF Bad
  <2> QED BY <2>1, Least
<1>2. A[0] = reg /\ \A k \in 1..n : A[k] = Perform(A[k - 1], steps[k])
  <2> QED BY AheadIs
<1>3. m \in 0..n /\ A[m] # f[m]
    OBVIOUS
<1>4. m \in 1..n /\ m - 1 \in 0..n /\ m - 1 < m
    BY <1>2, <1>3
<1>5. A[m - 1] = f[m - 1]
  <2>1. m - 1 \notin Bad
    <3>1. ASSUME NEW j \in Bad PROVE m <= j
        BY <1>1
    <3> HIDE DEF Bad
    <3> QED BY <1>4, <3>1
  <2> HIDE DEF A
  <2> QED BY <1>4, <2>1
<1> HIDE DEF A
<1> QED BY <1>2, <1>3, <1>4, <1>5

AllWork(reg) == \A key \in VerbRoots : Works(reg, key)

\* Some steps that leave no root broken on their way, and where they lead.
SafeTo(reg, steps, end) ==
    WorksThrough(reg, steps) /\ end = Ahead(reg, steps)[Len(steps)]

LEMMA NoSteps ==
    ASSUME NEW reg, AllWork(reg)
    PROVE  SafeTo(reg, <<>>, reg)
<1>1. Len(<<>>) = 0
    OBVIOUS
<1>2. Ahead(reg, <<>>)[0] = reg
    BY <1>1, AheadIs
<1> QED BY <1>1, <1>2 DEF SafeTo, WorksThrough, AllWork

\* A trail of registries, each of which works.
LEMMA Trail ==
    ASSUME NEW reg, NEW steps, Len(steps) \in Nat, NEW f, f[0] = reg,
           \A k \in 1..Len(steps) : f[k] = Perform(f[k - 1], steps[k]),
           \A k \in 0..Len(steps) : AllWork(f[k])
    PROVE  SafeTo(reg, steps, f[Len(steps)])
<1>1. \A k \in 0..Len(steps) : Ahead(reg, steps)[k] = f[k]
    BY AheadOnly
<1>2. Ahead(reg, steps)[Len(steps)] = f[Len(steps)]
    BY <1>1
<1>3. WorksThrough(reg, steps)
    BY <1>1 DEF WorksThrough, AllWork
<1> QED BY <1>2, <1>3 DEF SafeTo

LEMMA Joined ==
    ASSUME NEW s, IsList(s), NEW t, IsList(t), NEW a, NEW b, NEW c,
           SafeTo(a, s, b), SafeTo(b, t, c)
    PROVE  SafeTo(a, s \o t, c)
<1> DEFINE m == Len(s)
           n == Len(t)
           f == [k \in 0..(m + n) |-> IF k <= m THEN Ahead(a, s)[k] ELSE Ahead(b, t)[k - m]]
<1>1. /\ m \in Nat /\ n \in Nat /\ Len(s \o t) = m + n
      /\ \A k \in 1..m : (s \o t)[k] = s[k]
      /\ \A k \in (m + 1)..(m + n) : (s \o t)[k] = t[k - m]
    BY ListsJoined, ListIs
<1>2. /\ Ahead(a, s)[0] = a /\ \A k \in 1..m : Ahead(a, s)[k] = Perform(Ahead(a, s)[k - 1], s[k])
      /\ Ahead(b, t)[0] = b /\ \A k \in 1..n : Ahead(b, t)[k] = Perform(Ahead(b, t)[k - 1], t[k])
    BY <1>1, AheadIs
<1>3. Ahead(a, s)[m] = b /\ Ahead(b, t)[n] = c
    BY DEF SafeTo
<1>4. f[0] = a
    BY <1>1, <1>2
<1>5. ASSUME NEW k \in 1..(m + n)
      PROVE  f[k] = Perform(f[k - 1], (s \o t)[k])
  <2>1. CASE k <= m
    <3>1. k \in 1..m /\ f[k] = Ahead(a, s)[k] /\ f[k - 1] = Ahead(a, s)[k - 1]
        BY <1>1, <2>1
    <3> HIDE DEF f
    <3> QED BY <1>1, <1>2, <3>1
  <2>2. CASE k = m + 1
    <3>0. n >= 1
        BY <1>1, <2>2
    <3>1. 1 \in 1..n /\ k - m = 1 /\ k - 1 = m /\ k \in (m + 1)..(m + n) /\ 1 - 1 = 0
        BY <1>1, <2>2, <3>0
    <3>2. f[k] = Ahead(b, t)[1] /\ f[k - 1] = b
        BY <1>1, <1>3, <2>2, <3>1
    <3>3. Ahead(b, t)[1] = Perform(b, t[1])
        BY <1>2, <3>1
    <3> HIDE DEF f
    <3> QED BY <1>1, <3>1, <3>2, <3>3
  <2>3. CASE k > m + 1
    <3>1. k - m \in 1..n /\ (k - 1) - m = (k - m) - 1 /\ k \in (m + 1)..(m + n)
        BY <1>1, <2>3
    <3>2. f[k] = Ahead(b, t)[k - m] /\ f[k - 1] = Ahead(b, t)[(k - m) - 1]
        BY <1>1, <2>3, <3>1
    <3> HIDE DEF f
    <3> QED BY <1>1, <1>2, <3>1, <3>2
  <2> QED BY <1>1, <2>1, <2>2, <2>3
<1>6. ASSUME NEW k \in 0..(m + n)
      PROVE  AllWork(f[k])
  <2>1. CASE k <= m
    <3>1. k \in 0..m /\ f[k] = Ahead(a, s)[k]
        BY <1>1, <2>1
    <3> HIDE DEF f
    <3> QED BY <3>1 DEF SafeTo, WorksThrough, AllWork
  <2>2. CASE k > m
    <3>1. k - m \in 0..n /\ f[k] = Ahead(b, t)[k - m]
        BY <1>1, <2>2
    <3> HIDE DEF f
    <3> QED BY <3>1 DEF SafeTo, WorksThrough, AllWork
  <2> QED BY <1>1, <2>1, <2>2
<1>7. f[m + n] = c
  <2>1. CASE n = 0
      BY <1>1, <1>2, <1>3, <2>1
  <2>2. CASE n # 0
      BY <1>1, <1>3, <2>2
  <2> QED BY <2>1, <2>2
<1>8. SafeTo(a, s \o t, f[Len(s \o t)])
  <2> HIDE DEF f
  <2>1. Len(s \o t) \in Nat
      BY <1>1
  <2>2. \A k \in 1..Len(s \o t) : f[k] = Perform(f[k - 1], (s \o t)[k])
      BY <1>1, <1>5
  <2>3. \A k \in 0..Len(s \o t) : AllWork(f[k])
      BY <1>1, <1>6
  <2> QED BY <1>4, <2>1, <2>2, <2>3, Trail, Zenon
<1> QED BY <1>1, <1>7, <1>8

\* After its labelled step a plan is still safe, from where that step led.
LEMMA Stepped ==
    ASSUME NEW steps, IsList(steps), steps # <<>>, NEW reg, WorksThrough(reg, steps)
    PROVE  WorksThrough(Perform(reg, Head(steps)), Tail(steps))
<1> DEFINE n == Len(steps)
           f == [k \in 0..(n - 1) |-> Ahead(reg, steps)[k + 1]]
<1>1. /\ n \in Nat /\ n >= 1 /\ Len(Tail(steps)) = n - 1 /\ Head(steps) = steps[1]
      /\ \A k \in 1..(n - 1) : Tail(steps)[k] = steps[k + 1]
    BY ListIs, ListAfter
<1>2. /\ Ahead(reg, steps)[0] = reg
      /\ \A k \in 1..n : Ahead(reg, steps)[k] = Perform(Ahead(reg, steps)[k - 1], steps[k])
    BY <1>1, AheadIs
<1>3. f[0] = Perform(reg, Head(steps))
  <2>1. f[0] = Ahead(reg, steps)[1] /\ 1 \in 1..n /\ 1 - 1 = 0
      BY <1>1
  <2> HIDE DEF f
  <2> QED BY <1>1, <1>2, <2>1
<1>4. ASSUME NEW k \in 1..(n - 1)
      PROVE  f[k] = Perform(f[k - 1], Tail(steps)[k])
  <2>1. k + 1 \in 1..n /\ (k + 1) - 1 = k /\ (k - 1) + 1 = k
      BY <1>1
  <2>2. f[k] = Ahead(reg, steps)[k + 1] /\ f[k - 1] = Ahead(reg, steps)[k]
      BY <1>1, <2>1
  <2> HIDE DEF f
  <2> QED BY <1>1, <1>2, <2>1, <2>2
<1>5. ASSUME NEW k \in 0..(n - 1)
      PROVE  AllWork(f[k])
  <2>1. k + 1 \in 0..n
      BY <1>1
  <2> QED BY <2>1 DEF WorksThrough, AllWork
<1>6. SafeTo(Perform(reg, Head(steps)), Tail(steps), f[Len(Tail(steps))])
  <2> HIDE DEF f
  <2>1. Len(Tail(steps)) \in Nat
      BY <1>1
  <2>2. \A k \in 1..Len(Tail(steps)) : f[k] = Perform(f[k - 1], Tail(steps)[k])
      BY <1>1, <1>4
  <2>3. \A k \in 0..Len(Tail(steps)) : AllWork(f[k])
      BY <1>1, <1>5
  <2> QED BY <1>3, <2>1, <2>2, <2>3, Trail, Zenon
<1> QED BY <1>6 DEF SafeTo

LEMMA WorksNow ==
    ASSUME NEW steps, IsList(steps), NEW reg, WorksThrough(reg, steps)
    PROVE  AllWork(reg) /\ WorksThrough(reg, <<>>)
<1>1. Len(steps) \in Nat /\ 0 \in 0..Len(steps)
    BY ListIs
<1>2. AllWork(reg)
    BY <1>1, AheadIs DEF WorksThrough, AllWork
<1> QED BY <1>2, NoSteps DEF SafeTo

Bare(reg, key) == \A v \in reg : v.key # key
AlikeAt(a, b, key) == \A v : v.key = key => (v \in a <=> v \in b)

\* A container whose every entry starts something.
AllStart(reg, container) ==
    /\ \E v \in reg : v.key = container
    /\ \A v \in reg : v.key = container =>
          \E u \in reg : u.key = container /\ u.item = v.item /\ u.name = "command"

LEMMA BareWorks ==
    ASSUME NEW reg, NEW key, Bare(reg, key)
    PROVE  Works(reg, key)
BY DEF Bare, Works, Has

LEMMA WorksAlike ==
    ASSUME NEW a, NEW b, NEW key, AlikeAt(a, b, key), AlikeAt(a, b, Container(key)),
           Works(a, key)
    PROVE  Works(b, key)
<1>1. \A name : Has(a, key, name) <=> Has(b, key, name)
    BY DEF Has, AlikeAt
<1>2. {v \in a : v.key = Container(key)} = {v \in b : v.key = Container(key)}
    BY DEF AlikeAt
<1> HIDE DEF Has
<1> QED BY <1>1, <1>2, Zenon DEF Works

LEMMA VerbRootsAre ==
    /\ VerbRoots = {"files", "drives", "background", "files+", "drives+"}
    /\ "items" \notin VerbRoots /\ "items of background" \notin VerbRoots
    /\ \A key \in VerbRoots : Container(key) \in {"items", "items of background"}
BY DEF VerbRoots, Selections, Hoisted, Container

\* The keys the program owns, the roots before what they lead to.
LEMMA OwnedKeysAre ==
    /\ Len(OwnedKeys) = 7 /\ DOMAIN OwnedKeys = 1..7
    /\ \A key \in VerbRoots : \E i \in 1..5 : key = OwnedKeys[i]
    /\ OwnedKeys[6] = "items" /\ OwnedKeys[7] = "items of background"
    /\ \A i, j \in 1..7 : OwnedKeys[i] = OwnedKeys[j] => i = j
<1>1. Len(OwnedKeys) = 7 /\ DOMAIN OwnedKeys = 1..7
    BY DEF OwnedKeys
<1>2. /\ OwnedKeys[1] = "files" /\ OwnedKeys[2] = "drives" /\ OwnedKeys[3] = "background"
      /\ OwnedKeys[4] = "files+" /\ OwnedKeys[5] = "drives+"
      /\ OwnedKeys[6] = "items" /\ OwnedKeys[7] = "items of background"
    BY DEF OwnedKeys
<1>3. \A key \in VerbRoots : \E i \in 1..5 : key = OwnedKeys[i]
  <2> TAKE key \in VerbRoots
  <2>0. 1 \in 1..5 /\ 2 \in 1..5 /\ 3 \in 1..5 /\ 4 \in 1..5 /\ 5 \in 1..5
      OBVIOUS
  <2>1. \/ key = "files" \/ key = "drives" \/ key = "background"
        \/ key = "files+" \/ key = "drives+"
      BY VerbRootsAre
  <2> QED BY <1>2, <2>0, <2>1, Zenon
<1>4. ASSUME NEW i \in 1..7, NEW j \in 1..7, OwnedKeys[i] = OwnedKeys[j]
      PROVE  i = j
  <2>1. i = 1 \/ i = 2 \/ i = 3 \/ i = 4 \/ i = 5 \/ i = 6 \/ i = 7
      BY SMT
  <2>2. j = 1 \/ j = 2 \/ j = 3 \/ j = 4 \/ j = 5 \/ j = 6 \/ j = 7
      BY SMT
  <2>3. CASE i = 1
      BY <1>2, <1>4, <2>2, <2>3
  <2>4. CASE i = 2
      BY <1>2, <1>4, <2>2, <2>4
  <2>5. CASE i = 3
      BY <1>2, <1>4, <2>2, <2>5
  <2>6. CASE i = 4
      BY <1>2, <1>4, <2>2, <2>6
  <2>7. CASE i = 5
      BY <1>2, <1>4, <2>2, <2>7
  <2>8. CASE i = 6
      BY <1>2, <1>4, <2>2, <2>8
  <2>9. CASE i = 7
      BY <1>2, <1>4, <2>2, <2>9
  <2> QED BY <2>1, <2>3, <2>4, <2>5, <2>6, <2>7, <2>8, <2>9
<1> QED BY <1>1, <1>2, <1>3, <1>4

LEMMA UninstallIs ==
    /\ IsList(Uninstall) /\ Len(Uninstall) = 7
    /\ \A k \in 1..7 : Uninstall[k] = DeleteTree(OwnedKeys[k])
<1>1. Uninstall = [i \in 1..7 |-> DeleteTree(OwnedKeys[i])]
    BY OwnedKeysAre DEF Uninstall
<1>2. Uninstall = [i \in 1..7 |-> Uninstall[i]]
    BY <1>1
<1>3. 7 \in Nat
    OBVIOUS
<1>4. IsList(Uninstall) /\ Len(Uninstall) = 7
    BY <1>2, <1>3, ListOf, Zenon
<1> QED BY <1>1, <1>4

\* Taking the menu away: the roots go labelled, so none is ever without its entries.
LEMMA UninstallSafe ==
    ASSUME NEW reg, AllWork(reg)
    PROVE  \E end : /\ SafeTo(reg, Uninstall, end)
                    /\ \A key \in VerbRoots : Bare(end, key)
                    /\ Bare(end, "items") /\ Bare(end, "items of background")
<1> DEFINE f == [k \in 0..7 |-> {v \in reg : \A j \in 1..k : v.key # OwnedKeys[j]}]
<1>0. \A k \in 0..7 : f[k] = {v \in reg : \A j \in 1..k : v.key # OwnedKeys[j]}
    OBVIOUS
<1> HIDE DEF f
<1>1. f[0] = reg
  <2>1. 0 \in 0..7 /\ 1..0 = {}
      OBVIOUS
  <2> QED BY <1>0, <2>1
<1>2. ASSUME NEW k \in 1..7
      PROVE  f[k] = Perform(f[k - 1], Uninstall[k])
  <2>1. /\ Uninstall[k].key = OwnedKeys[k] /\ Uninstall[k].name = "tree"
      BY UninstallIs DEF DeleteTree, Set
  <2>2. Perform(f[k - 1], Uninstall[k]) = {v \in f[k - 1] : v.key # OwnedKeys[k]}
      BY <2>1 DEF Perform, Overwrites
  <2>3. k - 1 \in 0..7 /\ k \in 0..7 /\ \A j : j \in 1..k <=> j \in 1..(k - 1) \/ j = k
      OBVIOUS
  <2>4. f[k - 1] = {v \in reg : \A j \in 1..(k - 1) : v.key # OwnedKeys[j]}
      BY <1>0, <2>3
  <2>5. f[k] = {v \in reg : \A j \in 1..k : v.key # OwnedKeys[j]}
      BY <1>0, <2>3
  <2> QED BY <2>2, <2>3, <2>4, <2>5
<1>3. ASSUME NEW k \in 0..7, NEW key \in VerbRoots
      PROVE  Works(f[k], key)
  <2>1. PICK i \in 1..5 : key = OwnedKeys[i]
      BY OwnedKeysAre
  <2>2. CASE i <= k
    <3>1. Bare(f[k], key)
        BY <1>0, <2>1, <2>2 DEF Bare
    <3> QED BY <3>1, BareWorks
  <2>3. CASE k < i
    <3>1. ASSUME NEW v, NEW c, c = key \/ c = "items" \/ c = "items of background",
                 v.key = c
          PROVE  v \in reg <=> v \in f[k]
      <4>1. PICK h \in 1..7 : c = OwnedKeys[h] /\ h > k
        <5>1. i \in 1..7 /\ i > k /\ k \in Int /\ k < 5
            BY <2>3
        <5>3. 6 \in 1..7 /\ 7 \in 1..7 /\ 6 > k /\ 7 > k
            BY <5>1
        <5>2. c = OwnedKeys[i] \/ c = OwnedKeys[6] \/ c = OwnedKeys[7]
            BY <2>1, <3>1, OwnedKeysAre
        <5> QED BY <5>1, <5>2, <5>3
      <4>2. \A j \in 1..k : OwnedKeys[j] # c
        <5> TAKE j \in 1..k
        <5>1. j <= k /\ j >= 1 /\ j \in Int /\ k <= 7 /\ k \in Int
            OBVIOUS
        <5>2. j \in 1..7
            BY <5>1
        <5>3. j # h
            BY <4>1, <5>1
        <5> QED BY <4>1, <5>2, <5>3, OwnedKeysAre
      <4> QED BY <1>0, <3>1, <4>2
    <3>2. Container(key) \in {"items", "items of background"}
        BY VerbRootsAre
    <3>3. AlikeAt(reg, f[k], key) /\ AlikeAt(reg, f[k], Container(key))
        BY <3>1, <3>2 DEF AlikeAt
    <3> QED BY <3>3, WorksAlike DEF AllWork
  <2> QED BY <2>2, <2>3
<1>4. SafeTo(reg, Uninstall, f[7])
  <2>1. Len(Uninstall) \in Nat
      BY UninstallIs
  <2>2. \A k \in 1..Len(Uninstall) : f[k] = Perform(f[k - 1], Uninstall[k])
      BY <1>2, UninstallIs
  <2>3. \A k \in 0..Len(Uninstall) : AllWork(f[k])
      BY <1>3, UninstallIs DEF AllWork
  <2>4. SafeTo(reg, Uninstall, f[Len(Uninstall)])
      BY <1>1, <2>1, <2>2, <2>3, Trail, Zenon
  <2> QED BY <2>4, UninstallIs
<1>5. \A i \in 1..7 : Bare(f[7], OwnedKeys[i])
    BY <1>0 DEF Bare
<1>6. \A key \in VerbRoots : Bare(f[7], key)
  <2> TAKE key \in VerbRoots
  <2>1. PICK i \in 1..5 : key = OwnedKeys[i]
      BY OwnedKeysAre
  <2>2. i \in 1..7
      OBVIOUS
  <2> QED BY <1>5, <2>1, <2>2
<1>7. Bare(f[7], "items") /\ Bare(f[7], "items of background")
  <2>1. Bare(f[7], OwnedKeys[6]) /\ Bare(f[7], OwnedKeys[7])
      BY <1>5
  <2> QED BY <2>1, OwnedKeysAre
<1> QED BY <1>4, <1>6, <1>7

\* What a menu is made from.
ShellMenus == [fixed : SUBSET FixedEntries, presets : Seq(STRING), hoist : BOOLEAN]

LEMMA ItemsAre ==
    ASSUME NEW menu \in ShellMenus, NEW container
    PROVE  IsList(Items(menu, container))
<1> DEFINE Pair(f) == IF /\ f \in menu.fixed
                         /\ container = "items" \/ f = "start here"
                         /\ ~(Lifted(menu) /\ f = "free select")
                      THEN << <<0, f>> >> ELSE <<>>
           shown == IF Len(menu.presets) < MAX_PRESETS THEN Len(menu.presets) ELSE MAX_PRESETS
           tail == [k \in 1..shown |-> <<k, menu.presets[k]>>]
<1>1. \A f : IsList(Pair(f))
    BY ShortLists
<1>2. IsList(tail)
  <2>1. menu.presets \in Seq(STRING) /\ Len(menu.presets) \in Nat
      BY LenProperties DEF ShellMenus
  <2>2. shown \in Nat
      BY <2>1, MenuAssumption
  <2> HIDE DEF shown
  <2>3. tail = [k \in 1..shown |-> tail[k]]
      OBVIOUS
  <2> HIDE DEF tail
  <2> QED BY <2>2, <2>3, ListOf
<1> HIDE DEF tail
<1>4. Items(menu, container) = Pair("start here") \o Pair("free select") \o Pair("copy names") \o tail
    BY DEF Items, tail
<1> HIDE DEF Pair
<1> QED BY <1>1, <1>2, <1>4, ListsJoined

\* What holds of nothing, and of one more whenever it held before, holds to the end.
LEMMA OneByOne ==
    ASSUME NEW n \in Nat, NEW T, 0 \in T, \A k \in 1..n : k - 1 \in T => k \in T
    PROVE  \A k \in 0..n : k \in T
<1> DEFINE Bad == {k \in 0..n : k \notin T}
<1> SUFFICES ASSUME Bad # {} PROVE FALSE
    OBVIOUS
<1>1. PICK m \in Bad : \A k \in Bad : m <= k
  <2>1. Bad \in SUBSET Nat
      OBVIOUS
  <2> HIDE DEF Bad
  <2> QED BY <2>1, Least
<1>2. m \in 0..n /\ m \notin T
    OBVIOUS
<1>3. m \in 1..n /\ m - 1 \in 0..n /\ m - 1 < m
    BY <1>2
<1>4. m - 1 \notin Bad
  <2>1. ASSUME NEW k \in Bad PROVE m <= k
      BY <1>1
  <2> HIDE DEF Bad
  <2> QED BY <1>3, <2>1
<1> QED BY <1>2, <1>3, <1>4

\* An entry is written in two steps, its command last.
LEMMA FillIs ==
    ASSUME NEW menu \in ShellMenus, NEW container
    PROVE  LET F == Fill(menu, container)
           IN  /\ IsList(F) /\ Len(F) \in Nat
               /\ Len(Items(menu, container)) >= 2 => Len(F) >= 2
               /\ \A k \in 1..Len(F) :
                     /\ F[k].key = container
                     /\ \/ F[k].name = "command"
                        \/ /\ F[k].name = "label" /\ k + 1 \in 1..Len(F)
                           /\ F[k + 1].name = "command" /\ F[k + 1].item = F[k].item
<1> DEFINE F == Fill(menu, container)
           items == Items(menu, container)
           m == Len(items)
           n == IF m < 2 THEN 0 ELSE 2 * m
           Nth(k) == items[(k + 1) \div 2]
           Step(k) == Set(container, Nth(k), IF k % 2 = 1 THEN "label" ELSE "command", Nth(k)[2])
<1>1. m \in Nat
    BY ItemsAre, ListIs
<1>2. F = [k \in 1..n |-> Step(k)]
    BY DEF Fill
<1>3. n \in Nat /\ (m >= 2 => n >= 2)
    BY <1>1
<1>4. \A k \in 1..n : k % 2 = 1 => k + 1 \in 1..n /\ (k + 1) % 2 # 1 /\ (k + 2) \div 2 = (k + 1) \div 2
    BY <1>1
<1> HIDE DEF items, m, n, Step
<1>5. F = [k \in 1..n |-> F[k]]
    BY <1>2
<1>6. IsList(F) /\ Len(F) = n
    BY <1>3, <1>5, ListOf, Zenon
<1>7. \A k \in 1..n : F[k] = Step(k)
    BY <1>2
<1> HIDE DEF F
<1>8. ASSUME NEW k \in 1..n
      PROVE  /\ F[k].key = container
             /\ \/ F[k].name = "command"
                \/ /\ F[k].name = "label" /\ k + 1 \in 1..n
                   /\ F[k + 1].name = "command" /\ F[k + 1].item = F[k].item
  <2>1. CASE k % 2 = 1
    <3>1. k + 1 \in 1..n /\ (k + 1) % 2 # 1 /\ ((k + 1) + 1) \div 2 = (k + 1) \div 2
      <4>1. (k + 1) + 1 = k + 2
          OBVIOUS
      <4> QED BY <1>4, <2>1, <4>1
    <3>2. F[k] = Set(container, Nth(k), "label", Nth(k)[2])
        BY <1>7, <2>1 DEF Step
    <3>3. F[k + 1] = Set(container, Nth(k + 1), "command", Nth(k + 1)[2])
        BY <1>7, <3>1 DEF Step
    <3>4. Nth(k + 1) = Nth(k)
        BY <3>1
    <3> HIDE DEF Nth
    <3> QED BY <3>1, <3>2, <3>3, <3>4 DEF Set
  <2>2. CASE k % 2 # 1
    <3>1. F[k] = Set(container, Nth(k), "command", Nth(k)[2])
        BY <1>7, <2>2 DEF Step
    <3> HIDE DEF Nth
    <3> QED BY <3>1 DEF Set
  <2> QED BY <2>1, <2>2
<1> QED BY <1>3, <1>6, <1>8 DEF F, m, items

RootsAreBare(reg) == \A key \in VerbRoots : Bare(reg, key)

\* Filling a container that nothing leads to yet.
LEMMA FillSafe ==
    ASSUME NEW reg, RootsAreBare(reg), NEW menu \in ShellMenus,
           NEW container, container \notin VerbRoots, Bare(reg, container)
    PROVE  \E end :
              /\ SafeTo(reg, Fill(menu, container), end)
              /\ \A key : key # container => AlikeAt(reg, end, key)
              /\ Len(Items(menu, container)) >= 2 => AllStart(end, container)
<1> DEFINE F == Fill(menu, container)
           n == Len(F)
           A == Ahead(reg, F)
           HasStart(k, v) == \E u \in A[k] : u.key = container /\ u.item = v.item /\ u.name = "command"
           Sound(k) == /\ \A key : key # container => AlikeAt(reg, A[k], key)
                       /\ k # 0 => F[k] \in A[k]
                       /\ \A v \in A[k] : v.key = container =>
                             HasStart(k, v) \/ (k # 0 /\ F[k].name = "label" /\ v = F[k])
           T == {k \in 0..n : Sound(k)}
<1>1. n \in Nat /\ (Len(Items(menu, container)) >= 2 => n >= 2) /\ IsList(F)
    BY FillIs
<1>2. ASSUME NEW k \in 1..n
      PROVE  /\ F[k].key = container
             /\ \/ F[k].name = "command"
                \/ /\ F[k].name = "label" /\ k + 1 \in 1..n
                   /\ F[k + 1].name = "command" /\ F[k + 1].item = F[k].item
    BY FillIs
<1> HIDE DEF F, n
<1>3. A[0] = reg /\ \A k \in 1..n : A[k] = Perform(A[k - 1], F[k])
    BY <1>1, AheadIs DEF n
<1> HIDE DEF A
<1>4. 0 \in T
  <2>1. Sound(0)
      BY <1>3 DEF AlikeAt, Bare
  <2> HIDE DEF Sound
  <2> QED BY <1>1, <2>1
<1>5. ASSUME NEW k \in 1..n, k - 1 \in T
      PROVE  k \in T
  <2> DEFINE s == F[k]
  <2>1. Sound(k - 1) /\ k # 0
      BY <1>5
  <2>2. s.key = container /\ s.name # "tree" /\ (s.name = "command" \/ s.name = "label")
      BY <1>2
  <2>3. A[k] = {v \in A[k - 1] : ~Overwrites(s, v)} \cup {s}
      BY <1>3, <2>2 DEF Perform
  <2>4. s \in A[k]
      BY <2>3
  <2>5. ASSUME NEW key, key # container
        PROVE  AlikeAt(reg, A[k], key)
      BY <2>1, <2>2, <2>3, <2>5 DEF AlikeAt, Overwrites
  <2>6. ASSUME NEW v \in A[k], v.key = container
        PROVE  HasStart(k, v) \/ (s.name = "label" /\ v = s)
    <3>1. CASE v = s
        BY <2>2, <2>4, <3>1
    <3>2. CASE v # s
      <4>1. v \in A[k - 1]
          BY <2>3, <3>2
      <4>2. CASE HasStart(k - 1, v)
        <5>1. PICK u \in A[k - 1] : u.key = container /\ u.item = v.item /\ u.name = "command"
            BY <4>2
        <5>2. CASE Overwrites(s, u)
          <6>1. s.item = v.item /\ s.name = "command"
              BY <2>2, <5>1, <5>2 DEF Overwrites
          <6> QED BY <2>2, <2>4, <6>1
        <5>3. CASE ~Overwrites(s, u)
          <6>1. u \in A[k]
              BY <2>3, <5>3
          <6> QED BY <5>1, <6>1
        <5> QED BY <5>2, <5>3
      <4>3. CASE k - 1 # 0 /\ F[k - 1].name = "label" /\ v = F[k - 1]
        <5>0. k - 1 # 0
            BY <4>3
        <5>1. k - 1 \in 1..n /\ (k - 1) + 1 = k
            BY <1>1, <5>0
        <5>2. s.name = "command" /\ s.item = v.item
          <6>1. F[(k - 1) + 1].name = "command" /\ F[(k - 1) + 1].item = F[k - 1].item
              BY <1>2, <4>3, <5>1
          <6> QED BY <4>3, <5>1, <6>1
        <5> QED BY <2>2, <2>4, <5>2
      <4> QED BY <2>1, <2>6, <4>1, <4>2, <4>3
    <3> QED BY <3>1, <3>2
  <2>7. Sound(k)
      BY <2>1, <2>4, <2>5, <2>6
  <2>8. k \in 0..n
      BY <1>1
  <2> HIDE DEF Sound
  <2> QED BY <2>7, <2>8
<1>6. \A k \in 0..n : Sound(k)
  <2>1. \A k \in 0..n : k \in T
    <3> HIDE DEF T
    <3> QED BY <1>1, <1>4, <1>5, OneByOne
  <2> HIDE DEF Sound
  <2> QED BY <2>1
<1>7. \A k \in 0..n : AllWork(A[k])
  <2> SUFFICES ASSUME NEW k \in 0..n, NEW key \in VerbRoots
               PROVE  Works(A[k], key)
      BY DEF AllWork
  <2>1. AlikeAt(reg, A[k], key)
      BY <1>6
  <2>2. Bare(A[k], key)
      BY <2>1 DEF AlikeAt, Bare, RootsAreBare
  <2> QED BY <2>2, BareWorks
<1>8. SafeTo(reg, F, A[n])
  <2>1. A[Len(F)] = A[n] /\ Len(F) \in Nat
      BY <1>1 DEF n
  <2>2. WorksThrough(reg, F)
      BY <1>7 DEF WorksThrough, AllWork, A, n
  <2> QED BY <2>1, <2>2 DEF SafeTo, A
<1>9. n \in 0..n
    BY <1>1
<1>10. \A key : key # container => AlikeAt(reg, A[n], key)
    BY <1>6, <1>9
<1>11. ASSUME Len(Items(menu, container)) >= 2
       PROVE  AllStart(A[n], container)
  <2>1. n \in 1..n /\ n # 0
      BY <1>1, <1>11
  <2>2. F[n] \in A[n]
      BY <1>6, <1>9, <2>1
  <2>3. F[n].key = container /\ F[n].name # "label"
    <3>1. ~(n + 1 \in 1..n)
        BY <1>1
    <3> QED BY <1>2, <2>1, <3>1
  <2>4. ASSUME NEW v \in A[n], v.key = container
        PROVE  HasStart(n, v)
      BY <1>6, <1>9, <2>3, <2>4
  <2> QED BY <2>2, <2>3, <2>4 DEF AllStart
<1> QED BY <1>8, <1>10, <1>11 DEF F

\* A root is written where nothing is: it is marked, and so looked at, only at
\* its third step.
LEMMA RootWritten ==
    ASSUME NEW reg, AllWork(reg), NEW key \in VerbRoots, Bare(reg, key),
           NEW a, a.key = key, a.item = Own, a.name = "label",
           NEW b, b.key = key, b.item = Own, b.name = "command" \/ b.name = "submenu",
           NEW c, c.key = key, c.item = Own, c.name = "marker",
           b.name = "submenu" => AllStart(reg, Container(key))
    PROVE  \E end : /\ SafeTo(reg, <<a, b, c>>, end)
                    /\ \A other : other # key => AlikeAt(reg, end, other)
<1> DEFINE V1 == reg \cup {a}
           V2 == V1 \cup {b}
           V3 == V2 \cup {c}
           f == [k \in 0..3 |-> IF k = 0 THEN reg ELSE IF k = 1 THEN V1
                                ELSE IF k = 2 THEN V2 ELSE V3]
<1>1. V1 = Perform(reg, a)
    BY DEF Perform, Overwrites, Bare
<1>2. V2 = Perform(V1, b)
    BY DEF Perform, Overwrites, Bare
<1>3. V3 = Perform(V2, c)
    BY DEF Perform, Overwrites, Bare
<1>4. \A other : other # key =>
          AlikeAt(reg, V1, other) /\ AlikeAt(reg, V2, other) /\ AlikeAt(reg, V3, other)
    BY DEF AlikeAt
<1>5. Container(key) # key
    BY VerbRootsAre
<1>6. Works(V1, key) /\ Works(V2, key)
  <2>1. ~Has(V1, key, "marker") /\ ~Has(V2, key, "marker")
      BY DEF Has, Bare
  <2> QED BY <2>1 DEF Works
<1>7. Works(V3, key)
  <2>1. CASE b.name = "command"
    <3>1. ~Has(V3, key, "submenu") /\ Has(V3, key, "command")
        BY <2>1 DEF Has, Bare
    <3> QED BY <3>1 DEF Works
  <2>2. CASE b.name = "submenu"
    <3>1. ~Has(V3, key, "command") /\ Has(V3, key, "submenu")
        BY <2>2 DEF Has, Bare
    <3>2. AlikeAt(reg, V3, Container(key))
        BY <1>4, <1>5
    <3>3. /\ \E v \in reg : v.key = Container(key)
          /\ \A v \in reg : v.key = Container(key) =>
                \E u \in reg : u.key = Container(key) /\ u.item = v.item /\ u.name = "command"
        BY <2>2 DEF AllStart
    <3> DEFINE inside == {v \in V3 : v.key = Container(key)}
    <3>4. inside = {v \in reg : v.key = Container(key)}
        BY <3>2 DEF AlikeAt
    <3> HIDE DEF V3
    <3>5. /\ inside # {}
          /\ \A v \in inside : \E u \in inside : u.item = v.item /\ u.name = "command"
        BY <3>3, <3>4
    <3> QED BY <3>1, <3>5 DEF Works
  <2> QED BY <2>1, <2>2
<1> HIDE DEF V1, V2, V3
<1>8. ASSUME NEW V, Works(V, key), \A other : other # key => AlikeAt(reg, V, other)
      PROVE  AllWork(V)
  <2> SUFFICES ASSUME NEW root \in VerbRoots PROVE Works(V, root)
      BY DEF AllWork
  <2>1. CASE root = key
      BY <1>8, <2>1
  <2>2. CASE root # key
    <3>1. Container(root) # key
        BY VerbRootsAre
    <3>2. AlikeAt(reg, V, root) /\ AlikeAt(reg, V, Container(root)) /\ Works(reg, root)
        BY <1>8, <2>2, <3>1 DEF AllWork
    <3> QED BY <3>2, WorksAlike
  <2> QED BY <2>1, <2>2
<1>9. AllWork(V1) /\ AllWork(V2) /\ AllWork(V3)
    BY <1>4, <1>6, <1>7, <1>8
<1>10. f[0] = reg /\ f[1] = V1 /\ f[2] = V2 /\ f[3] = V3
    OBVIOUS
<1> HIDE DEF f
<1> DEFINE steps == <<a, b, c>>
<1>11. Len(steps) = 3 /\ steps[1] = a /\ steps[2] = b /\ steps[3] = c
    OBVIOUS
<1> HIDE DEF steps
<1>12. \A k \in 1..3 : f[k] = Perform(f[k - 1], steps[k])
  <2> TAKE k \in 1..3
  <2>1. (k = 1 /\ k - 1 = 0) \/ (k = 2 /\ k - 1 = 1) \/ (k = 3 /\ k - 1 = 2)
      OBVIOUS
  <2> QED BY <1>1, <1>2, <1>3, <1>10, <1>11, <2>1, Zenon
<1>13. \A k \in 0..3 : AllWork(f[k])
  <2> TAKE k \in 0..3
  <2>1. k = 0 \/ k = 1 \/ k = 2 \/ k = 3
      OBVIOUS
  <2> QED BY <1>9, <1>10, <2>1, Zenon
<1>14. SafeTo(reg, steps, f[3])
  <2>1. Len(steps) \in Nat
      BY <1>11
  <2>2. SafeTo(reg, steps, f[Len(steps)])
      BY <1>10, <1>11, <1>12, <1>13, <2>1, Trail
  <2> QED BY <1>11, <2>2
<1> QED BY <1>4, <1>10, <1>14 DEF steps

\* The menu as far as it is written: its containers, and these of its roots.
Ready(reg, menu, done) ==
    /\ AllWork(reg)
    /\ \A container \in {"items", "items of background"} :
          Len(Items(menu, container)) >= 2 => AllStart(reg, container)
    /\ \A key \in VerbRoots \ done : Bare(reg, key)

LEMMA AllStartAlike ==
    ASSUME NEW a, NEW b, NEW container, AllStart(a, container), AlikeAt(a, b, container)
    PROVE  AllStart(b, container)
BY DEF AllStart, AlikeAt

LEMMA StillReady ==
    ASSUME NEW reg, NEW menu, NEW done, Ready(reg, menu, done), NEW end,
           NEW key \in VerbRoots, AllWork(end),
           \A other : other # key => AlikeAt(reg, end, other)
    PROVE  Ready(end, menu, done \cup {key})
<1>1. \A container \in {"items", "items of background"} : AlikeAt(reg, end, container)
    BY VerbRootsAre
<1>2. ASSUME NEW container \in {"items", "items of background"},
             Len(Items(menu, container)) >= 2
      PROVE  AllStart(end, container)
  <2>1. AllStart(reg, container) /\ AlikeAt(reg, end, container)
      BY <1>1, <1>2 DEF Ready
  <2> QED BY <2>1, AllStartAlike
<1>3. ASSUME NEW root \in VerbRoots \ (done \cup {key})
      PROVE  Bare(end, root)
    BY <1>3 DEF Ready, Bare, AlikeAt
<1> QED BY <1>2, <1>3 DEF Ready

LEMMA SafeEnd ==
    ASSUME NEW reg, NEW steps, IsList(steps), NEW end, SafeTo(reg, steps, end)
    PROVE  AllWork(end)
<1>1. Len(steps) \in 0..Len(steps)
    BY ListIs
<1> QED BY <1>1 DEF SafeTo, WorksThrough, AllWork

LEMMA RootSafe ==
    ASSUME NEW reg, NEW menu \in ShellMenus, NEW done, Ready(reg, menu, done),
           NEW class \in {"files", "drives", "background"}, class \in VerbRoots \ done
    PROVE  /\ IsList(Root(menu, class))
           /\ \E end : /\ SafeTo(reg, Root(menu, class), end)
                       /\ Ready(end, menu, done \cup {class})
<1> DEFINE items == Items(menu, Container(class))
           marker == Set(class, Own, "marker", "1")
           labelled(text) == Set(class, Own, "label", text)
           command == Set(class, Own, "command", items[1][2])
           submenu == Set(class, Own, "submenu", Container(class))
<1>1. /\ AllWork(reg) /\ Bare(reg, class)
      /\ Container(class) \in {"items", "items of background"}
    BY VerbRootsAre DEF Ready
<1>2. CASE Len(items) = 0
  <2>1. Root(menu, class) = <<>>
      BY <1>2 DEF Root
  <2>2. Ready(reg, menu, done \cup {class})
      BY DEF Ready
  <2> QED BY <1>1, <2>1, <2>2, NoSteps, ShortLists
<1>3. CASE Len(items) = 1
  <2>1. Root(menu, class) = <<labelled(items[1][2]), command, marker>>
      BY <1>3 DEF Root
  <2>2. /\ labelled(items[1][2]).key = class /\ labelled(items[1][2]).item = Own
        /\ labelled(items[1][2]).name = "label"
        /\ command.key = class /\ command.item = Own /\ command.name = "command"
        /\ marker.key = class /\ marker.item = Own /\ marker.name = "marker"
      BY DEF Set
  <2>3. command.name = "submenu" => AllStart(reg, Container(class))
      BY <2>2
  <2> HIDE DEF items, labelled, command, marker
  <2>4. PICK end : /\ SafeTo(reg, <<labelled(items[1][2]), command, marker>>, end)
                   /\ \A other : other # class => AlikeAt(reg, end, other)
      BY <1>1, <2>2, <2>3, RootWritten, Zenon
  <2>5. IsList(Root(menu, class))
      BY <2>1, ShortLists
  <2>6. AllWork(end)
      BY <2>1, <2>4, <2>5, SafeEnd
  <2>7. Ready(end, menu, done \cup {class})
      BY <2>4, <2>6, StillReady
  <2> QED BY <2>1, <2>4, <2>5, <2>7
<1>4. CASE Len(items) # 0 /\ Len(items) # 1
  <2>1. Root(menu, class) = <<labelled("RenameIt"), submenu, marker>>
      BY <1>4 DEF Root
  <2>2. /\ labelled("RenameIt").key = class /\ labelled("RenameIt").item = Own
        /\ labelled("RenameIt").name = "label"
        /\ submenu.key = class /\ submenu.item = Own /\ submenu.name = "submenu"
        /\ marker.key = class /\ marker.item = Own /\ marker.name = "marker"
      BY DEF Set
  <2>0. Len(items) >= 2
    <3>1. Len(items) \in Nat
        BY ItemsAre, ListIs
    <3>2. \A n \in Nat : n # 0 /\ n # 1 => n >= 2
        OBVIOUS
    <3> HIDE DEF items
    <3> QED BY <1>4, <3>1, <3>2, Zenon
  <2>3. AllStart(reg, Container(class))
      BY <1>1, <2>0 DEF Ready
  <2> HIDE DEF items, labelled, submenu, marker
  <2>4. PICK end : /\ SafeTo(reg, <<labelled("RenameIt"), submenu, marker>>, end)
                   /\ \A other : other # class => AlikeAt(reg, end, other)
      BY <1>1, <2>2, <2>3, RootWritten, Zenon
  <2>5. IsList(Root(menu, class))
      BY <2>1, ShortLists
  <2>6. AllWork(end)
      BY <2>1, <2>4, <2>5, SafeEnd
  <2>7. Ready(end, menu, done \cup {class})
      BY <2>4, <2>6, StillReady
  <2> QED BY <2>1, <2>4, <2>5, <2>7
<1> QED BY <1>2, <1>3, <1>4

LEMMA HoistedSafe ==
    ASSUME NEW reg, NEW menu, NEW done, Ready(reg, menu, done),
           NEW class \in Selections, Hoisted(class) \in VerbRoots \ done
    PROVE  /\ IsList(HoistedRoot(menu, class))
           /\ \E end : /\ SafeTo(reg, HoistedRoot(menu, class), end)
                       /\ Ready(end, menu, done \cup {Hoisted(class)})
<1> DEFINE key == Hoisted(class)
           a == Set(key, Own, "label", "free select")
           b == Set(key, Own, "command", "free select")
           c == Set(key, Own, "marker", "1")
<1>1. AllWork(reg) /\ key \in VerbRoots /\ Bare(reg, key)
    BY DEF Ready
<1> HIDE DEF key
<1>2. CASE ~Lifted(menu)
  <2>1. HoistedRoot(menu, class) = <<>>
      BY <1>2 DEF HoistedRoot
  <2>2. Ready(reg, menu, done \cup {key})
      BY DEF Ready
  <2> QED BY <1>1, <2>1, <2>2, NoSteps, ShortLists DEF key
<1>3. CASE Lifted(menu)
  <2>1. HoistedRoot(menu, class) = <<a, b, c>>
      BY <1>3 DEF HoistedRoot, key
  <2>2. /\ a.key = key /\ a.item = Own /\ a.name = "label"
        /\ b.key = key /\ b.item = Own /\ b.name = "command"
        /\ c.key = key /\ c.item = Own /\ c.name = "marker"
      BY DEF Set
  <2>3. b.name = "submenu" => AllStart(reg, Container(key))
      BY <2>2
  <2> HIDE DEF a, b, c
  <2>4. PICK end : /\ SafeTo(reg, <<a, b, c>>, end)
                   /\ \A other : other # key => AlikeAt(reg, end, other)
      BY <1>1, <2>2, <2>3, RootWritten, Zenon
  <2>5. IsList(HoistedRoot(menu, class))
      BY <2>1, ShortLists
  <2>6. AllWork(end)
      BY <2>1, <2>4, <2>5, SafeEnd
  <2>7. Ready(end, menu, done \cup {key})
      BY <1>1, <2>4, <2>6, StillReady
  <2> QED BY <2>1, <2>4, <2>5, <2>7 DEF key
<1> QED BY <1>2, <1>3

\* The containers, filled one after the other.
LEMMA FillsSafe ==
    ASSUME NEW reg, NEW menu \in ShellMenus, RootsAreBare(reg),
           Bare(reg, "items"), Bare(reg, "items of background")
    PROVE  /\ IsList(Fills(menu))
           /\ \E end : SafeTo(reg, Fills(menu), end) /\ Ready(end, menu, {})
<1> DEFINE F == Fill(menu, "items")
           G == Fill(menu, "items of background")
<1>1. IsList(F) /\ IsList(G)
    BY FillIs
<1> HIDE DEF F, G
<1>2. PICK half1 : /\ SafeTo(reg, F, half1)
                   /\ \A key : key # "items" => AlikeAt(reg, half1, key)
                   /\ Len(Items(menu, "items")) >= 2 => AllStart(half1, "items")
    BY FillSafe, VerbRootsAre DEF F
<1>3. RootsAreBare(half1) /\ Bare(half1, "items of background")
    BY <1>2, VerbRootsAre DEF RootsAreBare, Bare, AlikeAt
<1>4. PICK end : /\ SafeTo(half1, G, end)
                 /\ \A key : key # "items of background" => AlikeAt(half1, end, key)
                 /\ Len(Items(menu, "items of background")) >= 2 =>
                       AllStart(end, "items of background")
    BY <1>3, FillSafe, VerbRootsAre DEF G
<1>5. SafeTo(reg, F \o G, end) /\ IsList(F \o G)
    BY <1>1, <1>2, <1>4, Joined, ListsJoined
<1>6. AllWork(end)
    BY <1>5, SafeEnd
<1>7. RootsAreBare(end)
    BY <1>3, <1>4, VerbRootsAre DEF RootsAreBare, Bare, AlikeAt
<1>8. Len(Items(menu, "items")) >= 2 => AllStart(end, "items")
  <2>1. AlikeAt(half1, end, "items")
      BY <1>4
  <2> QED BY <1>2, <2>1, AllStartAlike
<1>9. Ready(end, menu, {})
    BY <1>4, <1>6, <1>7, <1>8 DEF Ready, RootsAreBare
<1> QED BY <1>5, <1>9 DEF Fills, F, G

\* Writing the menu anew: what was there is taken away, the containers are filled,
\* and the roots that lead to them come last.
LEMMA BuildSafe ==
    ASSUME NEW reg, AllWork(reg), NEW menu \in ShellMenus
    PROVE  IsList(Build(menu)) /\ WorksThrough(reg, Build(menu))
<1> DEFINE R1 == Root(menu, "files")
           R2 == Root(menu, "drives")
           R3 == Root(menu, "background")
           R4 == HoistedRoot(menu, "files")
           R5 == HoistedRoot(menu, "drives")
           D1 == {} \cup {"files"}
           D2 == D1 \cup {"drives"}
           D3 == D2 \cup {"background"}
           D4 == D3 \cup {Hoisted("files")}
<1>0. /\ Hoisted("files") = "files+" /\ Hoisted("drives") = "drives+"
      /\ "files" \in Selections /\ "drives" \in Selections
    BY DEF Hoisted, Selections
<1>1. PICK e0 : /\ SafeTo(reg, Uninstall, e0) /\ RootsAreBare(e0)
                /\ Bare(e0, "items") /\ Bare(e0, "items of background")
    BY UninstallSafe DEF RootsAreBare
<1>2. IsList(Uninstall)
    BY UninstallIs
<1>3. IsList(Fills(menu))
    BY <1>1, FillsSafe
<1>4. PICK e1 : SafeTo(e0, Fills(menu), e1) /\ Ready(e1, menu, {})
    BY <1>1, FillsSafe
<1>5. "files" \in VerbRoots \ {}
    BY VerbRootsAre
<1>6. PICK e2 : SafeTo(e1, R1, e2) /\ Ready(e2, menu, D1) /\ IsList(R1)
    BY <1>4, <1>5, RootSafe
<1>7. "drives" \in VerbRoots \ D1
    BY VerbRootsAre
<1>8. PICK e3 : SafeTo(e2, R2, e3) /\ Ready(e3, menu, D2) /\ IsList(R2)
  <2> HIDE DEF D1
  <2> QED BY <1>6, <1>7, RootSafe
<1>9. "background" \in VerbRoots \ D2
    BY VerbRootsAre
<1>10. PICK e4 : SafeTo(e3, R3, e4) /\ Ready(e4, menu, D3) /\ IsList(R3)
  <2> HIDE DEF D2
  <2> QED BY <1>8, <1>9, RootSafe
<1>11. Hoisted("files") \in VerbRoots \ D3
    BY <1>0, VerbRootsAre
<1>12. PICK e5 : SafeTo(e4, R4, e5) /\ Ready(e5, menu, D4) /\ IsList(R4)
  <2> HIDE DEF D3
  <2> QED BY <1>0, <1>10, <1>11, HoistedSafe
<1>13. Hoisted("drives") \in VerbRoots \ D4
    BY <1>0, VerbRootsAre
<1>14. PICK e6 : SafeTo(e5, R5, e6) /\ IsList(R5)
  <2> HIDE DEF D4
  <2> QED BY <1>0, <1>12, <1>13, HoistedSafe
<1> HIDE DEF R1, R2, R3, R4, R5
<1>15. SafeTo(e1, R1 \o R2, e3) /\ IsList(R1 \o R2)
    BY <1>6, <1>8, Joined, ListsJoined
<1>16. SafeTo(e1, R1 \o R2 \o R3, e4) /\ IsList(R1 \o R2 \o R3)
    BY <1>10, <1>15, Joined, ListsJoined
<1>17. SafeTo(e1, R1 \o R2 \o R3 \o R4, e5) /\ IsList(R1 \o R2 \o R3 \o R4)
    BY <1>12, <1>16, Joined, ListsJoined
<1>18. SafeTo(e1, MenuRoots(menu), e6) /\ IsList(MenuRoots(menu))
    BY <1>14, <1>17, Joined, ListsJoined DEF MenuRoots, R1, R2, R3, R4, R5
<1>19. SafeTo(reg, Uninstall \o Fills(menu), e1) /\ IsList(Uninstall \o Fills(menu))
    BY <1>1, <1>2, <1>3, <1>4, Joined, ListsJoined
<1>20. SafeTo(reg, Build(menu), e6) /\ IsList(Build(menu))
    BY <1>18, <1>19, Joined, ListsJoined DEF Build
<1> QED BY <1>20 DEF SafeTo

LEMMA UninstallWorks ==
    ASSUME NEW reg, AllWork(reg)
    PROVE  IsList(Uninstall) /\ WorksThrough(reg, Uninstall)
BY UninstallIs, UninstallSafe DEF SafeTo

LEMMA ShellMenuIs ==
    ASSUME NEW ticked \in Menus \cup {Everything}, NEW names \in PresetLists
    PROVE  ShellMenu(ticked, names) \in ShellMenus
<1>1. ticked \in [fixed : SUBSET FixedEntries, presets : BOOLEAN, hoist : BOOLEAN]
  <2>1. Everything \in [fixed : SUBSET FixedEntries, presets : BOOLEAN, hoist : BOOLEAN]
    <3>1. FixedEntries \in SUBSET FixedEntries /\ TRUE \in BOOLEAN
        OBVIOUS
    <3> QED BY <3>1 DEF Everything
  <2> QED BY <2>1, MenuAssumption
<1>2. names \in Seq(STRING) /\ <<>> \in Seq(STRING)
    BY MenuAssumption
<1> QED BY <1>1, <1>2 DEF ShellMenu, ShellMenus

LEMMA RewriteSafe ==
    ASSUME NEW reg, AllWork(reg),
           NEW ticked \in Menus \cup {Everything}, NEW names \in PresetLists
    PROVE  /\ IsList(RewriteMenu(reg, ticked, names))
           /\ WorksThrough(reg, RewriteMenu(reg, ticked, names))
           /\ IsList(Build(ShellMenu(ticked, names)))
           /\ WorksThrough(reg, Build(ShellMenu(ticked, names)))
<1>1. /\ IsList(Build(ShellMenu(ticked, names)))
      /\ WorksThrough(reg, Build(ShellMenu(ticked, names)))
    BY ShellMenuIs, BuildSafe
<1>2. IsList(<<>>) /\ WorksThrough(reg, <<>>)
    BY NoSteps, ShortLists DEF SafeTo
<1> QED BY <1>1, <1>2 DEF RewriteMenu

\* One process has its plan changed, and nobody else is writing.
LEMMA OneDesk ==
    ASSUME MenuInv, NEW w \in Desks, NEW d, DeskOK(d),
           desk' = [desk EXCEPT ![w] = d],
           AllWork(registry'), WorksThrough(registry', d.todo),
           registry' = registry \/ Writing(w),
           d.todo # <<>> => \A v \in Desks \ {w} : ~Writing(v),
           listing' \in PresetLists, saved'.ticked \in Menus \cup {Everything}
    PROVE  MenuInv'
<1>1. /\ desk' = [v \in Desks |-> desk'[v]]
      /\ desk'[w] = d /\ \A v \in Desks \ {w} : desk'[v] = desk[v]
    BY DEF MenuInv
<1>2. ASSUME NEW v \in Desks
      PROVE  DeskOK(desk'[v]) /\ WorksThrough(registry', desk'[v].todo)
  <2>1. CASE v = w
      BY <1>1, <2>1, Zenon
  <2>2. CASE v # w
    <3>1. desk'[v] = desk[v] /\ DeskOK(desk[v]) /\ WorksThrough(registry, desk[v].todo)
        BY <1>1, <2>2 DEF MenuInv
    <3>2. CASE Writing(w)
      <4>1. desk[v].todo = <<>>
          BY <2>2, <3>2 DEF MenuInv, Writing
      <4>2. WorksThrough(registry', <<>>)
          BY NoSteps DEF SafeTo
      <4> QED BY <3>1, <4>1, <4>2, Zenon
    <3>3. CASE registry' = registry
        BY <3>1, <3>3, Zenon
    <3> QED BY <3>2, <3>3
  <2> QED BY <2>1, <2>2
<1>3. ASSUME NEW u \in Desks, NEW v \in Desks, desk'[u].todo # <<>>, desk'[v].todo # <<>>
      PROVE  u = v
  <2>1. CASE u = w \/ v = w
      BY <1>1, <1>3, <2>1 DEF Writing
  <2>2. CASE u # w /\ v # w
      BY <1>1, <1>3, <2>2 DEF Writing, MenuInv
  <2> QED BY <2>1, <2>2
<1>4. MarkedWorks'
    BY DEF MarkedWorks, AllWork
<1> QED BY <1>1, <1>2, <1>3, <1>4, Zenon DEF MenuInv, DeskOK, Writing

\* No process changes anything that matters here.
LEMMA NoDesk ==
    ASSUME MenuInv, registry' = registry, desk' = desk, listing' \in PresetLists,
           saved'.ticked \in Menus \cup {Everything}
    PROVE  MenuInv'
BY DEF MenuInv, DeskOK, Writing, MarkedWorks

LEMMA AllWorkNow ==
    ASSUME MenuInv, NEW w \in Desks
    PROVE  /\ AllWork(registry) /\ WorksThrough(registry, <<>>)
           /\ DeskOK(desk[w]) /\ IsList(desk[w].todo)
           /\ desk[w].ticked \in Menus \cup {Everything} /\ desk \in [Desks -> {desk[v] : v \in Desks}]
           /\ listing \in PresetLists /\ saved.ticked \in Menus \cup {Everything}
<1>1. /\ DeskOK(desk[w]) /\ WorksThrough(registry, desk[w].todo)
      /\ desk = [v \in Desks |-> desk[v]]
      /\ listing \in PresetLists /\ saved.ticked \in Menus \cup {Everything}
    BY DEF MenuInv
<1>2. IsList(desk[w].todo) /\ desk[w].ticked \in Menus \cup {Everything}
    BY <1>1 DEF DeskOK
<1>3. AllWork(registry) /\ WorksThrough(registry, <<>>)
    BY <1>1, <1>2, WorksNow
<1>4. desk \in [Desks -> {desk[v] : v \in Desks}]
    BY <1>1
<1> QED BY <1>1, <1>2, <1>3, <1>4

LEMMA TwoFields ==
    ASSUME NEW old, DeskOK(old), NEW m, NEW p
    PROVE  /\ [old EXCEPT !.todo = p]
                  = [at |-> old.at, menu |-> old.menu, ticked |-> old.ticked, todo |-> p]
           /\ [old EXCEPT !.menu = m, !.todo = p]
                  = [at |-> old.at, menu |-> m, ticked |-> old.ticked, todo |-> p]
<1> DEFINE once == [old EXCEPT !.menu = m]
<1>1. old = [at |-> old.at, menu |-> old.menu, ticked |-> old.ticked, todo |-> old.todo]
    BY DEF DeskOK
<1>2. [old EXCEPT !.todo = p] = [at |-> old.at, menu |-> old.menu, ticked |-> old.ticked, todo |-> p]
    BY <1>1
<1>3. once = [at |-> old.at, menu |-> m, ticked |-> old.ticked, todo |-> old.todo]
    BY <1>1
<1>4. [once EXCEPT !.todo = p] = [at |-> old.at, menu |-> m, ticked |-> old.ticked, todo |-> p]
  <2> HIDE DEF once
  <2> QED BY <1>3
<1>5. [old EXCEPT !.menu = m, !.todo = p] = [once EXCEPT !.todo = p]
    OBVIOUS
<1> QED BY <1>2, <1>4, <1>5

LEMMA ClosedIsOK == DeskOK(Closed)
BY ShortLists DEF DeskOK, Closed

\* What follows a plan, wherever it ended.
LEMMA OverSafe ==
    ASSUME MenuInv, NEW w \in Desks, NEW ok, NEW reg, AllWork(reg), Over(w, ok, reg)
    PROVE  \E d : DeskOK(d) /\ desk' = [desk EXCEPT ![w] = d] /\ WorksThrough(reg, d.todo)
<1> DEFINE old == desk[w]
           labelled == [at |-> "open", menu |-> IF ok THEN "yes" ELSE old.menu,
                     ticked |-> old.ticked, todo |-> RewriteMenu(reg, old.ticked, listing)]
           rest == [old EXCEPT !.todo = <<>>]
<1>1. /\ DeskOK(old) /\ old.ticked \in Menus \cup {Everything} /\ listing \in PresetLists
      /\ old = [at |-> old.at, menu |-> old.menu, ticked |-> old.ticked, todo |-> old.todo]
    BY AllWorkNow DEF DeskOK
<1>2. desk' = [desk EXCEPT ![w] = CASE old.at = "first start" -> labelled
                                     [] old.at = "tool" -> Closed
                                     [] OTHER -> rest]
    BY Zenon DEF Over
<1>3. WorksThrough(reg, <<>>) /\ IsList(<<>>)
    BY NoSteps, ShortLists DEF SafeTo
<1>4. DeskOK(labelled) /\ WorksThrough(reg, labelled.todo)
  <2>1. /\ IsList(RewriteMenu(reg, old.ticked, listing))
        /\ WorksThrough(reg, RewriteMenu(reg, old.ticked, listing))
      BY <1>1, RewriteSafe
  <2> DEFINE menu == IF ok THEN "yes" ELSE old.menu
  <2> HIDE DEF old, menu
  <2> QED BY <1>1, <2>1 DEF DeskOK
<1>5. DeskOK(rest) /\ rest.todo = <<>>
  <2>1. rest = [at |-> old.at, menu |-> old.menu, ticked |-> old.ticked, todo |-> <<>>]
      BY <1>1
  <2> HIDE DEF rest, old
  <2> QED BY <1>1, <1>3, <2>1 DEF DeskOK
<1>6. DeskOK(Closed) /\ Closed.todo = <<>>
    BY ClosedIsOK DEF Closed
<1> HIDE DEF labelled, rest
<1>7. CASE old.at = "first start"
  <2>1. desk' = [desk EXCEPT ![w] = labelled]
      BY <1>2, <1>7, Zenon
  <2> QED BY <1>4, <2>1
<1>8. CASE old.at # "first start" /\ old.at = "tool"
  <2>1. desk' = [desk EXCEPT ![w] = Closed]
      BY <1>2, <1>8, Zenon
  <2> QED BY <1>3, <1>6, <2>1
<1>9. CASE old.at # "first start" /\ old.at # "tool"
  <2>1. desk' = [desk EXCEPT ![w] = rest]
      BY <1>2, <1>9, Zenon
  <2> QED BY <1>3, <1>5, <2>1
<1> QED BY <1>7, <1>8, <1>9

LEMMA MenuStarts == ASSUME MenuInit PROVE MenuInv
<1>1. /\ registry = {} /\ listing \in PresetLists
      /\ saved.ticked = Everything /\ desk = [w \in Desks |-> Closed]
    BY DEF MenuInit
<1>2. AllWork({})
    BY BareWorks DEF AllWork, Bare
<1>3. WorksThrough({}, <<>>)
    BY <1>2, NoSteps DEF SafeTo
<1>4. \A w \in Desks : desk[w] = Closed
    BY <1>1
<1>5. Closed.todo = <<>>
    BY DEF Closed
<1>6. /\ desk = [w \in Desks |-> desk[w]]
      /\ \A w \in Desks : DeskOK(desk[w]) /\ WorksThrough(registry, desk[w].todo)
      /\ \A w \in Desks : desk[w].todo = <<>>
    BY <1>1, <1>3, <1>4, <1>5, ClosedIsOK
<1>7. MarkedWorks
    BY <1>1, <1>2 DEF MarkedWorks, AllWork
<1> HIDE DEF Closed
<1> QED BY <1>1, <1>6, <1>7 DEF MenuInv, Writing

LEMMA StartFromKeeps ==
    ASSUME ~Together, MenuInv, NEW w \in Desks, StartFrom(w)
    PROVE  MenuInv'
<1> DEFINE labelled == saved.menu = "unset" /\ offered /\ ~IsRegistered(registry)
           plan == IF labelled THEN Build(ShellMenu(saved.ticked, listing))
                   ELSE RewriteMenu(registry, saved.ticked, listing)
           d == [at |-> IF labelled THEN "first start" ELSE "open",
                 menu |-> saved.menu, ticked |-> saved.ticked, todo |-> plan]
<1>1. /\ desk' = [desk EXCEPT ![w] = d] /\ registry' = registry
      /\ listing' = listing /\ saved' = saved
      /\ \A v \in Desks : ~Writing(v)
    BY DEF StartFrom, MayWrite
<1>2. AllWork(registry) /\ saved.ticked \in Menus \cup {Everything} /\ listing \in PresetLists
    BY AllWorkNow
<1>3. IsList(plan) /\ WorksThrough(registry, plan)
    BY <1>2, RewriteSafe
<1> HIDE DEF labelled, plan
<1>4. DeskOK(d) /\ d.todo = plan
    BY <1>2, <1>3 DEF DeskOK
<1> HIDE DEF d
<1> QED BY <1>1, <1>2, <1>3, <1>4, OneDesk

LEMMA WritesKeeps ==
    ASSUME ~Together, MenuInv, NEW w \in Desks, Writes(w)
    PROVE  MenuInv'
<1> DEFINE old == desk[w]
           step == Head(old.todo)
           rest == Tail(old.todo)
<1>1. /\ Writing(w) /\ listing' = listing /\ saved' = saved
      /\ registry' = Perform(registry, step)
      /\ IF rest # <<>> THEN desk' = [desk EXCEPT ![w].todo = rest] ELSE Over(w, TRUE, registry')
    BY DEF Writes
<1>2. /\ DeskOK(old) /\ IsList(old.todo) /\ WorksThrough(registry, old.todo)
      /\ listing \in PresetLists /\ saved.ticked \in Menus \cup {Everything}
    BY AllWorkNow DEF MenuInv
<1>3. IsList(rest) /\ WorksThrough(registry', rest)
  <2>1. old.todo # <<>>
      BY <1>1 DEF Writing
  <2> QED BY <1>1, <1>2, <2>1, Stepped, ListAfter
<1>4. AllWork(registry')
    BY <1>3, WorksNow
<1>5. \A v \in Desks \ {w} : ~Writing(v)
    BY <1>1 DEF MenuInv
<1>6. \E d : DeskOK(d) /\ desk' = [desk EXCEPT ![w] = d] /\ WorksThrough(registry', d.todo)
  <2>1. CASE rest # <<>>
    <3> DEFINE d == [old EXCEPT !.todo = rest]
    <3>1. d = [at |-> old.at, menu |-> old.menu, ticked |-> old.ticked, todo |-> rest]
        BY <1>2, TwoFields, Zenon
    <3>2. desk' = [desk EXCEPT ![w] = d]
        BY <1>1, <2>1
    <3>3. DeskOK(d) /\ d.todo = rest
      <4> HIDE DEF d, rest, old
      <4> QED BY <1>2, <1>3, <3>1 DEF DeskOK
    <3> HIDE DEF d
    <3> QED BY <1>3, <3>2, <3>3
  <2>2. CASE rest = <<>>
    <3>1. Over(w, TRUE, registry')
        BY <1>1, <2>2
    <3> QED BY <1>4, <3>1, OverSafe
  <2> QED BY <2>1, <2>2
<1> QED BY <1>1, <1>2, <1>4, <1>5, <1>6, OneDesk

LEMMA RefusedKeeps ==
    ASSUME ~Together, MenuInv, NEW w \in Desks, Refused(w)
    PROVE  MenuInv'
<1>1. /\ Writing(w) /\ listing' = listing /\ saved' = saved /\ registry' = registry
      /\ Over(w, FALSE, registry)
    BY DEF Refused
<1>2. AllWork(registry) /\ listing \in PresetLists /\ saved.ticked \in Menus \cup {Everything}
    BY AllWorkNow
<1>3. \A v \in Desks \ {w} : ~Writing(v)
    BY <1>1 DEF MenuInv
<1>4. PICK d : DeskOK(d) /\ desk' = [desk EXCEPT ![w] = d] /\ WorksThrough(registry, d.todo)
    BY <1>1, <1>2, OverSafe
<1> QED BY <1>1, <1>2, <1>3, <1>4, OneDesk

LEMMA KilledKeeps ==
    ASSUME ~Together, MenuInv, NEW w \in Desks, Killed(w)
    PROVE  MenuInv'
<1>1. /\ listing' = listing /\ saved' = saved /\ registry' = registry
      /\ desk' = [desk EXCEPT ![w] = Closed]
    BY DEF Killed
<1>2. /\ AllWork(registry) /\ WorksThrough(registry, <<>>)
      /\ listing \in PresetLists /\ saved.ticked \in Menus \cup {Everything}
    BY AllWorkNow
<1>3. DeskOK(Closed) /\ Closed.todo = <<>>
    BY ClosedIsOK DEF Closed
<1> HIDE DEF Closed
<1> QED BY <1>1, <1>2, <1>3, OneDesk

LEMMA SavesKeeps ==
    ASSUME ~Together, MenuInv, NEW w \in Desks, Saves(w)
    PROVE  MenuInv'
<1>1. /\ listing' = listing /\ registry' = registry
      /\ saved' = [menu |-> desk[w].menu, ticked |-> desk[w].ticked]
      /\ desk' = [desk EXCEPT ![w] = Closed] \/ desk' = desk
    BY DEF Saves
<1>2. /\ AllWork(registry) /\ WorksThrough(registry, <<>>)
      /\ listing \in PresetLists /\ desk[w].ticked \in Menus \cup {Everything}
    BY AllWorkNow
<1>3. DeskOK(Closed) /\ Closed.todo = <<>>
    BY ClosedIsOK DEF Closed
<1>4. saved'.ticked \in Menus \cup {Everything}
    BY <1>1, <1>2
<1> HIDE DEF Closed
<1>5. CASE desk' = desk
    BY <1>1, <1>2, <1>4, <1>5, NoDesk
<1>6. CASE desk' = [desk EXCEPT ![w] = Closed]
    BY <1>1, <1>2, <1>3, <1>4, <1>6, OneDesk
<1> QED BY <1>1, <1>5, <1>6

\* A desk that is idle, while nobody writes, takes a safe plan in hand.
LEMMA TakesPlan ==
    ASSUME MenuInv, NEW w \in Desks, NEW d, NEW plan, NEW ticked \in Menus \cup {Everything},
           \A v \in Desks : ~Writing(v),
           d.ticked = ticked, d.todo = plan,
           d = [at |-> d.at, menu |-> d.menu, ticked |-> d.ticked, todo |-> d.todo],
           IsList(plan), WorksThrough(registry, plan),
           desk' = [desk EXCEPT ![w] = d], registry' = registry,
           listing' \in PresetLists, saved' = saved
    PROVE  MenuInv'
<1>1. AllWork(registry) /\ saved.ticked \in Menus \cup {Everything}
    BY AllWorkNow
<1>2. DeskOK(d)
    BY DEF DeskOK
<1> QED BY <1>1, <1>2, OneDesk

LEMMA DrawerChangesKeeps ==
    ASSUME ~Together, MenuInv, NEW w \in Desks, DrawerChanges(w)
    PROVE  MenuInv'
<1> DEFINE old == desk[w]
           plan == RewriteMenu(registry, old.ticked, listing')
           d == [old EXCEPT !.todo = plan]
<1>1. /\ registry' = registry /\ saved' = saved /\ listing' \in PresetLists
      /\ \A v \in Desks : ~Writing(v)
      /\ desk' = [desk EXCEPT ![w] = d]
    BY DEF DrawerChanges, Acts, MayWrite
<1>2. AllWork(registry) /\ DeskOK(old) /\ old.ticked \in Menus \cup {Everything}
    BY AllWorkNow
<1>3. IsList(plan) /\ WorksThrough(registry, plan)
    BY <1>1, <1>2, RewriteSafe
<1>4. d = [at |-> old.at, menu |-> old.menu, ticked |-> old.ticked, todo |-> plan]
    BY <1>2 DEF DeskOK
<1> HIDE DEF d, plan, old
<1> QED BY <1>1, <1>2, <1>3, <1>4, TakesPlan

LEMMA SetContextMenuKeeps ==
    ASSUME ~Together, MenuInv, NEW w \in Desks, SetContextMenu(w)
    PROVE  MenuInv'
<1> DEFINE old == desk[w]
           off == [old EXCEPT !.menu = "no", !.todo = Uninstall]
           plan == Build(ShellMenu(old.ticked, listing))
           on == [old EXCEPT !.menu = "yes", !.todo = plan]
<1>1. /\ registry' = registry /\ saved' = saved /\ listing' = listing
      /\ \A v \in Desks : ~Writing(v)
      /\ desk' = [desk EXCEPT ![w] = IF IsRegistered(registry) THEN off ELSE on]
    BY DEF SetContextMenu, Acts, MayWrite
<1>2. /\ AllWork(registry) /\ DeskOK(old) /\ old.ticked \in Menus \cup {Everything}
      /\ listing \in PresetLists
    BY AllWorkNow
<1>3. IsList(plan) /\ WorksThrough(registry, plan)
    BY <1>2, RewriteSafe
<1>4. IsList(Uninstall) /\ WorksThrough(registry, Uninstall)
    BY <1>2, UninstallWorks
<1>5. on = [at |-> old.at, menu |-> "yes", ticked |-> old.ticked, todo |-> plan]
    BY <1>2, TwoFields, Zenon
<1>6. off = [at |-> old.at, menu |-> "no", ticked |-> old.ticked, todo |-> Uninstall]
    BY <1>2, TwoFields, Zenon
<1> HIDE DEF on, off, plan, old
<1>7. CASE IsRegistered(registry)
    BY <1>1, <1>2, <1>4, <1>6, <1>7, TakesPlan
<1>8. CASE ~IsRegistered(registry)
    BY <1>1, <1>2, <1>3, <1>5, <1>8, TakesPlan
<1> QED BY <1>7, <1>8

LEMMA TickEntriesKeeps ==
    ASSUME ~Together, MenuInv, NEW w \in Desks, TickEntries(w)
    PROVE  MenuInv'
<1>1. PICK m \in Menus :
          desk' = [desk EXCEPT ![w].ticked = m, ![w].todo = Build(ShellMenu(m, listing))]
    BY DEF TickEntries
<1> DEFINE old == desk[w]
           plan == Build(ShellMenu(m, listing))
           d == [at |-> old.at, menu |-> old.menu, ticked |-> m, todo |-> plan]
<1>2. /\ registry' = registry /\ saved' = saved /\ listing' = listing
      /\ \A v \in Desks : ~Writing(v)
    BY DEF TickEntries, Acts, MayWrite
<1>3. /\ AllWork(registry) /\ DeskOK(old) /\ listing \in PresetLists
      /\ desk \in [Desks -> {desk[v] : v \in Desks}]
    BY AllWorkNow
<1>4. IsList(plan) /\ WorksThrough(registry, plan)
    BY <1>3, RewriteSafe
<1>5. old = [at |-> old.at, menu |-> old.menu, ticked |-> old.ticked, todo |-> old.todo]
    BY <1>3 DEF DeskOK
<1> HIDE DEF plan
<1>6. desk' = [desk EXCEPT ![w] = d]
  <2> DEFINE once == [desk EXCEPT ![w] = [old EXCEPT !.ticked = m]]
  <2>1. desk' = [once EXCEPT ![w] = [once[w] EXCEPT !.todo = plan]]
      BY <1>1 DEF plan
  <2>2. once[w] = [at |-> old.at, menu |-> old.menu, ticked |-> m, todo |-> old.todo]
      BY <1>3, <1>5
  <2>3. [once[w] EXCEPT !.todo = plan] = d
    <3> HIDE DEF once, old
    <3> QED BY <2>2
  <2>4. [once EXCEPT ![w] = d] = [desk EXCEPT ![w] = d]
    <3> HIDE DEF d
    <3> QED BY <1>3
  <2> HIDE DEF once, d
  <2> QED BY <2>1, <2>3, <2>4
<1> HIDE DEF old
<1> QED BY <1>2, <1>3, <1>4, <1>6, TakesPlan

LEMMA ToolKeeps ==
    ASSUME ~Together, MenuInv, NEW w \in Desks, NEW steps, IsList(steps),
           WorksThrough(registry, steps), Tool(w, steps)
    PROVE  MenuInv'
<1> DEFINE old == desk[w]
           d == [at |-> "tool", menu |-> old.menu, ticked |-> old.ticked, todo |-> steps]
<1>1. desk' = [desk EXCEPT ![w].at = "tool", ![w].todo = steps]
    BY DEF Tool
<1>2. /\ registry' = registry /\ saved' = saved /\ listing' = listing
      /\ \A v \in Desks : ~Writing(v)
    BY DEF Tool, MayWrite
<1>3. /\ DeskOK(old) /\ old.ticked \in Menus \cup {Everything} /\ listing \in PresetLists
      /\ desk \in [Desks -> {desk[v] : v \in Desks}]
    BY AllWorkNow
<1>4. old = [at |-> old.at, menu |-> old.menu, ticked |-> old.ticked, todo |-> old.todo]
    BY <1>3 DEF DeskOK
<1>5. desk' = [desk EXCEPT ![w] = d]
  <2> DEFINE once == [desk EXCEPT ![w] = [old EXCEPT !.at = "tool"]]
  <2>1. desk' = [once EXCEPT ![w] = [once[w] EXCEPT !.todo = steps]]
      BY <1>1
  <2>2. once[w] = [at |-> "tool", menu |-> old.menu, ticked |-> old.ticked, todo |-> old.todo]
      BY <1>3, <1>4
  <2>3. [once[w] EXCEPT !.todo = steps] = d
    <3> HIDE DEF once, old
    <3> QED BY <2>2
  <2>4. [once EXCEPT ![w] = d] = [desk EXCEPT ![w] = d]
    <3> HIDE DEF d
    <3> QED BY <1>3
  <2> HIDE DEF once, d
  <2> QED BY <2>1, <2>3, <2>4
<1> HIDE DEF old
<1> QED BY <1>2, <1>3, <1>5, TakesPlan

LEMMA InstallMenuKeeps ==
    ASSUME ~Together, MenuInv, NEW w \in Desks, InstallMenu(w)
    PROVE  MenuInv'
<1>1. AllWork(registry) /\ listing \in PresetLists /\ Everything \in Menus \cup {Everything}
    BY AllWorkNow
<1>2. /\ IsList(Build(ShellMenu(Everything, listing)))
      /\ WorksThrough(registry, Build(ShellMenu(Everything, listing)))
    BY <1>1, RewriteSafe
<1> QED BY <1>2, ToolKeeps DEF InstallMenu

LEMMA ReleaseContextMenuKeeps ==
    ASSUME ~Together, MenuInv, NEW w \in Desks, ReleaseContextMenu(w)
    PROVE  MenuInv'
<1>1. AllWork(registry)
    BY AllWorkNow
<1>2. IsList(Uninstall) /\ WorksThrough(registry, Uninstall)
    BY <1>1, UninstallWorks
<1> QED BY <1>2, ToolKeeps DEF ReleaseContextMenu

\* No step, refused or cut off where it may be, leaves a plan in hand that could not
\* go on or be left as it is, as long as no two processes write the menu at a time
\* (shell/plan.rs and shell/apply.rs).
THEOREM MenuInductive == ASSUME ~Together PROVE MenuSpec => []MenuInv
<1>1. MenuInit => MenuInv
    BY MenuStarts
<1>2. MenuInv /\ [MenuNext]_menuVars => MenuInv'
  <2> SUFFICES ASSUME MenuInv, [MenuNext]_menuVars PROVE MenuInv'
      OBVIOUS
  <2>1. ASSUME NEW w \in Desks,
               \/ StartFrom(w) \/ Writes(w) \/ Refused(w) \/ Killed(w) \/ Saves(w)
               \/ DrawerChanges(w) \/ SetContextMenu(w) \/ TickEntries(w)
               \/ InstallMenu(w) \/ ReleaseContextMenu(w)
        PROVE  MenuInv'
      BY <2>1, StartFromKeeps, WritesKeeps, RefusedKeeps, KilledKeeps, SavesKeeps,
         DrawerChangesKeeps, SetContextMenuKeeps, TickEntriesKeeps, InstallMenuKeeps,
         ReleaseContextMenuKeeps
  <2>2. ASSUME PresetsChange PROVE MenuInv'
    <3>1. /\ registry' = registry /\ desk' = desk /\ saved' = saved
          /\ listing' \in PresetLists /\ saved.ticked \in Menus \cup {Everything}
        BY <2>2 DEF PresetsChange, MenuInv
    <3> QED BY <3>1, NoDesk
  <2>3. ASSUME UNCHANGED menuVars PROVE MenuInv'
      BY <2>3 DEF menuVars, MenuInv, DeskOK, Writing, MarkedWorks
  <2> QED BY <2>1, <2>2, <2>3 DEF MenuNext
<1> QED BY <1>1, <1>2, PTL DEF MenuSpec

\* MarkedWorks: whatever was cut off half way and written over later, a root of the
\* menu that is marked as whole is one entry or leads to entries that start, as long
\* as no two processes write the menu at a time (shell/plan.rs, build).
THEOREM MarkedWorksHolds == ASSUME ~Together PROVE MenuSpec => []MarkedWorks
<1>1. MenuInv => MarkedWorks
    BY DEF MenuInv
<1> QED BY <1>1, MenuInductive, PTL
==============================================================================
