---------------------------- MODULE JournalsProofs ----------------------------
(***************************************************************************)
(* What holds of the folder of journals for any number of windows and of   *)
(* command-line runs, under any clock, and however many of them are killed,*)
(* refused a write, or have their journals deleted.                        *)
(***************************************************************************)
EXTENDS Journals, SequenceTheorems, TLAPS

-----------------------------------------------------------------------------
(* What a run leaves in its journal.                                       *)

Kinds(lines) == {lines[i] : i \in DOMAIN lines}

\* A sequence with one more at its end, told by its elements.
LEMMA AppendIs ==
    ASSUME NEW S, NEW s \in Seq(S), NEW t \in Seq(S), NEW x \in S,
           Len(t) = Len(s) + 1, t[Len(s) + 1] = x, \A i \in 1..Len(s) : t[i] = s[i]
    PROVE  Append(s, x) = t
<1>1. /\ Append(s, x) \in Seq(S) /\ Len(Append(s, x)) = Len(t)
      /\ \A i \in 1..Len(t) : Append(s, x)[i] = t[i]
    BY AppendProperties
<1> QED BY <1>1, SeqEqual

LEMMA OneMore ==
    ASSUME NEW a, NEW b, NEW x
    PROVE  /\ Append(<<>>, x) = <<x>>
           /\ Append(<<a>>, x) = <<a, x>>
           /\ Append(<<a, b>>, x) = <<a, b, x>>
<1>1. Append(<<>>, x) = <<x>>
    BY AppendIs
<1>2. Append(<<a>>, x) = <<a, x>>
  <2>1. /\ Len(<<a>>) = 1 /\ Len(<<a, x>>) = 2 /\ <<a, x>>[2] = x
        /\ \A i \in 1..1 : <<a, x>>[i] = <<a>>[i]
        /\ <<a>> \in Seq({a, x}) /\ <<a, x>> \in Seq({a, x})
      OBVIOUS
  <2>2. x \in {a, x} /\ Len(<<a, x>>) = Len(<<a>>) + 1
      BY <2>1
  <2>3. <<a, x>>[Len(<<a>>) + 1] = x /\ \A i \in 1..Len(<<a>>) : <<a, x>>[i] = <<a>>[i]
      BY <2>1
  <2> QED BY <2>1, <2>2, <2>3, AppendIs, Zenon
<1>3. Append(<<a, b>>, x) = <<a, b, x>>
  <2>1. /\ Len(<<a, b>>) = 2 /\ Len(<<a, b, x>>) = 3 /\ <<a, b, x>>[3] = x
        /\ \A i \in 1..2 : <<a, b, x>>[i] = <<a, b>>[i]
        /\ <<a, b>> \in Seq({a, b, x}) /\ <<a, b, x>> \in Seq({a, b, x})
      OBVIOUS
  <2>2. x \in {a, b, x} /\ Len(<<a, b, x>>) = Len(<<a, b>>) + 1
      BY <2>1
  <2>3. <<a, b, x>>[Len(<<a, b>>) + 1] = x /\ \A i \in 1..Len(<<a, b>>) : <<a, b, x>>[i] = <<a, b>>[i]
      BY <2>1
  <2> QED BY <2>1, <2>2, <2>3, AppendIs, Zenon
<1> QED BY <1>1, <1>2, <1>3

LEMMA FourthIs ==
    ASSUME NEW a, NEW b, NEW c, NEW x
    PROVE  Append(<<a, b, c>>, x) = <<a, b, c, x>>
<1>1. /\ Len(<<a, b, c>>) = 3 /\ Len(<<a, b, c, x>>) = 4 /\ <<a, b, c, x>>[4] = x
      /\ \A i \in 1..3 : <<a, b, c, x>>[i] = <<a, b, c>>[i]
      /\ <<a, b, c>> \in Seq({a, b, c, x}) /\ <<a, b, c, x>> \in Seq({a, b, c, x})
    OBVIOUS
<1>2. x \in {a, b, c, x} /\ Len(<<a, b, c, x>>) = Len(<<a, b, c>>) + 1
    BY <1>1
<1>3. /\ <<a, b, c, x>>[Len(<<a, b, c>>) + 1] = x
      /\ \A i \in 1..Len(<<a, b, c>>) : <<a, b, c, x>>[i] = <<a, b, c>>[i]
    BY <1>1
<1> QED BY <1>1, <1>2, <1>3, AppendIs, Zenon

\* A record appended to what a run has written so far is the next of its records.
LEMMA RunsOn ==
    ASSUME NEW lines, Running(lines), NEW kind \in NextKinds(lines)
    PROVE  /\ Running(Append(lines, kind))
           /\ Kinds(Append(lines, kind)) = Kinds(lines) \cup {kind}
<1>1. CASE lines = <<>>
  <2>1. kind = "begin"
      BY <1>1 DEF NextKinds
  <2>2. Append(lines, kind) = <<"begin">>
      BY <1>1, <2>1, OneMore
  <2>3. Kinds(lines) = {}
      BY <1>1 DEF Kinds
  <2>4. Kinds(<<"begin">>) = {"begin"}
      BY DEF Kinds
  <2> QED BY <2>1, <2>2, <2>3, <2>4, Zenon DEF Running
<1>2. CASE lines = <<"begin">>
  <2>1. kind \in {"plan", "tags"}
      BY <1>2 DEF NextKinds
  <2>2. Append(lines, kind) = <<"begin", kind>>
      BY <1>2, OneMore
  <2>3. Kinds(lines) = {"begin"}
      BY <1>2 DEF Kinds
  <2>4. Kinds(<<"begin", kind>>) = {"begin", kind}
      BY DEF Kinds
  <2> QED BY <2>1, <2>2, <2>3, <2>4, Zenon DEF Running
<1>3. ASSUME NEW x \in {"plan", "tags"}, lines = <<"begin", x>>
      PROVE  /\ Running(Append(lines, kind))
             /\ Kinds(Append(lines, kind)) = Kinds(lines) \cup {kind}
  <2>1. kind \in {"done", "failed"}
      BY <1>3 DEF NextKinds
  <2>2. Append(lines, kind) = <<"begin", x, kind>>
      BY <1>3, OneMore
  <2>3. Kinds(lines) = {"begin", x}
      BY <1>3 DEF Kinds
  <2>4. Kinds(<<"begin", x, kind>>) = {"begin", x, kind}
      BY DEF Kinds
  <2> QED BY <2>1, <2>2, <2>3, <2>4, Zenon DEF Running
<1>4. ASSUME NEW x \in {"plan", "tags"}, NEW y \in {"done", "failed"}, lines = <<"begin", x, y>>
      PROVE  /\ Running(Append(lines, kind))
             /\ Kinds(Append(lines, kind)) = Kinds(lines) \cup {kind}
  <2>1. kind = "commit"
      BY <1>4 DEF NextKinds
  <2>2. Append(lines, kind) = <<"begin", x, y, "commit">>
    <3>1. Append(<<"begin", x, y>>, "commit") = <<"begin", x, y, "commit">>
        BY FourthIs, Zenon
    <3> QED BY <1>4, <2>1, <3>1
  <2>3. Kinds(lines) = {"begin", x, y}
      BY <1>4 DEF Kinds
  <2>4. Kinds(<<"begin", x, y, "commit">>) = {"begin", x, y, "commit"}
      BY DEF Kinds
  <2> QED BY <2>1, <2>2, <2>3, <2>4, Zenon DEF Running
<1>5. ASSUME NEW x \in {"plan", "tags"}, NEW y \in {"done", "failed"},
             lines = <<"begin", x, y, "commit">>
      PROVE  FALSE
    BY <1>5 DEF NextKinds
<1> QED BY <1>1, <1>2, <1>3, <1>4, <1>5 DEF Running

\* A run of a rename that has written as much as its change stands on one of three lines.
LEMMA RunIsWhole ==
    ASSUME NEW lines, Running(lines), "plan" \in Kinds(lines)
    PROVE  /\ "done" \in Kinds(lines) => lines \in Whole
           /\ "done" \in NextKinds(lines) => lines = <<"begin", "plan">>
<1>1. CASE lines \in {<<>>, <<"begin">>}
  <2>1. Kinds(lines) \subseteq {"begin"}
      BY <1>1 DEF Kinds
  <2> QED BY <2>1
<1>2. ASSUME NEW x \in {"plan", "tags"}, lines = <<"begin", x>>
      PROVE  lines \in Whole /\ lines = <<"begin", "plan">>
  <2>1. Kinds(lines) = {"begin", x}
      BY <1>2 DEF Kinds
  <2>2. x = "plan"
      BY <2>1
  <2> QED BY <1>2, <2>2 DEF Whole
<1>3. ASSUME NEW x \in {"plan", "tags"}, NEW y \in {"done", "failed"}, lines = <<"begin", x, y>>
      PROVE  /\ "done" \in Kinds(lines) => lines \in Whole
             /\ "done" \notin NextKinds(lines)
  <2>1. Kinds(lines) = {"begin", x, y}
      BY <1>3 DEF Kinds
  <2>2. x = "plan"
      BY <2>1
  <2>3. "done" \notin NextKinds(lines)
      BY <1>3 DEF NextKinds
  <2> QED BY <1>3, <2>1, <2>2, <2>3 DEF Whole
<1>4. ASSUME NEW x \in {"plan", "tags"}, NEW y \in {"done", "failed"},
             lines = <<"begin", x, y, "commit">>
      PROVE  /\ "done" \in Kinds(lines) => lines \in Whole
             /\ "done" \notin NextKinds(lines)
  <2>1. Kinds(lines) = {"begin", x, y, "commit"}
      BY <1>4 DEF Kinds
  <2>2. x = "plan"
      BY <2>1
  <2>3. "done" \notin NextKinds(lines)
      BY <1>4 DEF NextKinds
  <2> QED BY <1>4, <2>1, <2>2, <2>3 DEF Whole
<1> QED BY <1>1, <1>2, <1>3, <1>4 DEF Running

\* Cut off behind its change, or in the middle of confirming it, it still shows the change.
LEMMA CutLeaves ==
    ASSUME NEW file, Running(file.lines), file.ended, "plan" \in Kinds(file.lines),
           NEW kind \in NextKinds(file.lines), kind = "done" \/ "done" \in Kinds(file.lines),
           NEW left \in Cut(file, kind)
    PROVE  Done(left)
<1>1. \/ file.lines = <<"begin", "plan">> /\ kind = "done"
      \/ file.lines = <<"begin", "plan", "done">> /\ kind = "commit"
  <2>1. CASE kind = "done"
      BY <2>1, RunIsWhole
  <2>2. CASE kind # "done"
    <3>1. file.lines \in Whole
        BY <2>2, RunIsWhole
    <3>2. file.lines # <<"begin", "plan">>
        BY <2>2 DEF Kinds
    <3>3. file.lines # <<"begin", "plan", "done", "commit">>
      <4>1. ASSUME file.lines = <<"begin", "plan", "done", "commit">>
            PROVE  NextKinds(file.lines) = {}
          BY <4>1 DEF NextKinds
      <4> QED BY <4>1
    <3>4. file.lines = <<"begin", "plan", "done">>
        BY <3>1, <3>2, <3>3 DEF Whole
    <3> QED BY <3>4 DEF NextKinds
  <2> QED BY <2>1, <2>2
<1>2. \/ left = file
      \/ left.lines = Append(file.lines, kind)
      \/ left.lines \in {Append(file.lines, s) : s \in {"torn", "nul", kind}} /\ ~left.ended
    BY DEF Cut, Appended
<1>3. CASE file.lines = <<"begin", "plan">> /\ kind = "done"
  <2>a. /\ Append(<<"begin", "plan">>, "torn") = <<"begin", "plan", "torn">>
        /\ Append(<<"begin", "plan">>, "nul") = <<"begin", "plan", "nul">>
        /\ Append(<<"begin", "plan">>, "done") = <<"begin", "plan", "done">>
      BY OneMore, Zenon
  <2>1. file.lines \in Whole /\ Append(file.lines, kind) \in Whole
      BY <1>3, <2>a DEF Whole
  <2>2. /\ Append(file.lines, "torn") = <<"begin", "plan", "torn">>
        /\ Append(file.lines, "nul") = <<"begin", "plan", "nul">>
      BY <1>3, <2>a
  <2> QED BY <1>2, <2>1, <2>2 DEF Done
<1>4. CASE file.lines = <<"begin", "plan", "done">> /\ kind = "commit"
  <2>a. /\ Append(<<"begin", "plan", "done">>, "torn") = <<"begin", "plan", "done", "torn">>
        /\ Append(<<"begin", "plan", "done">>, "nul") = <<"begin", "plan", "done", "nul">>
        /\ Append(<<"begin", "plan", "done">>, "commit") = <<"begin", "plan", "done", "commit">>
      BY FourthIs, Zenon
  <2>b. Append(file.lines, kind) = <<"begin", "plan", "done", "commit">>
      BY <1>4, <2>a
  <2>1. file.lines \in Whole /\ Append(file.lines, kind) \in Whole
      BY <1>4, <2>b DEF Whole
  <2>2. /\ Append(file.lines, "torn") = <<"begin", "plan", "done", "torn">>
        /\ Append(file.lines, "nul") = <<"begin", "plan", "done", "nul">>
      BY <1>4, <2>a
  <2> QED BY <1>2, <2>1, <2>2 DEF Done
<1> QED BY <1>1, <1>3, <1>4

\* And recovery or undo finds it there (examine, has_reversible_work).
LEMMA DoneIsFound ==
    ASSUME NEW file, Done(file)
    PROVE  Examined(file) = "offer" \/ Undoable(file)
<1> DEFINE lines == file.lines
<1>1. CASE lines = <<"begin", "plan">>
  <2>1. Read(file) = {"begin", "plan"} /\ ~Corrupt(file) /\ ~EndsFinished(file)
      BY <1>1 DEF Read, Corrupt, EndsFinished
  <2> QED BY <2>1 DEF Examined, Understood, Announced
<1>2. ASSUME NEW x \in {"torn", "nul"}, lines = <<"begin", "plan", x>>, ~file.ended
      PROVE  Examined(file) = "offer"
  <2>1. Read(file) = {"begin", "plan"} /\ ~Corrupt(file) /\ ~EndsFinished(file)
      BY <1>2 DEF Read, Corrupt, EndsFinished
  <2> QED BY <2>1 DEF Examined, Understood, Announced
<1>3. CASE lines = <<"begin", "plan", "done">>
  <2>1. Read(file) = {"begin", "plan", "done"} /\ ~Corrupt(file)
      BY <1>3 DEF Read, Corrupt
  <2> QED BY <2>1 DEF Undoable, Understood
<1>4. ASSUME NEW x \in {"torn", "nul"}, lines = <<"begin", "plan", "done", x>>, ~file.ended
      PROVE  Undoable(file)
  <2>1. Read(file) = {"begin", "plan", "done"} /\ ~Corrupt(file)
      BY <1>4 DEF Read, Corrupt
  <2> QED BY <2>1 DEF Undoable, Understood
<1>5. CASE lines = <<"begin", "plan", "done", "commit">>
  <2>1. Read(file) = {"begin", "plan", "done", "commit"} /\ ~Corrupt(file)
      BY <1>5 DEF Read, Corrupt
  <2> QED BY <2>1 DEF Undoable, Understood
<1> QED BY <1>1, <1>2, <1>3, <1>4, <1>5 DEF Done, Whole

-----------------------------------------------------------------------------
(* The steps.                                                              *)

\* A step that leaves the folder, its locks and everybody's work alone; a window may come
\* to offer less.
LEMMA CalmKeeps ==
    ASSUME JournalsInv, UNCHANGED <<folder, holder, on, past, unlocked>>,
           task' \in [Procs -> Tasks], DOMAIN offered' = Windows,
           \A q \in Procs : \/ task'[q] = task[q]
                            \/ {task[q], task'[q]} \subseteq {"nothing", "opens"},
           \A w \in Windows : offered'[w] \subseteq offered[w]
    PROVE  JournalsInv'
<1>1. NamesInv'
    BY DEF JournalsInv, NamesInv, NamesAreInOrder, Before, past
<1>2. \A q \in Procs :
         /\ task'[q] \in Holding <=> task[q] \in Holding
         /\ task'[q] = "runs" <=> task[q] = "runs"
         /\ task'[q] = "names" <=> task[q] = "names"
         /\ task'[q] \in {"nothing", "opens"} <=> task[q] \in {"nothing", "opens"}
    BY DEF Holding
<1>3. WorkInv'
    BY <1>2 DEF JournalsInv, WorkInv, past
<1>4. OfferedInv'
    BY <1>2 DEF JournalsInv, OfferedInv, past
<1>5. RecordsInv'
    BY <1>2 DEF JournalsInv, RecordsInv, past
<1> QED BY <1>1, <1>3, <1>4, <1>5 DEF JournalsInv

LEMMA AsksKeep ==
    ASSUME JournalsInv, NEW p \in Procs, NEW names, NEW what, Idle(p), Asks(p, names, what)
    PROVE  JournalsInv'
<1>1. /\ UNCHANGED <<folder, holder, on, past, unlocked, offered>>
      /\ task' = [task EXCEPT ![p] = "opens"] /\ task[p] = "nothing"
    BY DEF Asks, Idle, lists
<1>2. task \in [Procs -> Tasks] /\ DOMAIN offered = Windows
    BY DEF JournalsInv, WorkInv, OfferedInv
<1> QED BY <1>1, <1>2, CalmKeeps DEF Tasks

LEMMA RefusedKeeps ==
    ASSUME JournalsInv, NEW p \in Procs, IsRefused(p)
    PROVE  JournalsInv'
<1>1. /\ UNCHANGED <<folder, holder, on, past, unlocked, offered>>
      /\ task[p] = "opens"
      /\ task' = [task EXCEPT ![p] = "nothing"] \/ task' = [task EXCEPT ![p] = "opens"]
    BY DEF IsRefused, Proceeds
<1>2. task \in [Procs -> Tasks] /\ DOMAIN offered = Windows
    BY DEF JournalsInv, WorkInv, OfferedInv
<1> QED BY <1>1, <1>2, CalmKeeps DEF Tasks

LEMMA DismissesKeeps ==
    ASSUME JournalsInv, NEW w \in Windows, Dismisses(w)
    PROVE  JournalsInv'
<1>1. /\ UNCHANGED <<folder, holder, on, past, unlocked, task>>
      /\ offered' = [offered EXCEPT ![w] = {}]
    BY DEF Dismisses
<1>2. task \in [Procs -> Tasks] /\ DOMAIN offered = Windows
    BY DEF JournalsInv, WorkInv, OfferedInv
<1> QED BY <1>1, <1>2, CalmKeeps

\* A run names its journal after everything that is there.
LEMMA NamesKeeps ==
    ASSUME JournalsInv, NEW p \in Procs, NamesJournal(p)
    PROVE  JournalsInv'
<1>1. PICK stamp : \E now \in 0 .. MaxClock :
         /\ stamp \in {now} \cup {n[1] + 1 : n \in DOMAIN folder}
         /\ Stamp(stamp, now, DOMAIN folder)
         /\ on' = [on EXCEPT ![p] = <<stamp, Pid[p]>>]
         /\ earlier' = Extend(earlier, <<stamp, Pid[p]>>, DOMAIN folder)
    BY DEF NamesJournal
<1> DEFINE name == <<stamp, Pid[p]>>
<1>2. /\ task[p] = "nothing" /\ task' = [task EXCEPT ![p] = "names"]
      /\ on' = [on EXCEPT ![p] = name] /\ earlier' = Extend(earlier, name, DOMAIN folder)
      /\ UNCHANGED <<folder, holder, offered, kept, applied, deleted, unlocked>>
    BY <1>1 DEF NamesJournal, Idle, lists
<1>3. DOMAIN folder \subseteq Nat \X Nat /\ DOMAIN folder \subseteq DOMAIN earlier
      /\ NamesAreInOrder
    BY DEF JournalsInv, NamesInv
<1>4. /\ stamp \in Nat /\ name \in Nat \X {Pid[p]}
      /\ \A m \in DOMAIN folder : m[1] < stamp
    BY <1>1, <1>3, JournalsAssumption DEF Stamp
<1>5. name \notin DOMAIN folder
    BY <1>3, <1>4
<1> HIDE DEF name
<1>6. NamesInv'
  <2>1. ASSUME NEW n \in DOMAIN earlier', NEW m \in earlier'[n]
        PROVE  Before(m, n)
    <3>1. CASE n = name
        BY <1>2, <1>4, <2>1, <3>1 DEF Extend, Before, name
    <3>2. CASE n # name
        BY <1>2, <1>3, <2>1, <3>2 DEF Extend, NamesAreInOrder
    <3> QED BY <3>1, <3>2
  <2>2. DOMAIN folder' \subseteq DOMAIN earlier'
      BY <1>2, <1>3 DEF Extend
  <2> QED BY <1>2, <1>3, <2>1, <2>2 DEF NamesInv, NamesAreInOrder, Before
<1>w. /\ task \in [Procs -> Tasks] /\ DOMAIN on = Procs
      /\ \A n \in DOMAIN holder : holder[n] # p
    BY <1>2, JournalsAssumption DEF JournalsInv, WorkInv, Holding
<1>7. WorkInv'
  <2>1. \A q \in Procs : q # p => task'[q] = task[q] /\ on'[q] = on[q]
      BY <1>2, <1>w
  <2>2. task'[p] = "names" /\ on'[p] = name
      BY <1>2, <1>w
  <2>3. name \in DOMAIN earlier' /\ DOMAIN earlier \subseteq DOMAIN earlier'
      BY <1>2 DEF Extend
  <2>4. \A n \in DOMAIN holder : holder[n] # None =>
            holder[n] \in Procs /\ task'[holder[n]] \in Holding /\ on'[holder[n]] = n
      BY <2>1, <1>w DEF JournalsInv, WorkInv
  <2>5. ASSUME NEW q \in Procs
        PROVE  /\ task'[q] \in {"nothing", "opens"} => on'[q] = None
               /\ task'[q] = "names" =>
                     /\ on'[q] \in Nat \X {Pid[q]} /\ on'[q] \notin DOMAIN folder
                     /\ on'[q] \in DOMAIN earlier'
               /\ task'[q] \in Holding /\ unlocked = 0 => on'[q] \in DOMAIN folder /\ holder[on'[q]] = q
    <3>1. CASE q = p
        BY <1>4, <1>5, <2>2, <2>3, <3>1 DEF Holding, name
    <3>2. CASE q # p
        BY <2>1, <2>3, <3>2 DEF JournalsInv, WorkInv
    <3> QED BY <3>1, <3>2
  <2>6. task' \in [Procs -> Tasks] /\ DOMAIN on' = Procs /\ DOMAIN folder' \subseteq DOMAIN holder'
        /\ unlocked \in 0 .. MaxUnlocked
      BY <1>2, <1>w DEF JournalsInv, WorkInv, Tasks, Holding
  <2> QED BY <1>2, <2>4, <2>5, <2>6 DEF WorkInv
<1>8. \A q \in Procs : task'[q] = "runs" => task[q] = "runs" /\ on'[q] = on[q]
    BY <1>2, <1>w
<1>9. OfferedInv'
    BY <1>2, <1>8 DEF JournalsInv, OfferedInv
<1>10. RecordsInv'
    BY <1>2, <1>8 DEF JournalsInv, RecordsInv
<1> QED BY <1>6, <1>7, <1>9, <1>10 DEF JournalsInv

\* Its name is nobody else's, for no other process has its number.
LEMMA CreatesKeeps ==
    ASSUME JournalsInv, NEW p \in Procs, CreatesJournal(p)
    PROVE  JournalsInv'
<1> DEFINE name == on[p]
<1>1. /\ task[p] = "names" /\ task' = [task EXCEPT ![p] = "runs"]
      /\ folder' = Extend(folder, name, [lines |-> <<>>, ended |-> TRUE])
      /\ kept' = Extend(kept, name, {}) /\ applied' = Extend(applied, name, FALSE)
      /\ UNCHANGED <<on, offered, earlier, deleted>>
    BY DEF CreatesJournal, lists
<1>2. \/ holder' = Extend(holder, name, p) /\ unlocked' = unlocked
      \/ /\ unlocked < MaxUnlocked /\ unlocked' = unlocked + 1
         /\ holder' = Extend(holder, name, None)
    BY DEF CreatesJournal
<1>3. /\ task \in [Procs -> Tasks] /\ DOMAIN on = Procs
      /\ name \in Nat \X {Pid[p]} /\ name \notin DOMAIN folder /\ name \in DOMAIN earlier
      /\ unlocked \in 0 .. MaxUnlocked
    BY <1>1 DEF JournalsInv, WorkInv
<1>4. /\ \A q \in Procs : q # p => task'[q] = task[q]
      /\ task'[p] = "runs"
    BY <1>1, <1>3
<1>5. \A q \in Procs : q # p /\ task[q] \in Holding /\ unlocked = 0 => on[q] # name
    BY <1>3 DEF JournalsInv, WorkInv
<1>6. unlocked' \in 0 .. MaxUnlocked /\ (unlocked' = 0 => unlocked = 0 /\ holder' = Extend(holder, name, p))
    BY <1>2, <1>3, JournalsAssumption
<1>7. /\ DOMAIN folder' = DOMAIN folder \cup {name}
      /\ DOMAIN holder' = DOMAIN holder \cup {name}
      /\ DOMAIN kept' = DOMAIN kept \cup {name}
      /\ DOMAIN applied' = DOMAIN applied \cup {name}
    BY <1>1, <1>2 DEF Extend
<1>8. /\ folder'[name] = [lines |-> <<>>, ended |-> TRUE]
      /\ kept'[name] = {} /\ ~applied'[name]
      /\ \A n \in DOMAIN folder : n # name => folder'[n] = folder[n]
      /\ \A n \in DOMAIN kept : n # name => kept'[n] = kept[n]
      /\ \A n \in DOMAIN applied : n # name => applied'[n] = applied[n]
    BY <1>1 DEF Extend
<1>9. /\ \A n \in DOMAIN holder : n # name => holder'[n] = holder[n]
      /\ holder'[name] \in {p, None}
    BY <1>2 DEF Extend
<1>w. WorkInv
    BY DEF JournalsInv
<1>x. \A q \in Procs : q # p => Pid[q] # Pid[p]
    BY JournalsAssumption
<1> HIDE DEF name
<1>10. NamesInv'
  <2>1. name \in Nat \X Nat
      BY <1>3, JournalsAssumption
  <2>2. DOMAIN folder' \subseteq Nat \X Nat /\ DOMAIN folder' \subseteq DOMAIN earlier
      BY <1>3, <1>7, <2>1 DEF JournalsInv, NamesInv
  <2> QED BY <1>1, <2>2 DEF JournalsInv, NamesInv, NamesAreInOrder, Before
<1>11. WorkInv'
  <2>1. ASSUME NEW n \in DOMAIN holder', holder'[n] # None
        PROVE  holder'[n] \in Procs /\ task'[holder'[n]] \in Holding /\ on[holder'[n]] = n
    <3>1. CASE n = name
        BY <1>4, <1>9, <2>1, <3>1 DEF Holding, name
    <3>2. CASE n # name
      <4>1. /\ n \in DOMAIN holder /\ holder'[n] = holder[n] /\ holder[n] \in Procs
            /\ task[holder[n]] \in Holding /\ on[holder[n]] = n
          BY <1>7, <1>9, <1>w, <2>1, <3>2 DEF WorkInv
      <4>2. holder[n] # p
          BY <1>1, <4>1 DEF Holding
      <4> QED BY <1>4, <4>1, <4>2
    <3> QED BY <3>1, <3>2
  <2>2. ASSUME NEW q \in Procs
        PROVE  /\ task'[q] \in {"nothing", "opens"} => on[q] = None
               /\ task'[q] = "names" =>
                     /\ on[q] \in Nat \X {Pid[q]} /\ on[q] \notin DOMAIN folder'
                     /\ on[q] \in DOMAIN earlier
               /\ task'[q] \in Holding /\ unlocked' = 0 => on[q] \in DOMAIN folder' /\ holder'[on[q]] = q
    <3>1. CASE q = p
      <4>1. unlocked' = 0 => holder'[name] = p
          BY <1>6 DEF Extend
      <4> QED BY <1>4, <1>7, <3>1, <4>1 DEF name
    <3>2. CASE q # p
      <4>1. task'[q] = task[q]
          BY <1>4, <3>2
      <4>2. task[q] \in {"nothing", "opens"} => on[q] = None
          BY <1>w DEF WorkInv
      <4>3. task[q] = "names" =>
                 /\ on[q] \in Nat \X {Pid[q]} /\ on[q] \notin DOMAIN folder'
                 /\ on[q] \in DOMAIN earlier
        <5>1. task[q] = "names" =>
               /\ on[q] \in Nat \X {Pid[q]} /\ on[q] \notin DOMAIN folder
               /\ on[q] \in DOMAIN earlier
            BY <1>w DEF WorkInv
        <5>2. task[q] = "names" => on[q] # name
            BY <1>3, <1>x, <3>2, <5>1
        <5> QED BY <1>7, <5>1, <5>2
      <4>4. task[q] \in Holding /\ unlocked' = 0 => on[q] \in DOMAIN folder' /\ holder'[on[q]] = q
          BY <1>5, <1>6, <1>7, <1>9, <1>w, <3>2 DEF WorkInv
      <4> QED BY <4>1, <4>2, <4>3, <4>4
    <3> QED BY <3>1, <3>2
  <2>3. task' \in [Procs -> Tasks] /\ DOMAIN folder' \subseteq DOMAIN holder'
      BY <1>1, <1>3, <1>7, <1>w DEF WorkInv, Tasks, Holding
  <2> QED BY <1>1, <1>3, <1>6, <2>1, <2>2, <2>3 DEF WorkInv
<1>12. OfferedInv'
  <2>1. ASSUME unlocked' = 0, NEW w \in Windows, NEW q \in Procs, task'[q] = "runs"
        PROVE  on[q] \notin offered[w] \ deleted
    <3>1. CASE q = p
        BY <1>3, <1>6, <2>1, <3>1 DEF JournalsInv, OfferedInv, name
    <3>2. CASE q # p
        BY <1>4, <1>6, <2>1, <3>2 DEF JournalsInv, OfferedInv
    <3> QED BY <3>1, <3>2
  <2> QED BY <1>1, <1>6, <1>7, <2>1 DEF JournalsInv, OfferedInv
<1>13. RecordsInv'
  <2>1. ASSUME unlocked' = 0, NEW q \in Procs, task'[q] = "runs"
        PROVE  LET lines == folder'[on[q]].lines IN
               /\ Running(lines) /\ folder'[on[q]].ended
               /\ kept'[on[q]] = {lines[i] : i \in DOMAIN lines}
               /\ applied'[on[q]] <=> "done" \in kept'[on[q]]
    <3>1. CASE q = p
        BY <1>8, <3>1 DEF Running, name
    <3>2. CASE q # p
      <4>1. /\ unlocked = 0 /\ task[q] = "runs" /\ task[q] \in Holding
          BY <1>4, <1>6, <2>1, <3>2 DEF Holding
      <4>2. on[q] \in DOMAIN folder /\ on[q] # name
          BY <1>5, <1>w, <3>2, <4>1 DEF WorkInv
      <4>3. on[q] \in DOMAIN kept /\ on[q] \in DOMAIN applied
          BY <4>2 DEF JournalsInv, RecordsInv
      <4>4. /\ folder'[on[q]] = folder[on[q]] /\ kept'[on[q]] = kept[on[q]]
            /\ applied'[on[q]] = applied[on[q]]
          BY <1>8, <4>2, <4>3
      <4> QED BY <4>1, <4>4 DEF JournalsInv, RecordsInv
    <3> QED BY <3>1, <3>2
  <2>2. ASSUME unlocked' = 0, NEW n \in DOMAIN folder', applied'[n], "plan" \in kept'[n]
        PROVE  Done(folder'[n])
    <3>1. n # name /\ n \in DOMAIN folder
        BY <1>7, <1>8, <2>2
    <3>2. n \in DOMAIN kept /\ n \in DOMAIN applied
        BY <3>1 DEF JournalsInv, RecordsInv
    <3>3. /\ folder'[n] = folder[n] /\ kept'[n] = kept[n] /\ applied'[n] = applied[n]
        BY <1>8, <3>1, <3>2
    <3> QED BY <1>6, <2>2, <3>1, <3>3 DEF JournalsInv, RecordsInv
  <2>3. DOMAIN folder' \subseteq DOMAIN kept' \cap DOMAIN applied'
      BY <1>7 DEF JournalsInv, RecordsInv
  <2>4. UNCHANGED on
      BY <1>1
  <2> QED BY <2>1, <2>2, <2>3, <2>4, Zenon DEF RecordsInv
<1> QED BY <1>10, <1>11, <1>12, <1>13 DEF JournalsInv

\* What a running process writes is behind what it has written.
LEMMA AppendsKeeps ==
    ASSUME JournalsInv, NEW p \in Procs, Appends(p)
    PROVE  JournalsInv'
<1> DEFINE name == on[p]
<1>1. PICK kind \in NextKinds(folder[name].lines) :
         /\ folder' = [folder EXCEPT ![name] = Appended(folder[name], kind)]
         /\ kept' = [kept EXCEPT ![name] = kept[name] \cup {kind}]
         /\ applied' = [applied EXCEPT ![name] = applied[name] \/ kind = "done"]
    BY DEF Appends
<1>2. /\ task[p] = "runs"
      /\ UNCHANGED <<holder, task, on, offered, earlier, deleted, unlocked>>
    BY DEF Appends, lists
<1>3. /\ DOMAIN folder' = DOMAIN folder /\ DOMAIN kept' = DOMAIN kept
      /\ DOMAIN applied' = DOMAIN applied
      /\ \A n \in DOMAIN folder : n # name => folder'[n] = folder[n]
      /\ \A n \in DOMAIN kept : n # name => kept'[n] = kept[n]
      /\ \A n \in DOMAIN applied : n # name => applied'[n] = applied[n]
    BY <1>1
<1>4. NamesInv'
    BY <1>2, <1>3 DEF JournalsInv, NamesInv, NamesAreInOrder, Before
<1>5. WorkInv'
    BY <1>2, <1>3 DEF JournalsInv, WorkInv
<1>6. OfferedInv'
    BY <1>2, <1>3 DEF JournalsInv, OfferedInv
<1>7. RecordsInv'
  <2>1. DOMAIN folder \subseteq DOMAIN kept \cap DOMAIN applied
      BY DEF JournalsInv, RecordsInv
  <2>2. SUFFICES ASSUME unlocked = 0
                 PROVE  RecordsInv'
      BY <1>2, <1>3, <2>1 DEF RecordsInv
  <2>3. /\ \A q \in Procs : task[q] \in Holding => on[q] \in DOMAIN folder /\ holder[on[q]] = q
        /\ name \in DOMAIN folder
      BY <1>2, <2>2 DEF JournalsInv, WorkInv, Holding
  <2>4. /\ Running(folder[name].lines) /\ folder[name].ended
        /\ kept[name] = Kinds(folder[name].lines)
        /\ applied[name] <=> "done" \in kept[name]
      BY <1>2, <2>2 DEF JournalsInv, RecordsInv, Kinds
  <2>5. /\ folder'[name] = Appended(folder[name], kind)
        /\ kept'[name] = kept[name] \cup {kind}
        /\ applied'[name] <=> (applied[name] \/ kind = "done")
      BY <1>1, <2>1, <2>3, Zenon
  <2>6. folder'[name].lines = Append(folder[name].lines, kind) /\ folder'[name].ended
      BY <2>5 DEF Appended
  <2>7. /\ Running(folder'[name].lines)
        /\ kept'[name] = Kinds(folder'[name].lines)
    <3>1. /\ Running(Append(folder[name].lines, kind))
          /\ Kinds(Append(folder[name].lines, kind)) = Kinds(folder[name].lines) \cup {kind}
        BY <2>4, RunsOn, Zenon
    <3> QED BY <2>4, <2>5, <2>6, <3>1
  <2>8. applied'[name] <=> "done" \in kept'[name]
      BY <2>4, <2>5
  <2>9. ASSUME NEW q \in Procs, task[q] = "runs"
        PROVE  /\ Running(folder'[on[q]].lines) /\ folder'[on[q]].ended
               /\ kept'[on[q]] = Kinds(folder'[on[q]].lines)
               /\ applied'[on[q]] <=> "done" \in kept'[on[q]]
    <3>1. CASE q = p
        BY <2>6, <2>7, <2>8, <3>1
    <3>2. CASE q # p
      <4>1. on[q] # name /\ on[q] \in DOMAIN folder
          BY <1>2, <2>3, <2>9, <3>2 DEF Holding
      <4>2. /\ folder'[on[q]] = folder[on[q]] /\ kept'[on[q]] = kept[on[q]]
            /\ applied'[on[q]] = applied[on[q]]
          BY <1>3, <2>1, <4>1
      <4> QED BY <2>2, <2>9, <4>2 DEF JournalsInv, RecordsInv, Kinds
    <3> QED BY <3>1, <3>2
  <2>10. ASSUME NEW n \in DOMAIN folder, applied'[n], "plan" \in kept'[n]
         PROVE  Done(folder'[n])
    <3>1. CASE n = name
        BY <2>7, <2>8, <2>10, <3>1, RunIsWhole DEF Done
    <3>2. CASE n # name
        BY <1>3, <2>1, <2>2, <2>10, <3>2 DEF JournalsInv, RecordsInv
    <3> QED BY <3>1, <3>2
  <2>11. UNCHANGED <<task, on>> /\ DOMAIN folder' = DOMAIN folder
        /\ DOMAIN folder' \subseteq DOMAIN kept' \cap DOMAIN applied'
      BY <1>2, <1>3, <2>1
  <2> QED BY <2>9, <2>10, <2>11 DEF RecordsInv, Kinds
<1> QED BY <1>4, <1>5, <1>6, <1>7 DEF JournalsInv

\* An undo takes a journal nobody is at work on.
LEMMA OpensKeeps ==
    ASSUME JournalsInv, NEW p \in Procs, Opens(p)
    PROVE  JournalsInv'
<1>1. PICK name \in todo[p] :
         /\ Refused(name) = "no"
         /\ holder' = [holder EXCEPT ![name] = p] /\ on' = [on EXCEPT ![p] = name]
    BY DEF Opens
<1>2. /\ task[p] = "opens" /\ task' = [task EXCEPT ![p] = "undoes"]
      /\ UNCHANGED <<folder, offered, past, unlocked>>
    BY DEF Opens, lists
<1>3. name \in DOMAIN folder /\ holder[name] = None
    BY <1>1 DEF Refused, InUse
<1>4. /\ task \in [Procs -> Tasks] /\ DOMAIN on = Procs /\ name \in DOMAIN holder
      /\ None \notin Procs
    BY <1>3, JournalsAssumption DEF JournalsInv, WorkInv
<1>5. /\ task'[p] = "undoes" /\ on'[p] = name /\ holder'[name] = p
      /\ \A q \in Procs : q # p => task'[q] = task[q] /\ on'[q] = on[q]
      /\ task' \in [Procs -> Tasks] /\ DOMAIN on' = Procs /\ DOMAIN holder' = DOMAIN holder
      /\ \A n \in DOMAIN holder : n # name => holder'[n] = holder[n]
    BY <1>1, <1>2, <1>4 DEF Tasks, Holding
<1>6. NamesInv'
    BY <1>2 DEF JournalsInv, NamesInv, NamesAreInOrder, Before, past
<1>7. WorkInv'
  <2>1. ASSUME NEW n \in DOMAIN holder, holder'[n] # None
        PROVE  holder'[n] \in Procs /\ task'[holder'[n]] \in Holding /\ on'[holder'[n]] = n
    <3>1. CASE n = name
        BY <1>5, <3>1 DEF Holding
    <3>2. CASE n # name
      <4>1. /\ holder'[n] = holder[n] /\ holder[n] \in Procs
            /\ task[holder[n]] \in Holding /\ on[holder[n]] = n
          BY <1>5, <2>1, <3>2 DEF JournalsInv, WorkInv
      <4>2. holder[n] # p
          BY <1>2, <4>1 DEF Holding
      <4> QED BY <1>5, <4>1, <4>2
    <3> QED BY <3>1, <3>2
  <2>2. ASSUME NEW q \in Procs
        PROVE  /\ task'[q] \in {"nothing", "opens"} => on'[q] = None
               /\ task'[q] = "names" =>
                     /\ on'[q] \in Nat \X {Pid[q]} /\ on'[q] \notin DOMAIN folder
                     /\ on'[q] \in DOMAIN earlier
               /\ task'[q] \in Holding /\ unlocked = 0 => on'[q] \in DOMAIN folder /\ holder'[on'[q]] = q
    <3>1. CASE q = p
        BY <1>3, <1>5, <3>1
    <3>2. CASE q # p
      <4>1. task[q] \in Holding /\ unlocked = 0 =>
                on[q] \in DOMAIN folder /\ holder[on[q]] = q /\ on[q] # name
          BY <1>3, <1>4 DEF JournalsInv, WorkInv
      <4>2. DOMAIN folder \subseteq DOMAIN holder
          BY DEF JournalsInv, WorkInv
      <4>3. task[q] \in Holding /\ unlocked = 0 => holder'[on[q]] = q
          BY <1>5, <4>1, <4>2
      <4> QED BY <1>5, <3>2, <4>1, <4>3 DEF JournalsInv, WorkInv
    <3> QED BY <3>1, <3>2
  <2>3. DOMAIN folder \subseteq DOMAIN holder /\ unlocked \in 0 .. MaxUnlocked
      BY DEF JournalsInv, WorkInv
  <2> QED BY <1>2, <1>5, <2>1, <2>2, <2>3 DEF WorkInv, past
<1>8. \A q \in Procs : task'[q] = "runs" => task[q] = "runs" /\ on'[q] = on[q]
    BY <1>2, <1>5
<1>9. OfferedInv'
    BY <1>2, <1>8 DEF JournalsInv, OfferedInv, past
<1>10. RecordsInv'
    BY <1>2, <1>8 DEF JournalsInv, RecordsInv, past
<1> QED BY <1>6, <1>7, <1>9, <1>10 DEF JournalsInv

\* A process lets go of its journal, and leaves it with its change to be seen, or without.
LEMMA LeavesKeeps ==
    ASSUME JournalsInv, NEW p \in Procs,
           task'[p] \in {"nothing", "opens"}, task' \in [Procs -> Tasks],
           \A q \in Procs : q # p => task'[q] = task[q],
           on' = [on EXCEPT ![p] = None], holder' = Released(p),
           UNCHANGED <<earlier, deleted, unlocked>>,
           DOMAIN folder' \subseteq DOMAIN folder, DOMAIN folder \ {on[p]} \subseteq DOMAIN folder',
           DOMAIN kept' = DOMAIN kept, DOMAIN applied' = DOMAIN applied,
           \A n \in DOMAIN folder' : n # on[p] =>
               folder'[n] = folder[n] /\ kept'[n] = kept[n] /\ applied'[n] = applied[n],
           unlocked = 0 /\ on[p] \in DOMAIN folder' /\ applied'[on[p]] /\ "plan" \in kept'[on[p]] =>
               Done(folder'[on[p]]),
           OfferedInv'
    PROVE  JournalsInv'
<1> DEFINE name == on[p]
<1>1. /\ WorkInv /\ NamesInv /\ RecordsInv
      /\ DOMAIN on = Procs /\ None \notin Procs
    BY JournalsAssumption DEF JournalsInv, WorkInv
<1>2. /\ on'[p] = None /\ DOMAIN on' = Procs
      /\ \A q \in Procs : q # p => on'[q] = on[q]
    BY <1>1
<1>3. NamesInv'
  <2>1. DOMAIN folder' \subseteq Nat \X Nat /\ DOMAIN folder' \subseteq DOMAIN earlier
      BY <1>1 DEF NamesInv
  <2> QED BY <1>1, <2>1 DEF NamesInv, NamesAreInOrder, Before
<1>4. WorkInv'
  <2>1. DOMAIN holder' = DOMAIN holder
      BY DEF Released
  <2>2. ASSUME NEW n \in DOMAIN holder', holder'[n] # None
        PROVE  holder'[n] \in Procs /\ task'[holder'[n]] \in Holding /\ on'[holder'[n]] = n
    <3>1. holder'[n] = holder[n] /\ holder[n] # p /\ holder[n] # None
        BY <2>1, <2>2 DEF Released
    <3> QED BY <1>1, <1>2, <2>1, <2>2, <3>1 DEF WorkInv
  <2>3. ASSUME NEW q \in Procs
        PROVE  /\ task'[q] \in {"nothing", "opens"} => on'[q] = None
               /\ task'[q] = "names" =>
                     /\ on'[q] \in Nat \X {Pid[q]} /\ on'[q] \notin DOMAIN folder'
                     /\ on'[q] \in DOMAIN earlier
               /\ task'[q] \in Holding /\ unlocked = 0 => on'[q] \in DOMAIN folder' /\ holder'[on'[q]] = q
    <3>1. CASE q = p
        BY <1>2, <3>1 DEF Holding
    <3>2. CASE q # p
      <4>1. task'[q] = task[q] /\ on'[q] = on[q]
          BY <1>2, <3>2
      <4>2. ASSUME task[q] \in Holding, unlocked = 0
            PROVE  on[q] \in DOMAIN folder' /\ holder'[on[q]] = q
        <5>1. on[q] \in DOMAIN folder /\ holder[on[q]] = q /\ on[q] \in DOMAIN holder
            BY <1>1, <4>2 DEF WorkInv
        <5>2. holder'[on[q]] = q
            BY <3>2, <5>1 DEF Released
        <5>3. on[q] # name
          <6>1. None \notin DOMAIN folder
              BY <1>1, JournalsAssumption DEF NamesInv
          <6>2. name = None \/ name \notin DOMAIN folder \/ holder[name] = p
              BY <1>1, <4>2 DEF WorkInv, Tasks
          <6> QED BY <3>2, <5>1, <6>1, <6>2
        <5> QED BY <5>1, <5>2, <5>3
      <4>3. /\ task[q] \in {"nothing", "opens"} => on[q] = None
            /\ task[q] = "names" =>
                 /\ on[q] \in Nat \X {Pid[q]} /\ on[q] \notin DOMAIN folder'
                 /\ on[q] \in DOMAIN earlier
          BY <1>1 DEF WorkInv
      <4> QED BY <4>1, <4>2, <4>3
    <3> QED BY <3>1, <3>2
  <2>4. DOMAIN folder' \subseteq DOMAIN holder' /\ unlocked' \in 0 .. MaxUnlocked
      BY <1>1, <2>1 DEF WorkInv
  <2> QED BY <1>2, <2>2, <2>3, <2>4 DEF WorkInv
<1>5. RecordsInv'
  <2>1. DOMAIN folder' \subseteq DOMAIN kept' \cap DOMAIN applied'
      BY <1>1 DEF RecordsInv
  <2>2. SUFFICES ASSUME unlocked = 0
                 PROVE  RecordsInv'
      BY <2>1 DEF RecordsInv
  <2>3. ASSUME NEW q \in Procs, task'[q] = "runs"
        PROVE  /\ Running(folder'[on'[q]].lines) /\ folder'[on'[q]].ended
               /\ kept'[on'[q]] = Kinds(folder'[on'[q]].lines)
               /\ applied'[on'[q]] <=> "done" \in kept'[on'[q]]
    <3>1. q # p /\ on'[q] = on[q] /\ task[q] = "runs"
        BY <1>2, <2>3
    <3>2. on[q] \in DOMAIN folder /\ holder[on[q]] = q
        BY <1>1, <2>2, <3>1 DEF WorkInv, Holding
    <3>3. on[q] # name
      <4>1. None \notin DOMAIN folder
          BY <1>1, JournalsAssumption DEF NamesInv
      <4>2. name = None \/ name \notin DOMAIN folder \/ holder[name] = p
          BY <1>1, <2>2 DEF WorkInv, Tasks
      <4> QED BY <3>1, <3>2, <4>1, <4>2
    <3>4. /\ folder'[on[q]] = folder[on[q]] /\ kept'[on[q]] = kept[on[q]]
          /\ applied'[on[q]] = applied[on[q]]
        BY <3>2, <3>3
    <3> QED BY <1>1, <2>2, <3>1, <3>4 DEF RecordsInv, Kinds
  <2>4. ASSUME NEW n \in DOMAIN folder', applied'[n], "plan" \in kept'[n]
        PROVE  Done(folder'[n])
    <3>1. CASE n = name
        BY <2>2, <2>4, <3>1
    <3>2. CASE n # name
        BY <1>1, <2>2, <2>4, <3>2 DEF RecordsInv
    <3> QED BY <3>1, <3>2
  <2> QED BY <2>1, <2>3, <2>4 DEF RecordsInv, Kinds
<1> QED BY <1>3, <1>4, <1>5 DEF JournalsInv

\* What a window that looks again finds to roll back, nobody else is at work on.
LEMMA RescanOffers ==
    ASSUME JournalsInv, NEW p \in Procs, NEW w \in Windows, Rescan(w, folder', HeldByOthers(p)),
           task'[p] = "nothing", \A q \in Procs : q # p => task'[q] = task[q] /\ on'[q] = on[q],
           DOMAIN folder' \subseteq DOMAIN folder, DOMAIN folder \ {on[p]} \subseteq DOMAIN folder',
           UNCHANGED <<deleted, unlocked>>, unlocked = 0,
           DOMAIN folder' = DOMAIN folder \/ task[p] = "runs"
    PROVE  OfferedInv'
<1>1. /\ DOMAIN offered = Windows
      /\ offered' = [offered EXCEPT ![w] = Offers(folder', HeldByOthers(p))]
    BY DEF JournalsInv, OfferedInv, Rescan
<1>2. ASSUME NEW v \in Windows
      PROVE  /\ offered'[v] \subseteq DOMAIN folder' \cup deleted
             /\ \A q \in Procs : task'[q] = "runs" => on'[q] \notin offered'[v] \ deleted
  <2>1. CASE v = w
    <3>1. offered'[v] = Offers(folder', HeldByOthers(p))
        BY <1>1, <2>1
    <3>2. ASSUME NEW q \in Procs, task'[q] = "runs"
          PROVE  on'[q] \notin offered'[v]
      <4>1. q # p /\ task[q] = "runs" /\ on'[q] = on[q]
          BY <3>2
      <4>2. on[q] \in DOMAIN folder /\ holder[on[q]] = q /\ q # None
          BY <4>1, JournalsAssumption DEF JournalsInv, WorkInv, Holding
      <4>3. HeldByOthers(p)[on[q]]
          BY <4>1, <4>2 DEF HeldByOthers, InUse
      <4> QED BY <3>1, <4>1, <4>3 DEF Offers
    <3>3. offered'[v] \subseteq DOMAIN folder'
        BY <3>1 DEF Offers
    <3> QED BY <3>2, <3>3
  <2>2. CASE v # w
    <3>1. offered'[v] = offered[v]
        BY <1>1, <2>2
    <3>2. /\ offered[v] \subseteq DOMAIN folder \cup deleted
          /\ \A q \in Procs : task[q] = "runs" => on[q] \notin offered[v] \ deleted
        BY DEF JournalsInv, OfferedInv
    <3>3. offered[v] \subseteq DOMAIN folder' \cup deleted
        BY <3>2
    <3> QED BY <3>1, <3>2, <3>3
  <2> QED BY <2>1, <2>2
<1> QED BY <1>1, <1>2 DEF OfferedInv

LEMMA EndsKeeps ==
    ASSUME JournalsInv, NEW p \in Procs, Ends(p)
    PROVE  JournalsInv'
<1>1. /\ task[p] = "runs" /\ task' = [task EXCEPT ![p] = "nothing"]
      /\ on' = [on EXCEPT ![p] = None] /\ holder' = Released(p)
      /\ UNCHANGED <<folder, offered, earlier, kept, applied, deleted, unlocked>>
    BY DEF Ends, past
<1>2. /\ task \in [Procs -> Tasks] /\ DOMAIN on = Procs
    BY DEF JournalsInv, WorkInv
<1>3. /\ task' \in [Procs -> Tasks] /\ task'[p] = "nothing"
      /\ \A q \in Procs : q # p => task'[q] = task[q] /\ on'[q] = on[q]
    BY <1>1, <1>2 DEF Tasks
<1>4. OfferedInv'
    BY <1>1, <1>3 DEF JournalsInv, OfferedInv
<1>5. unlocked = 0 /\ on[p] \in DOMAIN folder /\ applied[on[p]] /\ "plan" \in kept[on[p]] =>
          Done(folder[on[p]])
    BY DEF JournalsInv, RecordsInv
<1> QED BY <1>1, <1>3, <1>4, <1>5, LeavesKeeps

\* A write that fails ends the run where it is.
LEMMA FailsKeeps ==
    ASSUME JournalsInv, NEW p \in Procs, AppendFails(p)
    PROVE  JournalsInv'
<1> DEFINE name == on[p]
<1>1. /\ task[p] = "runs" /\ task' = [task EXCEPT ![p] = "nothing"]
      /\ on' = [on EXCEPT ![p] = None] /\ holder' = Released(p)
      /\ UNCHANGED <<earlier, kept, deleted, unlocked>>
    BY DEF AppendFails
<1>2. /\ task \in [Procs -> Tasks] /\ DOMAIN on = Procs /\ DOMAIN offered = Windows
    BY DEF JournalsInv, WorkInv, OfferedInv
<1>3. /\ task' \in [Procs -> Tasks] /\ task'[p] = "nothing"
      /\ \A q \in Procs : q # p => task'[q] = task[q] /\ on'[q] = on[q]
    BY <1>1, <1>2 DEF Tasks
<1>4. PICK kind \in NextKinds(folder[name].lines) :
          IF kind = "begin"
          THEN /\ folder' = Without(folder, name)
               /\ UNCHANGED <<applied, offered, problems>>
          ELSE \E file \in Cut(folder[name], kind) :
                  /\ folder' = [folder EXCEPT ![name] = file]
                  /\ applied' = [applied EXCEPT ![name] = applied[name] \/ kind = "done"]
                  /\ IF p \in Windows
                     THEN Rescan(p, folder', HeldByOthers(p))
                     ELSE UNCHANGED <<offered, problems>>
    BY DEF AppendFails
<1>5. CASE kind = "begin"
  <2>1. /\ folder' = Without(folder, name) /\ UNCHANGED <<applied, offered>>
      BY <1>4, <1>5
  <2>2. /\ DOMAIN folder' = DOMAIN folder \ {name}
        /\ \A n \in DOMAIN folder' : folder'[n] = folder[n]
      BY <2>1 DEF Without
  <2>3. OfferedInv'
    <3>1. ASSUME unlocked = 0, NEW w \in Windows
          PROVE  offered[w] \subseteq DOMAIN folder' \cup deleted
      <4>1. name \notin offered[w] \ deleted
          BY <1>1, <3>1 DEF JournalsInv, OfferedInv
      <4>2. offered[w] \subseteq DOMAIN folder \cup deleted
          BY <3>1 DEF JournalsInv, OfferedInv
      <4> QED BY <2>2, <4>1, <4>2
    <3>2. ASSUME unlocked = 0, NEW w \in Windows, NEW q \in Procs, task'[q] = "runs"
          PROVE  on'[q] \notin offered[w] \ deleted
        BY <1>3, <3>2 DEF JournalsInv, OfferedInv
    <3> QED BY <1>1, <1>2, <2>1, <3>1, <3>2 DEF OfferedInv
  <2> QED BY <1>1, <1>3, <2>1, <2>2, <2>3, LeavesKeeps
<1>6. CASE kind # "begin"
  <2>1. PICK file \in Cut(folder[name], kind) :
            /\ folder' = [folder EXCEPT ![name] = file]
            /\ applied' = [applied EXCEPT ![name] = applied[name] \/ kind = "done"]
            /\ IF p \in Windows
               THEN Rescan(p, folder', HeldByOthers(p))
               ELSE UNCHANGED <<offered, problems>>
      BY <1>4, <1>6
  <2>2. /\ DOMAIN folder' = DOMAIN folder /\ DOMAIN applied' = DOMAIN applied
        /\ \A n \in DOMAIN folder : n # name => folder'[n] = folder[n]
        /\ \A n \in DOMAIN applied : n # name => applied'[n] = applied[n]
      BY <2>1
  <2>3. OfferedInv'
    <3>1. CASE p \in Windows /\ unlocked = 0
        BY <1>1, <1>3, <2>1, <2>2, <3>1, RescanOffers
    <3>2. CASE p \notin Windows
        BY <1>1, <1>3, <2>1, <2>2, <3>2 DEF JournalsInv, OfferedInv
    <3>3. CASE p \in Windows /\ unlocked # 0
        BY <1>1, <1>2, <2>1, <3>3 DEF OfferedInv, Rescan
    <3> QED BY <3>1, <3>2, <3>3
  <2>4. ASSUME unlocked = 0, name \in DOMAIN folder, applied'[name], "plan" \in kept[name]
        PROVE  Done(folder'[name])
    <3>1. /\ Running(folder[name].lines) /\ folder[name].ended
          /\ kept[name] = Kinds(folder[name].lines)
          /\ applied[name] <=> "done" \in kept[name]
        BY <1>1, <2>4 DEF JournalsInv, RecordsInv, Kinds
    <3>2. name \in DOMAIN applied
        BY <2>4 DEF JournalsInv, RecordsInv
    <3>3. applied[name] \/ kind = "done"
        BY <2>1, <2>4, <3>2, Zenon
    <3>4. folder'[name] = file
        BY <2>1, <2>4
    <3>5. kind = "done" \/ "done" \in Kinds(folder[name].lines)
        BY <3>1, <3>3
    <3>6. "plan" \in Kinds(folder[name].lines)
        BY <2>4, <3>1
    <3>7. Done(file)
        BY <3>1, <3>5, <3>6, CutLeaves, Zenon
    <3> QED BY <3>4, <3>7
  <2>5. \A n \in DOMAIN folder : n \in DOMAIN applied
      BY DEF JournalsInv, RecordsInv
  <2> QED BY <1>1, <1>3, <2>2, <2>3, <2>4, <2>5, LeavesKeeps
<1> QED BY <1>5, <1>6

\* An undo leaves no change behind.
LEMMA StampsKeeps ==
    ASSUME JournalsInv, NEW p \in Procs, Stamps(p)
    PROVE  JournalsInv'
<1> DEFINE name == on[p]
<1>1. /\ task[p] = "undoes"
      /\ task' \in {[task EXCEPT ![p] = "nothing"], [task EXCEPT ![p] = "opens"]}
      /\ on' = [on EXCEPT ![p] = None] /\ holder' = Released(p)
      /\ applied' = [applied EXCEPT ![name] = FALSE]
      /\ UNCHANGED <<earlier, deleted, unlocked>>
    BY DEF Stamps, Proceeds
<1>2. /\ offered' = offered \/ offered' = [offered EXCEPT ![p] = offered[p] \ {name}]
      /\ kept' = kept \/ kept' = [kept EXCEPT ![name] = kept[name] \cup {"undone"}]
      /\ \E file : folder' = [folder EXCEPT ![name] = file]
    BY DEF Stamps
<1>3. /\ task \in [Procs -> Tasks] /\ DOMAIN on = Procs /\ DOMAIN offered = Windows
    BY DEF JournalsInv, WorkInv, OfferedInv
<1>4. /\ task' \in [Procs -> Tasks] /\ task'[p] \in {"nothing", "opens"}
      /\ \A q \in Procs : q # p => task'[q] = task[q] /\ on'[q] = on[q]
    BY <1>1, <1>3 DEF Tasks
<1>5. /\ DOMAIN folder' = DOMAIN folder /\ DOMAIN kept' = DOMAIN kept
      /\ DOMAIN applied' = DOMAIN applied
      /\ \A n \in DOMAIN folder : n # name => folder'[n] = folder[n]
      /\ \A n \in DOMAIN kept : n # name => kept'[n] = kept[n]
      /\ \A n \in DOMAIN applied : n # name => applied'[n] = applied[n]
    BY <1>1, <1>2
<1>6. DOMAIN folder \subseteq DOMAIN kept \cap DOMAIN applied
    BY DEF JournalsInv, RecordsInv
<1>7. DOMAIN offered' = Windows /\ \A w \in Windows : offered'[w] \subseteq offered[w]
    BY <1>2, <1>3
<1>8. OfferedInv'
  <2>1. \A q \in Procs : task'[q] = "runs" => task[q] = "runs" /\ on'[q] = on[q]
      BY <1>1, <1>4
  <2>2. ASSUME unlocked = 0, NEW w \in Windows
        PROVE  /\ offered'[w] \subseteq DOMAIN folder \cup deleted
               /\ \A q \in Procs : task'[q] = "runs" => on'[q] \notin offered'[w] \ deleted
    <3>1. /\ offered[w] \subseteq DOMAIN folder \cup deleted
          /\ \A q \in Procs : task[q] = "runs" => on[q] \notin offered[w] \ deleted
        BY <2>2 DEF JournalsInv, OfferedInv
    <3>2. offered'[w] \subseteq offered[w]
        BY <1>7
    <3> QED BY <2>1, <3>1, <3>2
  <2>3. /\ UNCHANGED <<deleted, unlocked>> /\ DOMAIN offered' = Windows
        /\ DOMAIN folder' = DOMAIN folder
      BY <1>1, <1>5, <1>7
  <2>4. ASSUME unlocked' = 0, NEW w \in Windows
        PROVE  /\ offered'[w] \subseteq DOMAIN folder' \cup deleted'
               /\ \A q \in Procs : task'[q] = "runs" => on'[q] \notin offered'[w] \ deleted'
      BY <2>2, <2>3, <2>4
  <2> QED BY <2>3, <2>4, Zenon DEF OfferedInv
<1>9. name \in DOMAIN folder => ~applied'[name]
    BY <1>1, <1>6
<1>10. /\ on' = [on EXCEPT ![p] = None] /\ holder' = Released(p)
       /\ UNCHANGED <<earlier, deleted, unlocked>>
    BY <1>1
<1>11. /\ DOMAIN folder' \subseteq DOMAIN folder /\ DOMAIN folder \ {on[p]} \subseteq DOMAIN folder'
       /\ \A n \in DOMAIN folder' : n # on[p] =>
             folder'[n] = folder[n] /\ kept'[n] = kept[n] /\ applied'[n] = applied[n]
    BY <1>5, <1>6
<1>12. unlocked = 0 /\ on[p] \in DOMAIN folder' /\ applied'[on[p]] /\ "plan" \in kept'[on[p]] =>
           Done(folder'[on[p]])
    BY <1>5, <1>9
<1> QED BY <1>4, <1>5, <1>8, <1>10, <1>11, <1>12, LeavesKeeps

\* A process killed anywhere leaves what a reader makes sense of.
LEMMA KilledKeeps ==
    ASSUME JournalsInv, NEW p \in Procs, Killed(p)
    PROVE  JournalsInv'
<1> DEFINE name == on[p]
           lines == folder[name].lines
<1>1. /\ task' = [task EXCEPT ![p] = "nothing"]
      /\ on' = [on EXCEPT ![p] = None] /\ holder' = Released(p)
      /\ UNCHANGED <<earlier, kept, deleted, unlocked>>
    BY DEF Killed
<1>2. IF p \in Windows THEN Rescan(p, folder', HeldByOthers(p)) ELSE UNCHANGED offered
    BY DEF Killed, lists
<1>3. \/ /\ folder' = folder
         /\ \/ applied' = applied
            \/ /\ task[p] = "runs" /\ "done" \in NextKinds(lines)
               /\ applied' = [applied EXCEPT ![name] = TRUE]
      \/ /\ task[p] = "runs"
         /\ \E kind \in NextKinds(lines) : \E file \in Cut(folder[name], kind) :
                /\ folder' = [folder EXCEPT ![name] = file]
                /\ \/ applied' = applied
                   \/ kind = "done" /\ applied' = [applied EXCEPT ![name] = TRUE]
      \/ /\ task[p] = "undoes"
         /\ \E file \in Cut(Repaired(folder[name]), "undone") :
                folder' = [folder EXCEPT ![name] = file]
         /\ applied' = [applied EXCEPT ![name] = FALSE]
    BY DEF Killed
<1>4. /\ task \in [Procs -> Tasks] /\ DOMAIN on = Procs /\ DOMAIN offered = Windows
    BY DEF JournalsInv, WorkInv, OfferedInv
<1>5. /\ task' \in [Procs -> Tasks] /\ task'[p] = "nothing"
      /\ \A q \in Procs : q # p => task'[q] = task[q] /\ on'[q] = on[q]
    BY <1>1, <1>4 DEF Tasks
<1>6. /\ DOMAIN folder' = DOMAIN folder /\ DOMAIN applied' = DOMAIN applied
      /\ \A n \in DOMAIN folder : n # name => folder'[n] = folder[n]
      /\ \A n \in DOMAIN applied : n # name => applied'[n] = applied[n]
    BY <1>3
<1>7. DOMAIN folder \subseteq DOMAIN kept \cap DOMAIN applied
    BY DEF JournalsInv, RecordsInv
<1>8. OfferedInv'
  <2>1. CASE p \in Windows /\ unlocked = 0
      BY <1>1, <1>2, <1>5, <1>6, <2>1, RescanOffers
  <2>2. CASE p \notin Windows
      BY <1>1, <1>2, <1>5, <1>6, <2>2 DEF JournalsInv, OfferedInv
  <2>3. CASE p \in Windows /\ unlocked # 0
      BY <1>1, <1>2, <1>4, <2>3 DEF OfferedInv, Rescan
  <2> QED BY <2>1, <2>2, <2>3
<1>9. ASSUME unlocked = 0, name \in DOMAIN folder, applied'[name], "plan" \in kept[name]
      PROVE  Done(folder'[name])
  <2>1. ASSUME task[p] = "runs"
        PROVE  /\ Running(lines) /\ folder[name].ended
               /\ kept[name] = Kinds(lines) /\ "plan" \in Kinds(lines)
               /\ applied[name] <=> "done" \in kept[name]
      BY <1>9, <2>1 DEF JournalsInv, RecordsInv, Kinds
  <2>2. applied[name] => Done(folder[name])
      BY <1>9 DEF JournalsInv, RecordsInv
  <2>3. CASE folder' = folder /\ applied' = applied
      BY <1>9, <2>2, <2>3
  <2>4. CASE folder' = folder /\ task[p] = "runs" /\ "done" \in NextKinds(lines)
    <3>1. lines = <<"begin", "plan">>
        BY <2>1, <2>4, RunIsWhole
    <3> QED BY <2>4, <3>1 DEF Done, Whole
  <2>5. ASSUME task[p] = "runs",
               NEW kind \in NextKinds(lines), NEW file \in Cut(folder[name], kind),
               folder' = [folder EXCEPT ![name] = file],
               applied' = applied \/ kind = "done"
        PROVE  Done(folder'[name])
    <3>1. kind = "done" \/ "done" \in Kinds(lines)
        BY <1>9, <2>1, <2>5
    <3>2. Done(file)
        BY <2>1, <2>5, <3>1, CutLeaves, Zenon
    <3> QED BY <1>9, <2>5, <3>2
  <2>6. CASE applied' = [applied EXCEPT ![name] = FALSE]
      BY <1>7, <1>9, <2>6
  <2> QED BY <1>3, <2>3, <2>4, <2>5, <2>6
<1> QED BY <1>1, <1>5, <1>6, <1>7, <1>8, <1>9, LeavesKeeps

\* Nobody is at work on a journal that is deleted.
LEMMA DeletedKeeps ==
    ASSUME JournalsInv, NEW name \in DOMAIN folder, Deleted(name)
    PROVE  JournalsInv'
<1>1. /\ \A q \in Procs : on[q] # name
      /\ folder' = Without(folder, name) /\ holder' = Without(holder, name)
      /\ deleted' = deleted \cup {name}
      /\ UNCHANGED <<task, on, offered, earlier, kept, applied, unlocked>>
    BY DEF Deleted, lists
<1>2. /\ DOMAIN folder' = DOMAIN folder \ {name} /\ DOMAIN holder' = DOMAIN holder \ {name}
      /\ \A n \in DOMAIN folder' : folder'[n] = folder[n]
      /\ \A n \in DOMAIN holder' : holder'[n] = holder[n]
    BY <1>1 DEF Without
<1>3. NamesInv'
    BY <1>1, <1>2 DEF JournalsInv, NamesInv, NamesAreInOrder, Before
<1>4. WorkInv'
  <2>1. WorkInv
      BY DEF JournalsInv
  <2>2. ASSUME NEW q \in Procs
        PROVE  /\ task[q] = "names" => on[q] \notin DOMAIN folder'
               /\ task[q] \in Holding /\ unlocked = 0 => on[q] \in DOMAIN folder' /\ holder'[on[q]] = q
      BY <1>1, <1>2, <2>1 DEF WorkInv
  <2>3. \A n \in DOMAIN holder' : holder'[n] # None =>
            holder'[n] \in Procs /\ task[holder'[n]] \in Holding /\ on[holder'[n]] = n
      BY <1>2, <2>1 DEF WorkInv
  <2> QED BY <1>1, <1>2, <2>1, <2>2, <2>3 DEF WorkInv
<1>5. OfferedInv'
    BY <1>1, <1>2 DEF JournalsInv, OfferedInv
<1>6. RecordsInv'
  <2>1. RecordsInv /\ WorkInv
      BY DEF JournalsInv
  <2>2. \A q \in Procs : task[q] = "runs" /\ unlocked = 0 => folder'[on[q]] = folder[on[q]]
      BY <1>1, <1>2, <2>1 DEF WorkInv, Holding
  <2> QED BY <1>1, <1>2, <2>1, <2>2 DEF RecordsInv
<1> QED BY <1>3, <1>4, <1>5, <1>6 DEF JournalsInv

-----------------------------------------------------------------------------
(* The theorems.                                                           *)

LEMMA JournalsStarts == JournalsInit => JournalsInv
<1> SUFFICES ASSUME JournalsInit PROVE JournalsInv
    OBVIOUS
<1>1. NamesInv
    BY JournalsAssumption DEF JournalsInit, NamesInv, NamesAreInOrder, Before
<1>2. WorkInv
  <2>1. unlocked \in 0 .. MaxUnlocked
      BY JournalsAssumption DEF JournalsInit
  <2> QED BY <2>1 DEF JournalsInit, WorkInv, Tasks, Holding
<1>3. OfferedInv
    BY DEF JournalsInit, OfferedInv, Offers
<1>4. RecordsInv
    BY DEF JournalsInit, RecordsInv
<1> QED BY <1>1, <1>2, <1>3, <1>4 DEF JournalsInv

LEMMA JournalsSteps == JournalsInv /\ [JournalsNext]_journalVars => JournalsInv'
<1> SUFFICES ASSUME JournalsInv, [JournalsNext]_journalVars PROVE JournalsInv'
    OBVIOUS
<1>1. ASSUME NEW p \in Procs, NamesJournal(p) \/ CreatesJournal(p) \/ Appends(p) \/ Ends(p)
      PROVE  JournalsInv'
    BY <1>1, NamesKeeps, CreatesKeeps, AppendsKeeps, EndsKeeps
<1>2. ASSUME NEW p \in Procs, AppendFails(p) \/ Opens(p) \/ IsRefused(p) \/ Stamps(p) \/ Killed(p)
      PROVE  JournalsInv'
    BY <1>2, FailsKeeps, OpensKeeps, RefusedKeeps, StampsKeeps, KilledKeeps
<1>3. ASSUME NEW w \in Windows, PressesUndo(w) \/ PressesRollback(w) \/ Dismisses(w)
      PROVE  JournalsInv'
    BY <1>3, AsksKeep, DismissesKeeps DEF PressesUndo, PressesRollback, Procs
<1>4. ASSUME NEW t \in Tools, UndoesLast(t) \/ Recovers(t)
      PROVE  JournalsInv'
    BY <1>4, AsksKeep DEF UndoesLast, Recovers, Procs
<1>5. ASSUME NEW name \in DOMAIN folder, Deleted(name)
      PROVE  JournalsInv'
    BY <1>5, DeletedKeeps
<1>6. CASE UNCHANGED journalVars
  <2>1. UNCHANGED <<folder, holder, task, on, past, unlocked, offered>>
      BY <1>6 DEF journalVars, lists
  <2>2. task \in [Procs -> Tasks] /\ DOMAIN offered = Windows
      BY DEF JournalsInv, WorkInv, OfferedInv
  <2> QED BY <2>1, <2>2, CalmKeeps
<1> QED BY <1>1, <1>2, <1>3, <1>4, <1>5, <1>6 DEF JournalsNext

\* The invariant holds of every behaviour, whoever is killed and whatever is deleted.
THEOREM JournalsInductive == JournalsSpec => []JournalsInv
BY JournalsStarts, JournalsSteps, PTL DEF JournalsSpec

\* No window offers to roll back a batch that runs, as long as no other program has opened
\* its journal between its creation and its lock (JournalInUse).
THEOREM LiveIsNotOfferedHolds ==
    ASSUME MaxUnlocked = 0
    PROVE  JournalsSpec => []LiveIsNotOffered
<1>1. JournalsInv => LiveIsNotOffered
  <2> SUFFICES ASSUME JournalsInv PROVE LiveIsNotOffered
      OBVIOUS
  <2>1. unlocked = 0
      BY DEF JournalsInv, WorkInv
  <2> QED BY <2>1 DEF JournalsInv, OfferedInv, LiveIsNotOffered
<1> QED BY <1>1, JournalsInductive, PTL

\* A rename that is on the disk and that nobody is at work on is found again: recovery
\* offers its batch, or undo takes it (examine, has_reversible_work).
THEOREM NothingIsLostHolds ==
    ASSUME MaxUnlocked = 0
    PROVE  JournalsSpec => []NothingIsLost
<1>1. JournalsInv => NothingIsLost
  <2> SUFFICES ASSUME JournalsInv PROVE NothingIsLost
      OBVIOUS
  <2>1. unlocked = 0
      BY DEF JournalsInv, WorkInv
  <2> QED BY <2>1, DoneIsFound DEF JournalsInv, RecordsInv, NothingIsLost
<1> QED BY <1>1, JournalsInductive, PTL

\* What asked for an undo is forgotten with it.
LEMMA AskedSteps ==
    ASSUME AskedInv, task \in [Procs -> Tasks], [JournalsNext]_journalVars
    PROVE  AskedInv'
<1> USE DEF AskedInv
<1>1. ASSUME NEW p \in Procs, UNCHANGED <<todo, by>>, task[p] \notin {"opens", "undoes"},
             task' = task \/ \E x : task' = [task EXCEPT ![p] = x]
      PROVE  AskedInv'
    BY <1>1
<1>2. ASSUME NEW p \in Procs, NEW names, NEW what, Asks(p, names, what)
      PROVE  AskedInv'
    BY <1>2 DEF Asks
<1>3. ASSUME NEW p \in Procs, NEW rest, Proceeds(p, rest)
      PROVE  AskedInv'
    BY <1>3 DEF Proceeds
<1>4. ASSUME NEW p \in Procs, Opens(p)
      PROVE  AskedInv'
    BY <1>4 DEF Opens, work
<1>5. ASSUME NEW p \in Procs, Killed(p)
      PROVE  AskedInv'
  <2>1. /\ by' = [by EXCEPT ![p] = "nobody"] /\ task' = [task EXCEPT ![p] = "nothing"]
        /\ todo' = [todo EXCEPT ![p] = {}]
      BY <1>5 DEF Killed
  <2> QED BY <2>1
<1>6. ASSUME NEW p \in Procs, NamesJournal(p) \/ CreatesJournal(p) \/ Appends(p) \/ Ends(p) \/ AppendFails(p)
      PROVE  AskedInv'
  <2>1. CASE NamesJournal(p)
      BY <1>1, <2>1 DEF NamesJournal, Idle, work
  <2>2. CASE CreatesJournal(p)
      BY <1>1, <2>2 DEF CreatesJournal, work
  <2>3. CASE Appends(p)
      BY <1>1, <2>3 DEF Appends, work
  <2>4. CASE Ends(p)
      BY <1>1, <2>4 DEF Ends, work
  <2>5. CASE AppendFails(p)
      BY <1>1, <2>5 DEF AppendFails, work
  <2> QED BY <1>6, <2>1, <2>2, <2>3, <2>4, <2>5
<1>7. ASSUME NEW p \in Procs, IsRefused(p) \/ Stamps(p)
      PROVE  AskedInv'
    BY <1>3, <1>7 DEF IsRefused, Stamps
<1>8. ASSUME UNCHANGED <<todo, by, task>>
      PROVE  AskedInv'
    BY <1>8
<1>9. ASSUME NEW w \in Windows, PressesUndo(w) \/ PressesRollback(w) \/ Dismisses(w)
      PROVE  AskedInv'
    BY <1>2, <1>8, <1>9 DEF PressesUndo, PressesRollback, Dismisses, Procs, work
<1>10. ASSUME NEW t \in Tools, UndoesLast(t) \/ Recovers(t)
       PROVE  AskedInv'
    BY <1>2, <1>10 DEF UndoesLast, Recovers, Procs
<1>11. ASSUME NEW name, Deleted(name)
       PROVE  AskedInv'
    BY <1>8, <1>11 DEF Deleted, work
<1>12. CASE UNCHANGED journalVars
    BY <1>8, <1>12 DEF journalVars, work
<1> QED BY <1>4, <1>5, <1>6, <1>7, <1>9, <1>10, <1>11, <1>12 DEF JournalsNext

\* Only `undo` puts its mark on a process that was doing nothing.
LEMMA LastIsAsked ==
    ASSUME AskedInv, task \in [Procs -> Tasks], JournalsNext,
           NEW t \in Tools, Idle(t), by'[t] = "last"
    PROVE  UndoesLast(t)
<1>1. /\ DOMAIN by = Procs /\ t \in Procs /\ by[t] # "last" /\ t \notin Windows
    BY JournalsAssumption DEF AskedInv, Idle, Procs
<1>2. ASSUME NEW p \in Procs,
             NamesJournal(p) \/ CreatesJournal(p) \/ Appends(p) \/ Ends(p) \/ AppendFails(p) \/ Opens(p)
      PROVE  FALSE
    BY <1>1, <1>2 DEF NamesJournal, CreatesJournal, Appends, Ends, AppendFails, Opens, work
<1>3. ASSUME NEW p \in Procs, IsRefused(p) \/ Stamps(p) \/ Killed(p)
      PROVE  FALSE
  <2>1. by' = by \/ by' = [by EXCEPT ![p] = "nobody"]
      BY <1>3 DEF IsRefused, Stamps, Killed, Proceeds
  <2> QED BY <1>1, <2>1
<1>4. ASSUME NEW p \in Procs, NEW names, NEW what, Asks(p, names, what)
      PROVE  p = t /\ what = "last"
  <2>1. by' = [by EXCEPT ![p] = what]
      BY <1>4 DEF Asks
  <2> QED BY <1>1, <2>1
<1>5. ASSUME NEW w \in Windows, PressesUndo(w) \/ PressesRollback(w) \/ Dismisses(w)
      PROVE  FALSE
  <2>1. CASE Dismisses(w)
      BY <1>1, <2>1 DEF Dismisses, work
  <2>2. CASE PressesUndo(w) \/ PressesRollback(w)
    <3>1. w \in Procs /\ w # t
        BY <1>1 DEF Procs
    <3> QED BY <1>4, <2>2, <3>1 DEF PressesUndo, PressesRollback
  <2> QED BY <1>5, <2>1, <2>2
<1>6. ASSUME NEW u \in Tools, Recovers(u)
      PROVE  FALSE
    BY <1>4, <1>6 DEF Recovers, Procs
<1>7. ASSUME NEW u \in Tools, UndoesLast(u)
      PROVE  u = t
    BY <1>4, <1>7 DEF UndoesLast, Procs
<1>8. ASSUME NEW name, Deleted(name)
      PROVE  FALSE
    BY <1>1, <1>8 DEF Deleted, work
<1> QED BY <1>2, <1>3, <1>5, <1>6, <1>7, <1>8 DEF JournalsNext

\* Of two journals, one sorts before the other.
LEMMA BeforeIsStrict ==
    ASSUME NEW m \in Nat \X Nat, NEW n \in Nat \X Nat, Before(m, n)
    PROVE  m # n /\ ~Before(n, m)
BY DEF Before

\* `undo` picks no batch beneath a newer one that is running, cannot be read or could
\* itself be undone, however the clock was set between the two (latest_undoable).
THEOREM UndoPicksTheNewestHolds ==
    ASSUME MaxUnlocked = 0
    PROVE  JournalsSpec => UndoPicksTheNewest
<1> DEFINE Picked ==
        \A t \in Tools : Idle(t) /\ by'[t] = "last" =>
            \A n \in todo'[t], m \in DOMAIN folder :
                n \in earlier[m] =>
                    /\ \A p \in Procs : on[p] # m
                    /\ ~Corrupt(folder[m]) /\ ~Undoable(folder[m])
<1>1. JournalsInit => AskedInv
    BY DEF JournalsInit, AskedInv
<1>2. JournalsInv /\ AskedInv /\ [JournalsNext]_journalVars => AskedInv'
    BY AskedSteps DEF JournalsInv, WorkInv
<1>3. JournalsInv /\ AskedInv /\ [JournalsNext]_journalVars => [Picked]_journalVars
  <2> SUFFICES ASSUME JournalsInv, AskedInv, JournalsNext,
                      NEW t \in Tools, Idle(t), by'[t] = "last",
                      NEW n \in todo'[t], NEW m \in DOMAIN folder, n \in earlier[m]
               PROVE  /\ \A p \in Procs : on[p] # m
                      /\ ~Corrupt(folder[m]) /\ ~Undoable(folder[m])
      OBVIOUS
  <2>1. /\ NamesInv /\ WorkInv /\ unlocked = 0 /\ task \in [Procs -> Tasks]
      BY DEF JournalsInv, WorkInv
  <2>2. UndoesLast(t)
      BY <2>1, LastIsAsked
  <2>3. PICK k \in DOMAIN folder : Latest(k) /\ todo' = [todo EXCEPT ![t] = {k}]
      BY <2>2 DEF UndoesLast, Asks
  <2>4. n \in DOMAIN folder /\ Latest(n)
      BY <2>3 DEF AskedInv, Procs
  <2>5. Before(n, m) /\ n \in Nat \X Nat /\ m \in Nat \X Nat
      BY <2>1, <2>4 DEF NamesInv, NamesAreInOrder
  <2>6. m # n /\ ~Before(m, n)
      BY <2>5, BeforeIsStrict
  <2>7. ~InUse(m) /\ ~Corrupt(folder[m]) /\ ~Undoable(folder[m])
      BY <2>4, <2>6 DEF Latest, Newest
  <2>8. ASSUME NEW p \in Procs, on[p] = m
        PROVE  FALSE
    <3>1. None # m /\ p # None
        BY <2>5, JournalsAssumption
    <3>2. task[p] \in Holding
        BY <2>1, <2>8, <3>1 DEF WorkInv, Tasks
    <3> QED BY <2>1, <2>7, <2>8, <3>1, <3>2 DEF WorkInv, InUse
  <2> QED BY <2>7, <2>8
<1> QED BY <1>1, <1>2, <1>3, JournalsInductive, PTL DEF JournalsSpec, UndoPicksTheNewest
=============================================================================
