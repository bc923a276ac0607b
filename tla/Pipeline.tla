-------------------------------- MODULE Pipeline --------------------------------
(***************************************************************************)
(* The stack of steps and its run over a listing (ren-core: pipeline.rs,   *)
(* ops/kind.rs, ops/mod.rs, ops/script.rs, script/facade.rs).  Rows are    *)
(* evaluated by any thread in any order, unless a script is in the stack:  *)
(* it keeps what it was asked from row to row.  A step is [op, scope,      *)
(* enabled, filter, preproc]; a row is what its tag fields can see, with   *)
(* its name, path and audio.                                               *)
(***************************************************************************)
EXTENDS Wording, Templates

CONSTANTS Known,       \* the names a tag family holds
          Stacks,      \* the stacks a run may be over
          Rows,        \* the listing, a sequence of rows
          MaxRuns      \* bound: runs over the stack

Waiting == [waiting |-> TRUE]                \* a row that is not evaluated yet
Idle == [is |-> "idle", asked |-> <<>>]      \* a script between two runs
Broken == [is |-> "failed", asked |-> <<>>]  \* it would not compile, or not start

VARIABLES stack,
          sessions,    \* of each step: its script's session
          out,         \* of each row: Waiting, or [name, actions, warned], or Failed
          running,
          notes,       \* what the scripts' done() said of the last run
          runs

vars == <<stack, sessions, out, running, notes, runs>>

Steps == DOMAIN stack
Order == DOMAIN Rows

\* A listing has rows, and a row that failed is not one that waits.
ASSUME PipelineAssumption ==
    /\ Rows \in Seq({Rows[i] : i \in DOMAIN Rows}) /\ Rows # <<>>
    /\ \A steps \in Stacks : steps \in Seq({steps[k] : k \in DOMAIN steps})
    /\ Failed # Waiting

-----------------------------------------------------------------------------
(* One operation on the part of the name it is given.                      *)

\* A field with a tag that says nothing is the row's error.
Field(nodes, cx) ==
    IF \E i \in DOMAIN nodes : ~IsTag(nodes[i], Known) THEN Failed
    ELSE FieldText(nodes, ValuesOf(nodes, cx), cx)
Verbatim(nodes) == \A i \in DOMAIN nodes : nodes[i].tag = "text"
Or(t, s) == IF t = None THEN s ELSE t

\* The first row of the table for this name; table is Failed when it would not load.
TableRow(op, s) ==
    {i \in DOMAIN op.table : /\ SameText(op.table[i].old, s, op.exact)
                             /\ op.table[i].old # <<>> /\ op.table[i].new # <<>>}

FromTable(op, s) ==
    IF op.table \in {None, Failed} THEN op.table
    ELSE IF TableRow(op, s) = {} THEN None ELSE op.table[Head1(TableRow(op, s))].new

\* A row's own line, of as many lines as there are rows.
EditorLine(op, s, cx) ==
    IF op.lines = <<>> THEN None
    ELSE IF Len(op.lines) # Len(Rows) \/ "\n" \in CharsOf(s) THEN Failed
    ELSE IF op.lines[cx.index] = <<>> THEN None ELSE op.lines[cx.index]

\* The one field an operation renders for this text: None for none, Failed where
\* what it is taken from will not do.
FieldFor(op, s, cx) ==
    CASE op.kind = "replace" -> IF op.find = <<>> THEN None ELSE op.with
      [] op.kind = "add_remove" -> IF op.mode = "remove" THEN None ELSE op.insert
      [] op.kind = "add_counter" -> IF op.replace THEN op.with ELSE None
      [] op.kind = "renumber" ->
            IF ~NeedsOperand(op.action) \/ NumbersIn(s, [points |-> op.points, minus |-> op.minus]) = <<>>
            THEN None ELSE op.operand
      [] op.kind = "free_format" -> IF op.pattern = <<>> THEN None ELSE op.pattern
      [] op.kind = "csv_list" -> FromTable(op, s)
      [] op.kind = "filename_editor" -> EditorLine(op, s, cx)
      [] op.kind = "music_rename" -> IF op.style = <<>> THEN None ELSE op.style
      [] OTHER -> None

\* With its field as it was rendered.
Given(op, t) ==
    CASE op.kind = "replace" -> [op EXCEPT !.with = t, !.swap = @ /\ Verbatim(op.with)]
      [] op.kind = "add_remove" -> [op EXCEPT !.insert = t]
      [] op.kind = "add_counter" -> [op EXCEPT !.with = t]
      [] op.kind = "renumber" -> [op EXCEPT !.operand = t]
      [] OTHER -> op

\* A file that gives none of what the pattern would read of it is left alone.
OfFile(nodes) == {i \in DOMAIN nodes : "file_content" \in TagNeeds(nodes[i])}
SaysNothing(nodes, missing) ==
    /\ missing # {}
    /\ IF OfFile(nodes) = {} THEN missing = {i \in DOMAIN nodes : nodes[i].tag # "text"}
       ELSE OfFile(nodes) \subseteq missing

MusicNamed(op, s, cx, t) == IF SaysNothing(op.style, Missing(ValuesOf(op.style, cx))) THEN s ELSE Or(t, s)

\* On the text, t being what its field came to.
WithField(op, s, cx, t) ==
    CASE op.kind = "casing" -> Cased(op, s)
      [] op.kind = "space_trim" -> SpaceTrim(op, s)
      [] op.kind = "move_section" -> MoveSection(op, s)
      [] op.kind = "zero_padding" -> ZeroPadded(op.digits, s)
      [] op.kind = "replace" -> Replaced(op, s)
      [] op.kind = "add_remove" -> AddRemove(op, s)
      [] op.kind = "add_counter" -> CounterAdded(op, s, cx.counter)
      [] op.kind = "renumber" -> ReNumbered(op, s, cx.counter)
      [] op.kind = "music_rename" -> MusicNamed(op, s, cx, t)
      [] op.kind \in {"free_format", "csv_list", "filename_editor"} -> Or(t, s)

\* The tag fields of an operation that it will render.
FieldsOf(op) ==
    CASE op.kind = "replace" -> {op.with}
      [] op.kind = "batch_replace" -> {op.rules[i].with : i \in DOMAIN op.rules}
      [] op.kind = "add_remove" -> {op.insert}
      [] op.kind = "add_counter" -> IF op.replace THEN {op.with} ELSE {}
      [] op.kind = "renumber" -> IF NeedsOperand(op.action) THEN {op.operand} ELSE {}
      [] op.kind = "free_format" -> {op.pattern}
      [] op.kind = "rearrange" -> {op.layout[i].text : i \in {j \in DOMAIN op.layout : op.layout[j].slot = None}}
      [] op.kind = "csv_list" ->
            IF op.table \in {None, Failed} THEN {} ELSE {op.table[i].new : i \in DOMAIN op.table}
      [] op.kind = "filename_editor" -> {op.lines[i] : i \in DOMAIN op.lines}
      [] op.kind = "music_rename" -> {op.style}
      [] op.kind = "music_tagger" -> {op.fields[f] : f \in DOMAIN op.fields}
      [] OTHER -> {}

AppliedTo(op, s, cx, nodes, t) ==
    IF t = Failed THEN Failed ELSE WithField(IF nodes = None THEN op ELSE Given(op, t), s, cx, t)
AppliedBy(op, s, cx, said, nodes) ==
    AppliedTo(op, s, cx, nodes, IF nodes \in {None, Failed} THEN nodes ELSE said[nodes])

\* Operations of several fields: rules, and the pieces of a layout.
Rule(r, said) == [r EXCEPT !.with = said[@], !.swap = @ /\ Verbatim(r.with)]
ByRules(rules, s) ==
    IF \E i \in DOMAIN rules : rules[i].find # <<>> /\ rules[i].with = Failed THEN Failed
    ELSE BatchReplaced(rules, s)
LaidOut(op, s, laid) ==
    IF \E i \in DOMAIN laid : laid[i].text = Failed THEN Failed ELSE Rearranged(op.pattern, laid, s)

\* said is what each of its fields comes to for the row.
AppliedWith(op, s, cx, said) ==
    CASE op.kind = "batch_replace" -> ByRules([i \in DOMAIN op.rules |-> Rule(op.rules[i], said)], s)
      [] op.kind = "rearrange" ->
            LaidOut(op, s, [i \in DOMAIN op.layout |->
                [op.layout[i] EXCEPT !.text = IF op.layout[i].slot # None THEN <<>> ELSE said[@]]])
      [] op.kind \notin {"batch_replace", "rearrange"} -> AppliedBy(op, s, cx, said, FieldFor(op, s, cx))
Applied(op, s, cx) == The({AppliedWith(op, s, cx, said) : said \in {[f \in FieldsOf(op) |-> Field(f, cx)]}})

\* What the stack needs and asks before it runs.
StackNeeds == UNION {UNION {Needs(f) : f \in FieldsOf(stack[k].op)} : k \in {j \in Steps : stack[j].enabled}}

\* As a bug would have it: an action's fields are not asked about.
AskedOfNames ==
    UNION {UNION {Asks(f) : f \in FieldsOf(stack[k].op)} :
              k \in {j \in Steps : stack[j].enabled /\ stack[j].op.kind # "music_tagger"}}

StackAsks  == UNION {UNION {Asks(f) : f \in FieldsOf(stack[k].op)} : k \in {j \in Steps : stack[j].enabled}}

\* A row as its tag fields see it once everything asked is answered.
Reply == <<"y">>
InRun(i) == [Rows[i] EXCEPT !.answers = [n \in 0..9 |-> IF n \in StackAsks THEN Reply ELSE None],
                            !.clipboard = IF "clipboard" \in StackNeeds THEN Reply ELSE None]

-----------------------------------------------------------------------------
(* Actions: what is asked of the file, or None.                            *)

IsAction(op) == op.kind \in {"set_attributes", "remove_tags", "music_tagger"}

\* One field without a value spoils them all; an empty one is left out, and a
\* track that is not a number is left out and said to be.
ToWrite(text, skipped) ==
    IF \A f \in DOMAIN text : text[f] = <<>> THEN None
    ELSE [write |-> [f \in {g \in DOMAIN text \ skipped : text[g] # <<>>} |-> text[f]], skipped |-> skipped]
NoNumbers(text) == {f \in DOMAIN text \cap {"track"} : text[f] # <<>> /\ ~Digits(text[f])}
TagsToWrite(text) == ToWrite(text, NoNumbers(text))
ToTag(value, cx) ==
    IF DOMAIN value = {} \/ ~cx.audio \/ (\E f \in DOMAIN value : value[f] = None) THEN None
    ELSE TagsToWrite([f \in DOMAIN value |-> Trimmed(value[f], TRUE, TRUE)])
Tagged(op, cx) == ToTag([f \in DOMAIN op.fields |-> Field(op.fields[f], cx)], cx)

\* One with a tag that says nothing, before it is asked whether the file is music.
SaysNoTag(op) == \E f \in FieldsOf(op) : \E i \in DOMAIN f : ~IsTag(f[i], Known)

EffectOf(op, cx) ==
    CASE op.kind = "set_attributes" -> IF op.bits = {} THEN None ELSE [bits |-> op.bits]
      [] op.kind = "remove_tags" -> IF op.kinds = {} \/ ~cx.audio THEN None ELSE [remove |-> op.kinds]
      [] op.kind = "music_tagger" -> Tagged(op, cx)

-----------------------------------------------------------------------------
(* Scripts.  One may keep what it likes between the rows: all it can know  *)
(* is what it was asked so far, so its answer is a function of that.       *)

IsScript(op) == op.kind = "script"
IsLive(op) == IsScript(op) /\ op.script # None

\* Compiled and run once for the run, over the whole listing.
Session(op) == IF ~IsLive(op) THEN Idle ELSE IF op.starts THEN [is |-> "live", asked |-> <<>>] ELSE Broken

\* Numbers the rows it is asked about; has none for one on its list, and
\* leaves another alone.
Answer(op, asked, s) ==
    CASE s \in op.fails -> Failed
      [] s \in op.leaves -> s
      [] OTHER -> s \o DigitsOf(Len(asked))

\* What a script step makes of it: the text, and the session from then on.
Scripted(op, session, s) ==
    CASE session.is = "idle" -> [text |-> s, session |-> session]
      [] session.is = "failed" -> [text |-> Failed, session |-> session]
      [] OTHER -> LET now == [session EXCEPT !.asked = Append(@, s)]
                  IN  [text |-> Answer(op, now.asked, s), session |-> now]

\* done() speaks for a script that ran.
Said(session) == IF session.is = "live" THEN <<Len(session.asked)>> ELSE <<>>

-----------------------------------------------------------------------------
(* One row through the stack.                                              *)

PassesGate(step, row, name) ==
    /\ step.enabled
    /\ step.filter # None => Accepts(step.filter, row.path, name, row.dir)

\* The part of the name the step may change, or None.
SubjectOf(step, row, name) ==
    LET slice == Slice(step.scope, name, row.dir)
    IN  IF slice = None THEN None ELSE IF step.preproc = None THEN slice ELSE Narrowed(step.preproc, slice)

\* Where a row has come to: its name, the actions asked of it, what each
\* script knows, the row's error, and what each step was given.
Arrived(row) == [name |-> row.current, actions |-> {}, warned |-> {}, failed |-> FALSE]

Noted(k, at, effect) ==
    IF effect = None THEN at ELSE [at EXCEPT !.actions = @ \cup {[step |-> k, effect |-> effect]}]
Acted(step, k, row, at) ==
    IF SaysNoTag(step.op) THEN [at EXCEPT !.failed = TRUE]
    ELSE Noted(k, at, EffectOf(step.op, [row EXCEPT !.current = at.name]))

\* A rearrangement the name has not the shape for says so.
Warns(op, s) == op.kind = "rearrange" /\ op.layout # <<>> /\ Misfit(op.pattern, op.layout, s)

Named(step, k, at, subject, text) ==
    IF text = Active(subject) THEN [at EXCEPT !.warned = IF Warns(step.op, text) THEN @ \cup {k} ELSE @]
    ELSE IF text = Failed THEN [at EXCEPT !.failed = TRUE]
    ELSE [at EXCEPT !.name = Reassemble(subject, text)]

\* Step k of the row, with its session as it is.
Made(step, row, at, text, session) ==
    IF IsScript(step.op) THEN Scripted(step.op, session, text)
    ELSE [text |-> Applied(step.op, text, [row EXCEPT !.current = at.name]), session |-> session]
MovedOn(step, k, at, subject, made) == [at |-> Named(step, k, at, subject, made.text), session |-> made.session]
Stepped(step, k, row, at, subject, session) ==
    IF ~PassesGate(step, row, at.name) THEN [at |-> at, session |-> session]
    ELSE IF IsAction(step.op) THEN [at |-> Acted(step, k, row, at), session |-> session]
    ELSE IF subject = None THEN [at |-> at, session |-> session]
    ELSE MovedOn(step, k, at, subject, Made(step, row, at, Active(subject), session))

\* After the steps up to the last one asked for.
Onward(k, gone, done) == [at |-> done.at, ss |-> [gone.ss EXCEPT ![k] = done.session]]
TakenOn(k, row, gone) ==
    IF gone.at.failed THEN gone
    ELSE Onward(k, gone, Stepped(stack[k], k, row, gone.at, SubjectOf(stack[k], row, gone.at.name), gone.ss[k]))
Through(last, row, ss) ==
    LET gone[k \in 0..last] ==
            IF k = 0 THEN [at |-> Arrived(row), ss |-> ss] ELSE TakenOn(k, row, gone[k - 1])
    IN  gone[last]

CameOut(done) ==
    [out |-> IF done.at.failed THEN Failed
             ELSE [name |-> done.at.name, actions |-> done.at.actions, warned |-> done.at.warned],
     ss |-> done.ss]
Evaluated(i, ss) == CameOut(Through(Len(stack), InRun(i), ss))

-----------------------------------------------------------------------------
(* What the card of step k is shown of a row: the part of the name it will *)
(* be given.  Replayed between runs, when a script has nothing to say.     *)

Back(so, subject, text) ==
    IF text = Active(subject) THEN so
    ELSE IF text = Failed THEN [so EXCEPT !.failed = TRUE] ELSE [so EXCEPT !.name = Reassemble(subject, text)]
Replayed(step, row, so, subject) ==
    IF so.failed \/ ~PassesGate(step, row, so.name) \/ IsAction(step.op) \/ subject = None \/ IsScript(step.op)
    THEN so
    ELSE Back(so, subject, Applied(step.op, Active(subject), [row EXCEPT !.current = so.name]))
NameBefore(k, row) ==
    LET so[j \in 0..(k - 1)] ==
            IF j = 0 THEN [name |-> row.current, failed |-> FALSE]
            ELSE Replayed(stack[j], row, so[j - 1], SubjectOf(stack[j], row, so[j - 1].name))
    IN  so[k - 1]

\* As a bug would have it: the card's own filter and switch are not asked.
CardUngated(step, row, so) == IF so.failed \/ IsAction(step.op) THEN None ELSE SubjectOf(step, row, so.name)
OfCard(step, row, so) ==
    IF so.failed \/ IsAction(step.op) THEN None
    ELSE IF ~PassesGate(step, row, so.name) THEN None ELSE SubjectOf(step, row, so.name)
SubjectAt(k, row) == OfCard(stack[k], row, NameBefore(k, row))

UnreplayedBefore(k) == \E j \in 1..(k - 1) : stack[j].enabled /\ IsLive(stack[j].op)

-----------------------------------------------------------------------------
(* Runs.                                                                   *)

\* As a bug would have it: any thread takes any row.
NeverInOrder == FALSE

OrderSensitive == \E k \in Steps : stack[k].enabled /\ IsLive(stack[k].op)

Init ==
    /\ stack \in Stacks
    /\ sessions = [k \in Steps |-> Idle]
    /\ out = [i \in Order |-> Waiting]
    /\ running = FALSE /\ notes = <<>> /\ runs = 0

BeginRun ==
    /\ ~running /\ runs < MaxRuns
    /\ running' = TRUE /\ runs' = runs + 1
    /\ out' = [i \in Order |-> Waiting]
    /\ sessions' = [k \in Steps |-> IF OrderSensitive /\ stack[k].enabled /\ IsScript(stack[k].op)
                                    THEN Session(stack[k].op) ELSE sessions[k]]
    /\ notes' = <<>>
    /\ UNCHANGED stack

Row(i) ==
    /\ running /\ out[i] = Waiting
    /\ OrderSensitive => \A j \in 1..(i - 1) : out[j] # Waiting
    /\ \E done \in {Evaluated(i, sessions)} :
          /\ out' = [out EXCEPT ![i] = done.out]
          /\ sessions' = done.ss
    /\ UNCHANGED <<stack, running, notes, runs>>

SaidBy(ss) == FlattenSeq([k \in Steps |-> IF stack[k].enabled THEN Said(ss[k]) ELSE <<>>])

EndRun ==
    /\ running /\ \A i \in Order : out[i] # Waiting
    /\ running' = FALSE
    /\ notes' = SaidBy(sessions)
    /\ sessions' = [k \in Steps |-> IF stack[k].enabled THEN Idle ELSE sessions[k]]
    /\ UNCHANGED <<stack, out, runs>>

\* Another stack, built anew: no script in it has been begun.
EditStack ==
    /\ ~running /\ runs < MaxRuns
    /\ stack' \in Stacks \ {stack}
    /\ sessions' = [k \in DOMAIN stack' |-> Idle]
    /\ out' = [i \in Order |-> Waiting]
    /\ notes' = <<>>
    /\ UNCHANGED <<running, runs>>

Next == BeginRun \/ (\E i \in Order : Row(i)) \/ EndRun \/ EditStack

Spec == Init /\ [][Next]_vars

-----------------------------------------------------------------------------
(* Properties.                                                             *)

TypeOK ==
    /\ stack \in Stacks /\ running \in BOOLEAN /\ runs \in 0..MaxRuns
    /\ \A k \in Steps : sessions[k].is \in {"idle", "failed", "live"}
    /\ \A i \in Order : out[i] \in {Waiting, Failed} \/ out[i].name \in Seq(STRING)

\* The rows one after the other, from scripts just begun: how the nth comes out, and
\* what the scripts know from then on.
Anew == [k \in Steps |-> IF stack[k].enabled /\ IsScript(stack[k].op) THEN Session(stack[k].op) ELSE Idle]
Listed(n) ==
    LET listed[i \in 0..n] == IF i = 0 THEN [out |-> Waiting, ss |-> Anew] ELSE Evaluated(i, listed[i - 1].ss)
    IN  listed[n]

\* Whatever order the rows are evaluated in and however often the stack was
\* run before, a row comes out as it would in the listing's order from
\* scripts just begun, and done() speaks of that run's rows and of no other's
\* (evaluate_all_with, Script::begin_run and end_run).
RowsAreAsListed ==
    \A i \in {j \in Order : out[j] # Waiting} : \A listed \in {Listed(i)} :
        /\ out[i] = listed.out
        /\ i = Len(Rows) /\ ~running /\ (\A j \in Order : out[j] # Waiting) => notes = SaidBy(listed.ss)

\* What evaluating row i hands step k: its subject, or None.
HandedTo(step, row, at) ==
    IF at.failed \/ IsAction(step.op) THEN None
    ELSE IF ~PassesGate(step, row, at.name) THEN None ELSE SubjectOf(step, row, at.name)
Handed(k, i) == HandedTo(stack[k], InRun(i), Through(k - 1, InRun(i), sessions).at)

\* A position picked on what a card shows is one in what the run will hand
\* that card, unless a script before it is said not to have been replayed or
\* an action before it cannot be done at all (subject_at,
\* unreplayed_script_before).
ShownIsHanded ==
    \A k \in Steps, i \in Order :
        \/ UnreplayedBefore(k)
        \/ \E j \in 1..(k - 1) : IsAction(stack[j].op) /\ SaysNoTag(stack[j].op)
        \/ SubjectAt(k, InRun(i)) = Handed(k, i)

\* What is shown of an evaluation, and what is told of it, is what the run does: each row,
\* each script's last word, and each card's view of what it is handed.
TableIsTrue == RowsAreAsListed /\ ShownIsHanded

\* Once everything the stack asks is answered, no field of a step that is on
\* is left waiting: a row is never passed over for want of an answer nobody
\* was asked for (Pipeline::asks, needs; EvalCx::render).
NothingLeftToAsk ==
    \A k \in {j \in Steps : stack[j].enabled}, i \in Order :
        \A f \in FieldsOf(stack[k].op) : Field(f, [InRun(i) EXCEPT !.strict = FALSE]) # None
=============================================================================
