--------------------------------- MODULE Setup ---------------------------------
(***************************************************************************)
(* The pipeline as its user edits it (ren-gui, viewmodel/stack.rs and the  *)
(* card operations of app.rs): the cards, the one that is open, Visual     *)
(* Assist's strip in it, and what the pipeline asks before a run.  A card  *)
(* is known by an id, the strip's selection is measured on the name the    *)
(* cards above leave, and an answer belongs to a question; each of the     *)
(* three can be left behind by an edit somewhere else.                     *)
(*                                                                         *)
(* A step is a frame in which one thing happens.  Every frame ends by      *)
(* asking for a new preview when something changed, and what a frame       *)
(* leaves to the start of the next is done before that one draws, so it is *)
(* done here at the end of the step.  What else a run goes through is      *)
(* Window's.                                                               *)
(***************************************************************************)
EXTENDS Naturals, Sequences, FiniteSets, SequencesExt

CONSTANTS
    Blank,          \* no card, no strip, no text, no form, an unread clipboard
    Kinds,          \* the operations a card may be
    Offers,         \* the positions each offers to mark, in the editor's order
    AsksFor,        \* the slots each asks for once its text holds <Ask>
    Pastes,         \* the kinds whose text may hold <Clipboard>
    DefaultKind,    \* what "+ Add operation" makes
    Pipelines,         \* the pipelines of the presets: sequences of kinds
    Photos,         \* the files that may be listed, as lists
    Boards,         \* what the clipboard may hold; Blank where it cannot be read
    MaxCards, MaxMade, MaxChanges, MaxStarts

ASSUME SetupAssumption == \A files \in Photos : files \in Seq(ToSet(files))

VARIABLES
    cards,          \* [id, kind, full, on, born]; full: its text holds its tags
    nextId,         \* the last id given
    expanded,       \* the id of the open card
    strip,          \* Visual Assist: [card, target, file, text, for]
    marked,         \* the text its selection was made on
    listed,         \* the files of the listing
    answers,        \* [asks, clipboard]
    pendingAsk,     \* what the newest preview found unanswered: [slots, clipboard]
    asking,         \* the form, while it is open
    stale,          \* a preview is on its way
    deferred,       \* a run waits for it
    running,        \* a run is out
    board,          \* the clipboard
    laid, changes, starts,      \* what the bounds count; laid also tells cards apart
    outlived,       \* slots answered before the pipeline last stopped asking for them
    told,           \* what the form was last confirmed for, and when: [slots, clipboard, when]
    sinceIt         \* what the clipboard has held since then

stackVars == <<cards, nextId, expanded, laid>>
stripVars == <<strip, marked>>
askVars == <<answers, pendingAsk, asking, outlived, told, sinceIt>>
runVars == <<stale, deferred, running, starts>>
setupVars == <<stackVars, stripVars, askVars, runVars, listed, board, changes>>

-----------------------------------------------------------------------------
(* The stack.                                                              *)

NoForm == [slots |-> {}, clipboard |-> FALSE]

IndexOf(stack, id) ==
    IF \E i \in DOMAIN stack : stack[i].id = id
      THEN CHOOSE i \in DOMAIN stack : stack[i].id = id ELSE 0
FirstId(stack) == IF stack = <<>> THEN Blank ELSE stack[1].id

Card(id, kind, born) == [id |-> id, kind |-> kind, full |-> TRUE, on |-> TRUE, born |-> born]

\* A preset's cards at the end of a stack whose last id is given.
Appended(stack, id, kinds) ==
    stack \o [i \in DOMAIN kinds |-> Card(id + i, kinds[i], laid + i)]

-----------------------------------------------------------------------------
(* What a pipeline asks, and the name a card is handed.                    *)

Enabled(stack) == {i \in DOMAIN stack : stack[i].on /\ stack[i].full}
Asks(stack) == UNION {AsksFor[stack[i].kind] : i \in Enabled(stack)}
WantsClipboard(stack) == \E i \in Enabled(stack) : stack[i].kind \in Pastes

\* Of the text only what it depends on: the file, the cards above, and for a place
\* to add at, what the card itself has taken away before.
TextFor(stack, id, target, file) ==
    LET i == IndexOf(stack, id)
        above == SelectSeq(SubSeq(stack, 1, i - 1), LAMBDA c : c.on /\ c.full)
    IN IF file = Blank \/ ~stack[i].on THEN Blank
       ELSE [file |-> file, above |-> [j \in DOMAIN above |-> above[j].kind],
             own |-> target = "add" /\ Len(Offers[stack[i].kind]) > 1 /\ stack[i].full]

OpeningFile(files, showing) ==
    IF showing \in ToSet(files) THEN showing ELSE IF files = <<>> THEN Blank ELSE files[1]

-----------------------------------------------------------------------------
(* The end of a frame.                                                     *)

AllAnswers(stack, given) == given   \* mutant: an answer stays
\* An answer goes with its question.
KeptAnswers(stack, given) ==
    [asks |-> given.asks \cap Asks(stack),
     clipboard |-> IF WantsClipboard(stack) THEN given.clipboard ELSE Blank]

Unanswered(stack, given) ==
    [slots |-> Asks(stack) \ given.asks,
     clipboard |-> WantsClipboard(stack) /\ given.clipboard = Blank]

\* The strip over a stack and a listing: gone with its card, shut when its card is
\* no longer the open one, and showing the name as it is now.
Recomputed(s, stack, open, files) ==
    IF s = Blank \/ IndexOf(stack, s.card) = 0 \/ open # s.card THEN Blank
    ELSE LET file == OpeningFile(files, s.file)
         IN [s EXCEPT !.file = IF file = Blank THEN @ ELSE file,
                      !.text = TextFor(stack, s.card, s.target, file)]

AnyMark(was, now, mark) == IF now = Blank THEN Blank ELSE mark    \* mutant: whatever is shown
\* A selection made on another text is forgotten.
KeptMark(was, now, mark) ==
    IF now = Blank \/ was = Blank \/ now.text # was.text THEN Blank ELSE mark

\* The end of a frame that changed what the preview is made of.  s is the strip with
\* the mark on it, as the frame leaves them.
Settles(stack, open, s, mark, files, given) ==
    /\ strip' = Recomputed(s, stack, open, files)
    /\ marked' = KeptMark(s, strip', mark)
    /\ answers' = KeptAnswers(stack, given)
    /\ pendingAsk' = Unanswered(stack, answers')
    /\ outlived' = {q \in answers'.asks : q \in outlived \cap answers.asks \/ q \notin Asks(stack)}
    /\ stale' = TRUE

\* A frame that changed no more than which card is open.
OnlyOpens(open) ==
    /\ strip' = IF strip # Blank /\ open # strip.card THEN Blank ELSE strip
    /\ marked' = IF strip' = Blank THEN Blank ELSE marked
    /\ UNCHANGED <<answers, pendingAsk, outlived, stale>>

Modal == asking # Blank
Change == changes < MaxChanges /\ changes' = changes + 1
Edit == ~Modal /\ Change
Restack(stack, open, id, n) ==
    /\ cards' = stack /\ expanded' = open /\ nextId' = id /\ laid' = laid + n

-----------------------------------------------------------------------------
(* The cards.                                                              *)

Room(n) == Len(cards) + n <= MaxCards /\ laid + n <= MaxMade
Kept == UNCHANGED <<listed, asking, told, sinceIt, deferred, running, starts, board>>

\* After the open card, or at the end.
AddOperation ==
    /\ Edit /\ Room(1)
    /\ LET new == Card(nextId + 1, DefaultKind, laid + 1)
           i == IF expanded = Blank THEN Len(cards) ELSE IndexOf(cards, expanded)
       IN  Restack(InsertAt(cards, i + 1, new), new.id, new.id, 1)
    /\ Settles(cards', expanded', strip, marked, listed, answers)
    /\ Kept

ChangeCardKind ==
    /\ Edit
    /\ \E i \in DOMAIN cards, k \in Kinds :
         k # cards[i].kind /\ Restack([cards EXCEPT ![i].kind = k, ![i].full = TRUE], cards[i].id, nextId, 0)
    /\ Settles(cards', expanded', strip, marked, listed, answers)
    /\ Kept

\* In the open card's editor, or at a card's switch.
EditsCard ==
    /\ Edit
    /\ \E i \in DOMAIN cards :
         \/ cards[i].id = expanded
            /\ Restack([cards EXCEPT ![i].full = ~@], expanded, nextId, 0)
         \/ Restack([cards EXCEPT ![i].on = ~@], expanded, nextId, 0)
    /\ Settles(cards', expanded', strip, marked, listed, answers)
    /\ Kept

MoveCard ==
    /\ Edit
    /\ \E from, to \in DOMAIN cards :
         /\ from # to
         /\ Restack(InsertAt(RemoveAt(cards, from), to, cards[from]), expanded, nextId, 0)
    /\ Settles(cards', expanded', strip, marked, listed, answers)
    /\ Kept

DuplicateCard ==
    /\ Edit /\ Room(1)
    /\ \E i \in DOMAIN cards :
         LET copy == [cards[i] EXCEPT !.id = nextId + 1, !.born = laid + 1]
         IN  Restack(InsertAt(cards, i + 1, copy), copy.id, copy.id, 1)
    /\ Settles(cards', expanded', strip, marked, listed, answers)
    /\ Kept

DeleteCard ==
    /\ Edit
    /\ \E i \in DOMAIN cards :
         LET rest == RemoveAt(cards, i)
         IN  Restack(rest, IF expanded # Blank /\ IndexOf(rest, expanded) = 0 THEN FirstId(rest)
                           ELSE expanded, nextId, 0)
    /\ Settles(cards', expanded', strip, marked, listed, answers)
    /\ Kept

ExpandCard ==
    /\ Edit
    /\ \E i \in DOMAIN cards :
         Restack(cards, IF expanded = cards[i].id THEN Blank ELSE cards[i].id, nextId, 0)
    /\ OnlyOpens(expanded')
    /\ Kept

\* A different pipeline asks different questions; its ids start over.
Loaded(kinds) ==
    /\ Len(kinds) <= MaxCards /\ laid + Len(kinds) <= MaxMade
    /\ Restack(Appended(<<>>, 0, kinds), FirstId(cards'), Len(kinds), Len(kinds))
    /\ Settles(cards', expanded', strip, marked, listed, [asks |-> {}, clipboard |-> Blank])

LoadPreset ==
    /\ Edit
    /\ \E kinds \in Pipelines : Loaded(kinds)
    /\ Kept

AppendPreset ==
    /\ Edit
    /\ \E kinds \in Pipelines :
         /\ Room(Len(kinds))
         /\ Restack(Appended(cards, nextId, kinds), expanded, nextId + Len(kinds), Len(kinds))
    /\ Settles(cards', expanded', strip, marked, listed, [asks |-> {}, clipboard |-> Blank])
    /\ Kept

\* The listing is another: read again, sorted, or another selection.
ListingChanges ==
    /\ Change
    /\ listed' \in Photos \ {listed}
    /\ Settles(cards, expanded, strip, marked, listed', answers)
    /\ UNCHANGED <<stackVars, asking, told, sinceIt, deferred, running, starts, board>>

-----------------------------------------------------------------------------
(* Visual Assist.                                                          *)

Assisted == /\ UNCHANGED stackVars /\ Kept

\* A position of the open card: the strip opens there with what the card says already
\* marked, or moves there from the card's other, or shuts when it is there.
PointsAt(target) ==
    IF strip # Blank /\ strip.card = expanded /\ strip.target = target
      THEN strip' = Blank /\ marked' = Blank /\ UNCHANGED <<answers, pendingAsk, outlived, stale>>
    ELSE IF strip # Blank /\ strip.card = expanded
      THEN Settles(cards, expanded, [strip EXCEPT !.target = target], Blank, listed, answers)
    ELSE /\ listed # <<>>
         /\ LET s == [card |-> expanded, target |-> target, file |-> listed[1],
                      text |-> TextFor(cards, expanded, target, listed[1]),
                      for |-> cards[IndexOf(cards, expanded)].born]
            IN \E seed \in {Blank, s.text} : Settles(cards, expanded, s, seed, listed, answers)

OpenCard == IndexOf(cards, expanded)
PointVisualAssist ==
    /\ Edit /\ expanded # Blank
    /\ \E i \in DOMAIN Offers[cards[OpenCard].kind] : PointsAt(Offers[cards[OpenCard].kind][i])
    /\ Assisted

\* F3: the first position, the next, shut.
CycleVisualAssist ==
    /\ Edit /\ expanded # Blank
    /\ LET offered == Offers[cards[OpenCard].kind]
           at == IF strip = Blank \/ strip.card # expanded THEN 0
                 ELSE IF strip.target \in ToSet(offered)
                   THEN CHOOSE i \in DOMAIN offered : offered[i] = strip.target
                 ELSE Len(offered)
       IN /\ offered # <<>>
          /\ IF at < Len(offered) THEN PointsAt(offered[at + 1])
             ELSE strip' = Blank /\ marked' = Blank /\ UNCHANGED <<answers, pendingAsk, outlived, stale>>
    /\ Assisted

ShowsFile ==
    /\ Edit /\ strip # Blank
    /\ \E f \in ToSet(listed) \ {strip.file} :
         Settles(cards, expanded, [strip EXCEPT !.file = f], Blank, listed, answers)
    /\ Assisted

\* Selecting in the text on screen.
MarksText ==
    /\ ~Modal /\ strip # Blank /\ strip.text # Blank
    /\ marked' = strip.text
    /\ UNCHANGED <<stackVars, strip, askVars, runVars, listed, board, changes>>

\* Select: what is marked goes into the card, when it is of the kind the strip was
\* opened on, and the strip shuts.
CommitVisualAssist ==
    /\ Edit /\ strip # Blank /\ marked # Blank
    /\ LET i == IndexOf(cards, strip.card)
       IN Restack(IF strip.target \in ToSet(Offers[cards[i].kind])
                    THEN [cards EXCEPT ![i].full = TRUE] ELSE cards, expanded, nextId, 0)
    /\ Settles(cards', expanded, Blank, Blank, listed, answers)
    /\ Kept

CloseVisualAssist ==
    /\ Edit /\ strip # Blank
    /\ strip' = Blank /\ marked' = Blank
    /\ UNCHANGED <<answers, pendingAsk, outlived, stale>>
    /\ Assisted

-----------------------------------------------------------------------------
(* A run.                                                                  *)

\* Every way a run starts comes through here: deferred, asked for, or sent.
Run(wait) ==
    IF stale THEN deferred' = TRUE /\ UNCHANGED <<asking, running, starts>>
    ELSE IF pendingAsk # NoForm
      THEN asking' = pendingAsk /\ deferred' = wait /\ UNCHANGED <<running, starts>>
    ELSE /\ deferred' = wait
         /\ asking' = asking
         /\ IF running \/ cards = <<>> THEN UNCHANGED <<running, starts>>
            ELSE starts < MaxStarts /\ running' = TRUE /\ starts' = starts + 1

PressesRename ==
    /\ ~Modal
    /\ IF deferred THEN UNCHANGED <<told, sinceIt>> ELSE told' = Blank /\ sinceIt' = {board}
    /\ Run(deferred)
    /\ UNCHANGED <<stackVars, stripVars, answers, pendingAsk, outlived, stale, listed, board, changes>>

\* A preset's own Run.
RunPreset ==
    /\ Edit
    /\ \E kinds \in Pipelines : Loaded(kinds)
    /\ deferred' = TRUE /\ told' = Blank /\ sinceIt' = {board}
    /\ UNCHANGED <<listed, asking, running, starts, board>>

Deferred ==
    /\ deferred /\ ~stale /\ ~Modal
    /\ Run(FALSE)
    /\ UNCHANGED <<stackVars, stripVars, answers, pendingAsk, outlived, stale, told, sinceIt, listed,
                   board, changes>>

PlanArrives ==
    /\ stale /\ stale' = FALSE
    /\ UNCHANGED <<stackVars, stripVars, askVars, deferred, running, starts, listed, board, changes>>

\* The form is confirmed: the clipboard is read now, and the run waits for the preview.
ConfirmsAsk ==
    /\ Modal
    /\ asking' = Blank /\ deferred' = TRUE
    /\ told' = [slots |-> asking.slots, clipboard |-> asking.clipboard, when |-> changes]
    /\ Settles(cards, expanded, strip, marked, listed,
                [asks |-> answers.asks \cup asking.slots,
                 clipboard |-> IF asking.clipboard /\ board # Blank THEN board ELSE answers.clipboard])
    /\ UNCHANGED <<stackVars, sinceIt, running, starts, listed, board, changes>>

CancelsAsk ==
    /\ Modal
    /\ asking' = Blank
    /\ UNCHANGED <<stackVars, stripVars, answers, pendingAsk, outlived, told, sinceIt, runVars, listed,
                   board, changes>>

\* A rename is done: its strip shuts, the listing is another.
RunLands ==
    /\ running /\ running' = FALSE
    /\ listed' \in Photos
    /\ Settles(cards, expanded, Blank, Blank, listed', answers)
    /\ UNCHANGED <<stackVars, asking, told, sinceIt, deferred, starts, board, changes>>

\* Another program copies something.
BoardChanges ==
    /\ Change
    /\ board' \in Boards \ {board}
    /\ sinceIt' = sinceIt \cup {board'}
    /\ UNCHANGED <<stackVars, stripVars, answers, pendingAsk, asking, outlived, told, runVars, listed>>

SetupInit ==
    /\ \E kinds \in Pipelines :
         /\ cards = [i \in DOMAIN kinds |-> Card(i, kinds[i], i)]
         /\ nextId = Len(kinds) /\ laid = Len(kinds)
    /\ expanded = FirstId(cards)
    /\ strip = Blank /\ marked = Blank
    /\ listed \in Photos
    /\ answers = [asks |-> {}, clipboard |-> Blank]
    /\ pendingAsk = Unanswered(cards, answers)
    /\ asking = Blank /\ stale = TRUE /\ deferred = FALSE /\ running = FALSE
    /\ board \in Boards /\ sinceIt = {board}
    /\ changes = 0 /\ starts = 0
    /\ outlived = {} /\ told = Blank

SetupNext ==
    \/ AddOperation \/ ChangeCardKind \/ EditsCard \/ MoveCard \/ DuplicateCard \/ DeleteCard
    \/ ExpandCard \/ LoadPreset \/ AppendPreset \/ ListingChanges
    \/ PointVisualAssist \/ CycleVisualAssist \/ ShowsFile \/ MarksText
    \/ CommitVisualAssist \/ CloseVisualAssist
    \/ PressesRename \/ RunPreset \/ Deferred \/ PlanArrives \/ ConfirmsAsk \/ CancelsAsk
    \/ RunLands \/ BoardChanges

SetupSpec == SetupInit /\ [][SetupNext]_setupVars

-----------------------------------------------------------------------------
(* Properties                                                              *)

Starts == ~running /\ running'

\* What a Select writes was marked on the very text its card is handed, whatever was
\* moved, switched, edited, listed or loaded while the strip was open (Visual Assist:
\* a position measured on another name would be written into the card).
SelectIsOfItsText ==
    marked # Blank => marked = TextFor(cards, strip.card, strip.target, OpeningFile(listed, strip.file))

\* A run starts with an answer to everything its pipeline asks, and every one of them
\* was given since the pipeline began to ask: none is an answer to a question that
\* left the screen (forget_stale_answers, app.rs).
AnswersAreToItsQuestions ==
    [][Starts => /\ Asks(cards) \subseteq answers.asks
                 /\ outlived \cap Asks(cards) = {}
                 /\ WantsClipboard(cards) => answers.clipboard # Blank]_setupVars

\* What the form was confirmed for it does not ask again before the run: a clipboard
\* that cannot be read leaves its tag unavailable (panels/ask.rs).
ConfirmedIsEnough ==
    [][asking = Blank /\ asking' # Blank /\ told # Blank /\ told' = told /\ changes = told.when =>
         ~(asking'.slots \subseteq told.slots /\ (asking'.clipboard => told.clipboard))]_setupVars

\* The clipboard a run uses is the clipboard as it has been since Rename was pressed:
\* it is read when the rename starts (panels/ask.rs, docs/manual.md).
ClipboardIsReadAtTheStart ==
    [][Starts /\ WantsClipboard(cards) => answers.clipboard \in sinceIt]_setupVars

\* Why the two hold: the strip always shows the name as the cards and the listing now
\* leave it, a mark is on what the strip shows, and no answer is kept that the pipeline
\* does not ask for, so that what is unanswered is all that is missing.
StripShape(s) ==
    s = [card |-> s.card, target |-> s.target, file |-> s.file, text |-> s.text, for |-> s.for]
StripShowsTheName ==
    strip # Blank =>
        /\ StripShape(strip)
        /\ strip.text = TextFor(cards, strip.card, strip.target, OpeningFile(listed, strip.file))
MarkIsOnTheStrip == marked # Blank => strip # Blank /\ marked = strip.text
AnswersAreAskedFor ==
    /\ answers.asks \subseteq Asks(cards)
    /\ pendingAsk = Unanswered(cards, answers)
    /\ outlived = {}
SetupInv == listed \in Photos /\ StripShowsTheName /\ MarkIsOnTheStrip /\ AnswersAreAskedFor

\* A Select would reach the card its strip was opened on, or none: an id is a card's
\* for as long as the program runs (CardId, viewmodel/stack.rs).
SelectReachesItsCard ==
    marked # Blank =>
        LET card == cards[IndexOf(cards, strip.card)]
        IN  strip.target \in ToSet(Offers[card.kind]) => card.born = strip.for
=============================================================================
