-------------------------------- MODULE Editors --------------------------------
(***************************************************************************)
(* The open card (ren-gui: editors/*.rs, panels/operation.rs, and the      *)
(* widgets they draw).  An editor shows the boxes of an operation that     *)
(* matter as it stands and puts away, or greys, the others without         *)
(* emptying them; a tick that is taken off keeps what stood behind it; and *)
(* the rows of a list keep their boxes' undo history under keys of their   *)
(* own.  In each case what is not on the screen outlives what is.          *)
(*                                                                         *)
(* A step is a frame in which one box is touched.  A text is one of a few; *)
(* typing, the menu of tags and the menu of recent values all come to one  *)
(* of them.                                                                *)
(***************************************************************************)
EXTENDS Naturals, Sequences, Functions

CONSTANTS
    Blank,          \* nothing: no value, no filter, no pre-processor
    Texts, Tagged,  \* what a plain box may hold, and one that takes tags
    Usable,         \* the music styles of Settings -> the boxes each one fills, or Blank
    ScriptNames,    \* the scripts in the folder
    Writable,       \* the attributes and times this platform can write
    Cells,          \* listed files, as [stem, ext]; ext Blank where there is none
    MaxTouches, MaxIds, MaxRows, MaxLaid, MaxKeys    \* bounds

Empty == ""
MusicFields == {"artist", "genre"}
Searched == [text : Texts, regex : BOOLEAN]

\* A text may be left empty; and a style fills the boxes of Music Tagger.
ASSUME EditorsAssumption ==
    /\ {Empty, "a", "b"} \subseteq Texts /\ Tagged # {} /\ Blank \notin Texts \cup Tagged \cup Searched
    /\ \A s \in DOMAIN Usable : Usable[s] # Blank => DOMAIN Usable[s] \subseteq MusicFields
    /\ MaxIds \in Nat \ {0} /\ MaxKeys \in Nat

VARIABLES
    card,           \* [id, op, scope, filter, preproc]
    lastId,         \* the last id given
    memory,         \* what egui keeps: <<card id, box>> -> value, or Blank
    dating,         \* what stands in a date box while it has the focus and does not read
    runParts,       \* Setup Parts, which Quick Setup writes too
    copied,         \* the names the Filename Editor was last filled with, while they stand
    cells,          \* the listing
    touches

editVars == <<card, lastId, memory, dating, runParts, copied, cells, touches>>

Numbers == {0, 1}
\* What a box may come to: nothing, where it is not there to be touched.
Live(yes, values) == IF yes THEN values ELSE {}
Remembered(box, otherwise) == IF memory[<<card.id, box>>] = Blank THEN otherwise ELSE memory[<<card.id, box>>]
Remember(box, value) == memory' = [memory EXCEPT ![<<card.id, box>>] = value]

-----------------------------------------------------------------------------
(* The editors: the boxes that can be touched, and what each may come to.  *)

\* A box that takes tags: typed in, from the menu of tags, or from the recent values.
TagBox == Tagged

ReplaceUi(op) ==
    [find |-> Texts, replace |-> TagBox, skip |-> Numbers, max |-> Numbers,
     case_sensitive |-> BOOLEAN, swap |-> BOOLEAN, regex |-> BOOLEAN]
CasingUi(op) ==
    [mode |-> {"title", "random", "upper", "none"}, preserve_all_upper |-> BOOLEAN,
     preserve_mixed |-> BOOLEAN, use_exceptions |-> BOOLEAN, words |-> Texts,
     lowercase_exceptions |-> Live(op.mode = "title", BOOLEAN), seed |-> Live(op.mode = "random", Numbers)]
AddRemoveUi(op) ==
    LET removes(values) == Live(op.mode # "add", values)
        adds(values) == Live(op.mode # "remove", values)
    IN  [mode |-> {"add", "remove", "both"},
         delete |-> removes(Numbers), remove_pos |-> removes(Numbers), remove_backwards |-> removes(BOOLEAN),
         insert |-> adds(TagBox), add_pos |-> adds(Numbers), add_backwards |-> adds(BOOLEAN),
         overwrite |-> adds(BOOLEAN)]
MoveSectionUi(op) ==
    [cut |-> Numbers, from_pos |-> Numbers, from_backwards |-> BOOLEAN, to_pos |-> Numbers,
     to_backwards |-> BOOLEAN, relative |-> BOOLEAN]
SpaceTrimUi(op) ==
    [leading |-> BOOLEAN, trailing |-> BOOLEAN, shrink |-> BOOLEAN, maintain_before |-> Texts,
     maintain_after |-> Texts, underscores_to_spaces |-> BOOLEAN]
ZeroPaddingUi(op) == [digits |-> Numbers]
AddCounterUi(op) ==
    [placement |-> {"first", "last"}, separator |-> Texts, replace_name |-> BOOLEAN,
     replacement |-> Live(op.replace_name, TagBox)]
NeedsOperand(action) == action \notin {"counter", "remove"}
ReNumberUi(op) ==
    LET limits(b) == {Blank, 0} \cup Live(op[b] # Blank, Numbers)
    IN  [target |-> {"first", "all"}, action |-> {"add", "counter", "remove"}, minus_signs |-> BOOLEAN,
         decimal_points |-> BOOLEAN, keep_length |-> BOOLEAN, at_least |-> limits("at_least"),
         at_most |-> limits("at_most"), operand |-> Live(NeedsOperand(op.action), TagBox)]
FreeFormatUi(op) == [pattern |-> TagBox]
\* The builder gives the layout.
RearrangeUi(op) == [split |-> Live(op.layout, Texts)]
MusicRenameUi(op) == [style |-> TagBox \cup DOMAIN Usable]
\* A genre is picked; the other boxes are typed in.
MusicTaggerUi(op) ==
    [f \in MusicFields |-> Live(op[f] # Blank, IF f = "genre" THEN Texts \ {Empty} ELSE TagBox)]
RemoveTagsUi(op) == [id3v1 |-> BOOLEAN, id3v2 |-> BOOLEAN, lyrics |-> BOOLEAN]
CsvListUi(op) ==
    [file |-> Texts, separator |-> {"comma", "other"}, old_column |-> {1, 2}, new_column |-> {1, 2},
     case_sensitive |-> BOOLEAN, separator_char |-> Live(op.separator = "other", Texts)]
Attributes == {"read_only", "hidden"}
Ticked(value) == IF value = "keep" THEN "clear" ELSE IF value = "clear" THEN "set" ELSE "keep"
SetAttributesUi(op) == [b \in Attributes |-> Live(b \in Writable, {Ticked(op[b])})]
Targets == {"created", "modified"}
UsesWallClock(op) == op.source = "entered"
UsesInterval(op)  == op.source \in {"added", "subtracted"}
DateTargetsUi(t) == Live(t \in Writable, BOOLEAN)
SetDateUi(op) ==
    [source |-> {"entered", "added", "now"}, year |-> BOOLEAN, date |-> Live(UsesWallClock(op), Numbers),
     interval |-> Live(UsesInterval(op), Numbers), created |-> DateTargetsUi("created"),
     modified |-> DateTargetsUi("modified")]
ScriptUi(op) == [script |-> ScriptNames \cup {Empty}, args |-> Texts]

Ui(op) ==
    CASE op.kind = "replace"       -> ReplaceUi(op)
      [] op.kind = "casing"        -> CasingUi(op)
      [] op.kind = "add_remove"    -> AddRemoveUi(op)
      [] op.kind = "move_section"  -> MoveSectionUi(op)
      [] op.kind = "space_trim"    -> SpaceTrimUi(op)
      [] op.kind = "zero_padding"  -> ZeroPaddingUi(op)
      [] op.kind = "add_counter"   -> AddCounterUi(op)
      [] op.kind = "renumber"      -> ReNumberUi(op)
      [] op.kind = "free_format"   -> FreeFormatUi(op)
      [] op.kind = "rearrange"     -> RearrangeUi(op)
      [] op.kind = "music_rename"  -> MusicRenameUi(op)
      [] op.kind = "music_tagger"  -> MusicTaggerUi(op)
      [] op.kind = "remove_tags"   -> RemoveTagsUi(op)
      [] op.kind = "csv_list"      -> CsvListUi(op)
      [] op.kind = "set_attributes" -> SetAttributesUi(op)
      [] op.kind = "set_date"      -> SetDateUi(op)
      [] op.kind = "script"        -> ScriptUi(op)
      [] OTHER                     -> <<>>
\* The boxes there are to be touched.
Boxes(op) == {b \in DOMAIN Ui(op) : Ui(op)[b] # {}}

-----------------------------------------------------------------------------
(* The operations: what each is made as, and what its work depends on.     *)

Fresh == [
    replace |-> [kind |-> "replace", find |-> Empty, replace |-> Empty, skip |-> 0, max |-> 0,
                 case_sensitive |-> FALSE, swap |-> FALSE, regex |-> FALSE],
    batch_replace |-> [kind |-> "batch_replace"],
    casing |-> [kind |-> "casing", mode |-> "title", preserve_all_upper |-> FALSE, preserve_mixed |-> FALSE,
                use_exceptions |-> TRUE, words |-> "a", lowercase_exceptions |-> FALSE, seed |-> 0],
    add_remove |-> [kind |-> "add_remove", mode |-> "add", delete |-> 0, remove_pos |-> 0,
                    remove_backwards |-> FALSE, insert |-> Empty, add_pos |-> 0, add_backwards |-> FALSE,
                    overwrite |-> FALSE],
    move_section |-> [kind |-> "move_section", cut |-> 0, from_pos |-> 0, from_backwards |-> FALSE,
                      to_pos |-> 0, to_backwards |-> FALSE, relative |-> FALSE],
    space_trim |-> [kind |-> "space_trim", leading |-> TRUE, trailing |-> TRUE, shrink |-> TRUE,
                    maintain_before |-> Empty, maintain_after |-> "a", underscores_to_spaces |-> TRUE],
    zero_padding |-> [kind |-> "zero_padding", digits |-> 1],
    add_counter |-> [kind |-> "add_counter", placement |-> "first", separator |-> "a",
                     replace_name |-> FALSE, replacement |-> Empty],
    renumber |-> [kind |-> "renumber", target |-> "first", action |-> "add", minus_signs |-> FALSE,
                  decimal_points |-> FALSE, keep_length |-> FALSE, at_least |-> Blank, at_most |-> Blank,
                  operand |-> Empty],
    free_format |-> [kind |-> "free_format", pattern |-> Empty],
    rearrange |-> [kind |-> "rearrange", layout |-> FALSE, split |-> Empty],
    music_rename |-> [kind |-> "music_rename", style |-> "a"],
    music_tagger |-> [kind |-> "music_tagger", artist |-> Blank, genre |-> Blank],
    remove_tags |-> [kind |-> "remove_tags", id3v1 |-> FALSE, id3v2 |-> FALSE, lyrics |-> FALSE],
    csv_list |-> [kind |-> "csv_list", file |-> Empty, separator |-> "comma", separator_char |-> Empty,
                  old_column |-> 1, new_column |-> 2, case_sensitive |-> FALSE],
    filename_editor |-> [kind |-> "filename_editor", text |-> <<Empty>>],
    set_attributes |-> [kind |-> "set_attributes", read_only |-> "keep", hidden |-> "keep"],
    set_date |-> [kind |-> "set_date", source |-> "entered", date |-> 0, interval |-> 1, year |-> FALSE,
                  created |-> FALSE, modified |-> TRUE],
    script |-> [kind |-> "script", script |-> Empty, args |-> Empty]]

Catalogue == [general  |-> {"replace", "rearrange", "batch_replace", "casing", "add_remove", "move_section", "space_trim"},
              numbers  |-> {"add_counter", "renumber", "zero_padding"},
              music    |-> {"music_rename", "music_tagger", "remove_tags"},
              advanced |-> {"free_format", "set_attributes", "set_date", "csv_list", "filename_editor", "script"}]
\* The group an operation says it is of; the picker lists it there.
GroupOf(kind) ==
    CASE kind \in {"add_counter", "renumber", "zero_padding"}        -> "numbers"
      [] kind \in {"music_rename", "music_tagger", "remove_tags"}    -> "music"
      [] kind \in {"free_format", "set_attributes", "set_date", "csv_list", "filename_editor", "script"} -> "advanced"
      [] OTHER                                                      -> "general"
\* The catalogue offers every operation, once, in its group.
ASSUME CatalogueIsTrue ==
    /\ UNION {Catalogue[g] : g \in DOMAIN Catalogue} = DOMAIN Fresh
    /\ \A g \in DOMAIN Catalogue : \A k \in Catalogue[g] : GroupOf(k) = g

DefaultScope(kind) == IF kind = "free_format" THEN "both" ELSE "name"
IsAction(op) == op.kind \in {"set_attributes", "set_date", "music_tagger", "remove_tags"}

CasingReads(op) ==
    IF op.mode = "none" THEN {"mode"}
    ELSE {"mode", "preserve_all_upper", "preserve_mixed", "use_exceptions"}
         \cup {b \in {"words"} : op.use_exceptions}
         \cup {b \in {"lowercase_exceptions"} : op.mode = "title"} \cup {b \in {"seed"} : op.mode = "random"}
AddRemoveReads(op) ==
    {"mode"} \cup {b \in {"delete", "remove_pos", "remove_backwards"} : op.mode \in {"remove", "both"}}
             \cup {b \in {"insert", "add_pos", "add_backwards", "overwrite"} : op.mode \in {"add", "both"}}
AddCounterReads(op) == {"placement", "separator", "replace_name"} \cup {b \in {"replacement"} : op.replace_name}
ReNumberReads(op) ==
    {"target", "action", "minus_signs", "decimal_points", "keep_length"}
    \cup {b \in {"operand"} : NeedsOperand(op.action)} \cup {b \in {"at_least", "at_most"} : op[b] # Blank}
RearrangeReads(op) == {b \in {"split"} : op.layout}
MusicTaggerReads(op) == {f \in MusicFields : op[f] # Blank}
CsvListReads(op) ==
    {"file", "separator", "old_column", "new_column", "case_sensitive"}
    \cup {b \in {"separator_char"} : op.separator = "other"}
SetAttributesReads(op) == {b \in Attributes : op[b] # "keep"}
SetDateReads(op) ==
    {"source", "year"} \cup {b \in {"date"} : UsesWallClock(op)} \cup {b \in {"interval"} : UsesInterval(op)}
    \cup {t \in Targets : op[t]}
Reads(op) ==
    CASE op.kind = "casing"      -> CasingReads(op)
      [] op.kind = "add_remove"  -> AddRemoveReads(op)
      [] op.kind = "add_counter" -> AddCounterReads(op)
      [] op.kind = "renumber"    -> ReNumberReads(op)
      [] op.kind = "rearrange"   -> RearrangeReads(op)
      [] op.kind = "music_tagger" -> MusicTaggerReads(op)
      [] op.kind = "csv_list"    -> CsvListReads(op)
      [] op.kind = "set_attributes" -> SetAttributesReads(op)
      [] op.kind = "set_date"    -> SetDateReads(op)
      [] OTHER                   -> DOMAIN op \ {"kind", "text"}

\* What a change to a file needs of the platform; a run that lacks some of it is refused.
Requires(op) ==
    IF op.kind = "set_attributes" THEN SetAttributesReads(op)
    ELSE IF op.kind = "set_date" THEN {t \in Targets : op[t]} ELSE {}

-----------------------------------------------------------------------------
(* The pre-processor and the filter of the card.                           *)

Counts   == {"skip_first", "limit_to"}
Searches == {"skip_until", "cut_at", "section"}
Stages   == Counts \cup Searches
NoStages == [s \in Stages \cup {"case_sensitive"} |-> IF s \in Stages THEN Blank ELSE FALSE]
Kept == MusicFields \cup Stages \cup {"custom", "preproc"}
Armed(pre) == {s \in Searches : pre[s] # Blank}

\* regex_state: how the searches are read; "both" shows the tick half set.
RegexState(pre) ==
    IF \A s \in Armed(pre) : ~pre[s].regex THEN "plain"
    ELSE IF \A s \in Armed(pre) : pre[s].regex THEN "regex" ELSE "both"
ReadAs(spec, regex) == [spec EXCEPT !.regex = regex]
SetRegex(pre, yes) == [s \in DOMAIN pre |-> IF s \in Armed(pre) THEN ReadAs(pre[s], yes) ELSE pre[s]]

\* As a bug would have it: a search comes back read as it was put away.
AsPutAway(pre, spec) == spec
\* A search that comes back is read as the others are.
CameBack(pre, spec) ==
    IF RegexState(pre) = "both" THEN spec ELSE ReadAs(spec, RegexState(pre) = "regex")

NoFilter == [include |-> Empty, exclude |-> Empty, regex |-> FALSE, whole_path |-> FALSE, extension |-> FALSE,
             case_sensitive |-> FALSE]
FilterUi == [include |-> Texts, exclude |-> Texts, regex |-> BOOLEAN, whole_path |-> BOOLEAN,
             extension |-> BOOLEAN, case_sensitive |-> BOOLEAN]
IsActive(form) == form.include # Empty \/ form.exclude # Empty
ToFilter(form) ==
    [include |-> IF form.include = Empty THEN Blank ELSE [text |-> form.include, regex |-> form.regex],
     exclude |-> IF form.exclude = Empty THEN Blank ELSE [text |-> form.exclude, regex |-> form.regex],
     whole_path |-> form.whole_path, extension |-> form.extension, case_sensitive |-> form.case_sensitive]
FromFilter(f) ==
    LET text(spec)  == IF spec = Blank THEN Empty ELSE spec.text
        regex(spec) == spec # Blank /\ spec.regex
    IN  [include |-> text(f.include), exclude |-> text(f.exclude), regex |-> regex(f.include) \/ regex(f.exclude),
         whole_path |-> f.whole_path, extension |-> f.extension, case_sensitive |-> f.case_sensitive]
\* stored_config, and the card made of it: a filter that filters nothing is not stored.
Stored(filter) == IF filter # Blank /\ IsActive(filter) THEN FromFilter(ToFilter(filter)) ELSE Blank

-----------------------------------------------------------------------------
(* Touching a box.                                                         *)

Touch == touches < MaxTouches /\ touches' = touches + 1
Sets(op) == card' = [card EXCEPT !.op = op]
Elsewhere == UNCHANGED <<lastId, runParts, cells>>

\* Any box of the editor that is there to be touched.
Touches ==
    /\ Touch
    /\ LET ui == Ui(card.op) IN
       \E b \in DOMAIN ui : \E v \in ui[b] : v # card.op[b] /\ Sets([card.op EXCEPT ![b] = v])
    /\ dating' = Blank
    /\ UNCHANGED <<memory, copied>> /\ Elsewhere

\* Music Tagger: a box is ticked, and has its text back, or unticked, and keeps it.
TicksField(f) ==
    /\ Touch /\ card.op.kind = "music_tagger"
    /\ IF card.op[f] = Blank
       THEN Sets([card.op EXCEPT ![f] = Remembered(f, Empty)]) /\ UNCHANGED memory
       ELSE Sets([card.op EXCEPT ![f] = Blank]) /\ Remember(f, card.op[f])
    /\ UNCHANGED <<dating, copied>> /\ Elsewhere

\* Music Tagger's Quick Setup: the boxes and Setup Parts together.
QuickSetup(style) ==
    /\ Touch /\ card.op.kind = "music_tagger" /\ Usable[style] # Blank
    /\ Sets([f \in DOMAIN Fresh.music_tagger |->
               IF f \in DOMAIN Usable[style] THEN Usable[style][f] ELSE Fresh.music_tagger[f]])
    /\ runParts' = style
    /\ UNCHANGED <<lastId, memory, dating, copied, cells>>

\* Music Rename: "Custom" stays lit on a style of the list once it was pressed or typed in.
PressesCustom ==
    /\ Touch /\ card.op.kind = "music_rename"
    /\ Remember("custom", TRUE)
    /\ UNCHANGED <<card, dating, copied>> /\ Elsewhere
PicksStyle(style) ==
    /\ Touch /\ card.op.kind = "music_rename"
    /\ Remember("custom", FALSE) /\ Sets([card.op EXCEPT !.style = style])
    /\ UNCHANGED <<dating, copied>> /\ Elsewhere

\* Set Date & Time: what is typed stands in the box as long as it does not read as a date;
\* the card keeps the last that did.  Now fills in this moment and forgets it.
TypesDate(text) ==
    /\ Touch /\ card.op.kind = "set_date" /\ UsesWallClock(card.op)
    /\ dating' = text
    /\ UNCHANGED <<card, memory, copied>> /\ Elsewhere
PressesNow ==
    /\ Touch /\ card.op.kind = "set_date" /\ UsesWallClock(card.op)
    /\ Sets([card.op EXCEPT !.date = 1]) /\ dating' = Blank
    /\ UNCHANGED <<memory, copied>> /\ Elsewhere

\* The Rearrange builder is modal; it gives the card a rule.
FinishRearrange ==
    /\ Touch /\ card.op.kind = "rearrange"
    /\ \E t \in Texts : Sets([kind |-> "rearrange", layout |-> TRUE, split |-> t])
    /\ UNCHANGED <<memory, dating, copied>> /\ Elsewhere

\* The part of a name a scope reaches; Blank where it reaches none of it.
Reached(cell, scope) ==
    IF scope = "extension" THEN cell.ext ELSE IF scope = "name" \/ cell.ext = Blank THEN cell.stem
    ELSE cell.stem \o "." \o cell.ext
\* As the documentation of text_for has it: a line for a file the scope does not reach too.
TextFor(listing, scope) ==
    IF listing = <<>> THEN <<Empty>>
    ELSE [i \in DOMAIN listing |-> LET r == Reached(listing[i], scope) IN IF r = Blank THEN Empty ELSE r]
\* str::lines: an empty line at the end is none.
LineCount(text) == IF text[Len(text)] = Empty THEN Len(text) - 1 ELSE Len(text)

CopiesList ==
    /\ Touch /\ card.op.kind = "filename_editor"
    /\ Sets([card.op EXCEPT !.text = TextFor(cells, card.scope)]) /\ copied' = cells
    /\ UNCHANGED <<memory, dating>> /\ Elsewhere
TypesLine(t) ==
    /\ Touch /\ card.op.kind = "filename_editor"
    /\ \E i \in DOMAIN card.op.text : Sets([card.op EXCEPT !.text[i] = t]) /\ t # card.op.text[i]
    /\ copied' = Blank
    /\ UNCHANGED <<memory, dating>> /\ Elsewhere
ListingBecomes(listing) ==
    /\ Touch /\ listing # cells /\ cells' = listing /\ copied' = Blank
    /\ UNCHANGED <<card, lastId, memory, dating, runParts>>

\* The pre-processor whole: off, it is put away; on, it is back.
EnablesPreproc ==
    /\ Touch /\ ~IsAction(card.op)
    /\ IF card.preproc = Blank
       THEN card' = [card EXCEPT !.preproc = Remembered("preproc", NoStages)] /\ UNCHANGED memory
       ELSE card' = [card EXCEPT !.preproc = Blank] /\ Remember("preproc", card.preproc)
    /\ UNCHANGED <<dating, copied>> /\ Elsewhere

Pre(pre) == card' = [card EXCEPT !.preproc = pre]
\* `arm`: one stage is ticked or unticked.
ArmsStage(s) ==
    /\ Touch /\ ~IsAction(card.op) /\ card.preproc # Blank
    /\ LET pre == card.preproc IN
       IF pre[s] # Blank THEN Pre([pre EXCEPT ![s] = Blank]) /\ Remember(s, pre[s])
       ELSE /\ Pre([pre EXCEPT ![s] = IF s \in Counts THEN Remembered(s, 0)
                                      ELSE CameBack(pre, Remembered(s, [text |-> Empty, regex |-> FALSE]))])
            /\ UNCHANGED memory
    /\ UNCHANGED <<dating, copied>> /\ Elsewhere
TypesStage ==
    /\ Touch /\ ~IsAction(card.op) /\ card.preproc # Blank
    /\ \/ \E s \in Counts, n \in Numbers :
            card.preproc[s] # Blank /\ n # card.preproc[s] /\ Pre([card.preproc EXCEPT ![s] = n])
       \/ \E s \in Armed(card.preproc), t \in Texts :
            t # card.preproc[s].text /\ Pre([card.preproc EXCEPT ![s].text = t])
    /\ UNCHANGED <<memory, dating, copied>> /\ Elsewhere
TicksRegex ==
    /\ Touch /\ ~IsAction(card.op) /\ card.preproc # Blank /\ Armed(card.preproc) # {}
    /\ \/ Pre(SetRegex(card.preproc, RegexState(card.preproc) # "regex"))
       \/ Pre([card.preproc EXCEPT !.case_sensitive = ~@])
    /\ UNCHANGED <<memory, dating, copied>> /\ Elsewhere

SetsScope ==
    /\ Touch /\ ~IsAction(card.op)
    /\ \E s \in {"name", "extension", "both"} : s # card.scope /\ card' = [card EXCEPT !.scope = s]
    /\ copied' = Blank
    /\ UNCHANGED <<memory, dating>> /\ Elsewhere
\* A filter that is unticked is gone.
TicksFilter ==
    /\ Touch /\ card' = [card EXCEPT !.filter = IF @ = Blank THEN NoFilter ELSE Blank]
    /\ UNCHANGED <<memory, dating, copied>> /\ Elsewhere
SetsFilter ==
    /\ Touch /\ card.filter # Blank
    /\ \E b \in DOMAIN FilterUi : \E v \in FilterUi[b] :
         v # card.filter[b] /\ card' = [card EXCEPT !.filter[b] = v]
    /\ UNCHANGED <<memory, dating, copied>> /\ Elsewhere

\* The picker: another operation on the same card, in its own scope; filter and
\* pre-processor stay.
PicksKind(kind) ==
    /\ Touch /\ kind # card.op.kind
    /\ card' = [card EXCEPT !.op = Fresh[kind], !.scope = DefaultScope(kind)]
    /\ dating' = Blank /\ copied' = Blank
    /\ UNCHANGED memory /\ Elsewhere

\* "+ Add operation": another card is the open one.
OpensNew(kind) ==
    /\ Touch /\ lastId < MaxIds /\ lastId' = lastId + 1
    /\ card' = [id |-> lastId + 1, op |-> Fresh[kind], scope |-> DefaultScope(kind), filter |-> Blank, preproc |-> Blank]
    /\ dating' = Blank /\ copied' = Blank
    /\ UNCHANGED <<memory, runParts, cells>>

\* The pipeline saved as a preset and loaded: what the card shows, and ids that start over;
\* or a preset is loaded that another platform made.
SavesAndLoads ==
    /\ Touch /\ lastId' = 1
    /\ card' = [card EXCEPT !.id = 1, !.filter = Stored(@)]
    /\ dating' = Blank
    /\ UNCHANGED <<memory, runParts, copied, cells>>
LoadsForeign ==
    /\ Touch /\ lastId' = 1
    /\ \E op \in {[Fresh.set_attributes EXCEPT ![a] = "set"] : a \in Attributes}
                 \cup {[Fresh.set_date EXCEPT ![t] = TRUE] : t \in Targets} :
         card' = [id |-> 1, op |-> op, scope |-> "name", filter |-> Blank, preproc |-> Blank]
    /\ dating' = Blank /\ copied' = Blank
    /\ UNCHANGED <<memory, runParts, cells>>

EditInit ==
    /\ card = [id |-> 1, op |-> Fresh.replace, scope |-> "name", filter |-> Blank, preproc |-> Blank]
    /\ lastId = 1 /\ memory = [b \in (1..MaxIds) \X Kept |-> Blank] /\ dating = Blank /\ runParts = Blank /\ copied = Blank
    /\ cells \in Cells /\ touches = 0

BoxSteps ==
    \/ Touches \/ (\E f \in MusicFields : TicksField(f)) \/ (\E s \in DOMAIN Usable : QuickSetup(s) \/ PicksStyle(s))
    \/ SetsScope \/ PressesCustom \/ (\E t \in Texts : TypesDate(t)) \/ PressesNow \/ FinishRearrange
    \/ CopiesList \/ (\E t \in Texts : TypesLine(t)) \/ (\E l \in Cells : ListingBecomes(l))
ScopeSteps ==
    \/ EnablesPreproc \/ (\E s \in Stages : ArmsStage(s)) \/ TypesStage \/ TicksRegex
    \/ TicksFilter \/ SetsFilter
CardSteps ==
    \/ (\E g \in DOMAIN Catalogue : \E k \in Catalogue[g] : PicksKind(k) \/ OpensNew(k))
    \/ SavesAndLoads \/ LoadsForeign
EditNext == BoxSteps \/ ScopeSteps \/ CardSteps
EditSpec == EditInit /\ [][EditNext]_editVars

-----------------------------------------------------------------------------
(* A list of rows: the rules of Batch Replace, the words of Set Casing, the *)
(* lists of Settings (widgets/row_keys.rs, rule_table.rs, string_list.rs). *)

VARIABLES
    rows,           \* [id, text]: a row is one row wherever it stands
    keys, mark,     \* RowKeys: a key for each row, one past the last ever given
    history,        \* key -> the rows whose edits the box under it can bring back
    drawn,          \* the ids of the rows as the last frame that drew the list left them
    missed,         \* the list was replaced by one of its length behind a frame's back
    laidRows

listVars == <<rows, keys, mark, history, drawn, missed, laidRows>>

Keys == 0..(MaxKeys - 1)
Words == {Empty, "a"}
Row == [id : Nat, text : Words]

\* As a bug would have it: keys go on after the largest still in the list.
AfterLargest(kept, from, len) ==
    LET free == IF kept = <<>> THEN 0
                ELSE 1 + CHOOSE k \in {kept[j] : j \in DOMAIN kept} : \A j \in DOMAIN kept : kept[j] <= k
    IN  [i \in 1..len |-> IF i <= Len(kept) THEN kept[i] ELSE free + i - Len(kept) - 1]
GrownTo(kept, from, len) == [i \in 1..len |-> IF i <= Len(kept) THEN kept[i] ELSE from + i - Len(kept) - 1]
NextMark(kept, from, len) == IF len > Len(kept) THEN from + len - Len(kept) ELSE from

\* load: the keys of a frame, given anew where they no longer fit.
Fitted == IF Len(keys) = Len(rows) THEN keys ELSE GrownTo(<<>>, mark, Len(rows))
FittedMark == IF Len(keys) = Len(rows) THEN mark ELSE NextMark(<<>>, mark, Len(rows))

NewRows(texts) == [i \in DOMAIN texts |-> [id |-> laidRows + i, text |-> texts[i]]]
IdsOf(list) == [i \in DOMAIN list |-> list[i].id]
Lays(n, held) == held + n <= MaxRows /\ laidRows + n <= MaxLaid /\ laidRows' = laidRows + n

\* A frame that draws the list, and what it leaves.
Draws(left, leftKeys, leftMark) ==
    /\ leftMark <= MaxKeys
    /\ rows' = left /\ keys' = leftKeys /\ mark' = leftMark
    /\ drawn' = IdsOf(left)
    /\ missed' = (missed \/ (Len(keys) = Len(rows) /\ IdsOf(rows) # drawn))

TypesInRow ==
    /\ \E i \in DOMAIN rows, t \in Words :
         /\ t # rows[i].text
         /\ Draws([rows EXCEPT ![i] = [id |-> rows[i].id, text |-> t]], Fitted, FittedMark)
         /\ history' = [history EXCEPT ![Fitted[i]] = @ \cup {rows[i].id}]
    /\ UNCHANGED laidRows
\* One row, or one for each text that stands between colons.
AddsRows ==
    /\ \E texts \in {<<Empty>>, <<"a", "a">>} :
         /\ Lays(Len(texts), Len(rows))
         /\ Draws(rows \o NewRows(texts), GrownTo(Fitted, FittedMark, Len(rows) + Len(texts)),
                  NextMark(Fitted, FittedMark, Len(rows) + Len(texts)))
    /\ UNCHANGED history
RemovesRow ==
    /\ \E i \in DOMAIN rows :
         LET without(s) == SubSeq(s, 1, i - 1) \o SubSeq(s, i + 1, Len(s))
         IN  Draws(without(rows), without(Fitted), FittedMark)
    /\ UNCHANGED <<history, laidRows>>
SwapsRows ==
    /\ \E i \in DOMAIN rows :
         LET swapped(s) == [s EXCEPT ![i] = s[i + 1], ![i + 1] = s[i]]
         IN  i < Len(rows) /\ Draws(swapped(rows), swapped(Fitted), FittedMark)
    /\ UNCHANGED <<history, laidRows>>
RestoresDefaults ==
    /\ Lays(2, 0)
    /\ Draws(NewRows(<<"a", "a">>), <<>>, FittedMark)
    /\ UNCHANGED history
\* While the list is not drawn: blank rows go as Settings closes, a rule is added from a
\* card, a preset or the defaults bring another list.
TidiesRows ==
    /\ \E n \in 0..(Len(rows) - 1) :
         \E order \in Bijection(1..n, {i \in DOMAIN rows : rows[i].text # Empty}) :
            /\ \A i, j \in 1..n : i < j => order[i] < order[j]
            /\ rows' = [i \in 1..n |-> rows[order[i]]]
    /\ UNCHANGED <<keys, mark, history, drawn, missed, laidRows>>
AddsFromOutside ==
    /\ Lays(1, Len(rows)) /\ rows' = rows \o NewRows(<<"a">>)
    /\ UNCHANGED <<keys, mark, history, drawn, missed>>
AnotherList ==
    /\ \E texts \in {<<"a">>, <<"a", "a">>} :
         /\ Lays(Len(texts), 0)
         /\ rows' = NewRows(texts)
    /\ UNCHANGED <<keys, mark, history, drawn, missed>>

ListInit ==
    /\ rows = <<>> /\ keys = <<>> /\ mark = 0 /\ history = [k \in Keys |-> {}] /\ drawn = <<>> /\ missed = FALSE
    /\ laidRows = 0
ListNext ==
    \/ TypesInRow \/ AddsRows \/ RemovesRow \/ SwapsRows \/ RestoresDefaults
    \/ TidiesRows \/ AddsFromOutside \/ AnotherList
ListSpec == ListInit /\ [][ListNext]_listVars

-----------------------------------------------------------------------------
(* Properties                                                              *)

\* A pre-processor whose searches are all read in one way, and what is kept of the boxes.
AllReadAlike(pre) ==
    /\ DOMAIN pre = Stages \cup {"case_sensitive"}
    /\ \A s \in Searches : pre[s] \in Searched \cup {Blank}
    /\ \E regex \in BOOLEAN : \A s \in Armed(pre) : pre[s].regex = regex
EditInv ==
    /\ DOMAIN card = {"id", "op", "scope", "filter", "preproc"}
    /\ card.id \in 1..MaxIds /\ lastId \in 1..MaxIds
    /\ card.op.kind \in DOMAIN Fresh /\ DOMAIN card.op = DOMAIN Fresh[card.op.kind]
    /\ card.preproc # Blank => AllReadAlike(card.preproc)
    /\ DOMAIN memory = (1..MaxIds) \X Kept
    /\ \A i \in 1..MaxIds : /\ memory[<<i, "preproc">>] # Blank => AllReadAlike(memory[<<i, "preproc">>])
                            /\ \A s \in Searches : memory[<<i, s>>] \in Searched \cup {Blank}

\* Keys are given once; nothing was typed under those to come; and what a key brings back
\* is of the row last drawn under it.
KeysUpTo(ks, m) ==
    /\ ks \in Seq(Nat) /\ \A i \in DOMAIN ks : ks[i] < m
    /\ \A i, j \in DOMAIN ks : ks[i] = ks[j] => i = j
BlankFrom(h, m) == h \in [Keys -> SUBSET Nat] /\ \A k \in Keys : k >= m => h[k] = {}
OfTheirRows(h, ks, ids) == Len(ks) = Len(ids) => \A i \in DOMAIN ks : h[ks[i]] \subseteq {ids[i]}
ListInv ==
    /\ rows \in Seq(Row) /\ laidRows \in Nat /\ drawn \in Seq(Nat) /\ mark \in Nat /\ mark <= MaxKeys
    /\ KeysUpTo(keys, mark) /\ BlankFrom(history, mark)
    /\ ~missed => OfTheirRows(history, keys, drawn)

\* What is not on the screen has no say: every box an operation reads in the mode it is
\* in is there to be seen and changed, or the run is refused for want of the platform;
\* and of the pre-processor's searches the one tick says how all are read, whatever was
\* put away, brought back, retyped or enabled in between (editors/*.rs, preproc_editor.rs).
HiddenDecidesNothing ==
    /\ \A b \in Reads(card.op) : b \in Boxes(card.op) \/ ~(Requires(card.op) \subseteq Writable)
    /\ card.preproc # Blank => RegexState(card.preproc) # "both"

\* The undo history of a row's box is of that row: nothing a row that is gone, or that
\* has moved, was typed can be brought back into another (widgets/row_keys.rs).  Not
\* after a list of the very same length was put in its place while it was not drawn.
HistoryStaysWithItsRow ==
    ~missed /\ drawn = IdsOf(rows) /\ Len(keys) = Len(rows) =>
        \A i \in DOMAIN rows : history[keys[i]] \subseteq {rows[i].id}

\* Copying the names into the Filename Editor and running changes nothing: there is a
\* line for every file (ops/filename_editor.rs, text_for).
CopyIsOneLinePerFile ==
    copied # Blank => LineCount(card.op.text) = Len(copied)
=============================================================================
