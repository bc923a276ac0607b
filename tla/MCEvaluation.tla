------------------------------ MODULE MCEvaluation ------------------------------
(* How names are made, on small instances: the stack over three files, one of  *)
(* them a folder and one a song, under stacks that between them hold every     *)
(* operation; names typed letter by letter, dates that go by, and the counter, *)
(* which the pure functions are tried on; and what operations do besides: tags *)
(* inside a file, its attributes and dates, the volumes; scripts before a run.   One part is at work  *)
(* in any behaviour; the others stand still.                                   *)
EXTENDS Pipeline, Answers, Counter, Dates, Tags, Stamps, Scripts

CONSTANT Times        \* the instants that go by

VARIABLES part, now

mcVars == <<part, typed, now, vars, counterVars, tagsVars, stampsVars, scriptsVars>>

MCKnown == {<<"t", "p">>}

T(c)    == [tag |-> "text", rest |-> <<>>, arg |-> <<c>>]
G(t)    == [tag |-> t, rest |-> <<>>, arg |-> None]
GA(t, a) == [tag |-> t, rest |-> <<>>, arg |-> a]
Slot(n) == [tag |-> "%", rest |-> <<n>>, arg |-> None]

Fields == Audio \cup Image \cup FolderTags \cup {"crc32", "detectedext", "htmltitle", "exifdate", "exiftime"}

Entry(i, n, path, dir, audio, artist) ==
    [index |-> i, current |-> n, path |-> path, dir |-> dir, audio |-> audio,
     counter |-> <<DigitChars[i + 1]>>, parents |-> <<<<"B">>>>, folder |-> 3,
     size |-> [short |-> <<"9">>, bytes |-> 9], files |-> 3, strict |-> FALSE,
     stamps |-> [t \in (Formatted \cup Unformatted) |-> <<"8", "8">>],
     field |-> [f \in Fields |-> IF f = "artist" THEN artist ELSE None],
     random |-> <<5, 6, 7, 8>>, answers |-> [n10 \in 0..9 |-> None], clipboard |-> None,
     pattern |-> [lead |-> <<>>, segs |-> <<[slot |-> 1, sep |-> <<" ">>], [slot |-> 2, sep |-> <<>>]>>]]

MCRows == <<Entry(1, <<"a", "1", " ", "A", ".", "m">>, <<"/", "a">>, FALSE, TRUE, <<"B", "/", "b">>),
            Entry(2, <<"A", " ", "b", "2", "2">>, <<"/", "b">>, TRUE, FALSE, None),
            Entry(3, <<"b", "_", "a", "9", ".", "j">>, <<"/", "a">>, FALSE, FALSE, None)>>

Step(op, scope) == [op |-> op, scope |-> scope, enabled |-> TRUE, filter |-> None, preproc |-> None]
Off(step) == [step EXCEPT !.enabled = FALSE]
Only(step, text) ==
    [step EXCEPT !.filter = [include |-> text, exclude |-> None, whole |-> FALSE, ext |-> TRUE, exact |-> FALSE]]
After(step, n) ==
    [step EXCEPT !.preproc = [skip |-> n, until |-> None, limit |-> 3, cut |-> <<"9">>, section |-> None, exact |-> TRUE]]

Rep(f, w, swap) == [kind |-> "replace", find |-> f, with |-> w, exact |-> FALSE, swap |-> swap, skip |-> 0, max |-> 0]
Batch(rules) == [kind |-> "batch_replace", rules |-> rules]
Case(mode) == [kind |-> "casing", mode |-> mode, lowers |-> FALSE, upper |-> FALSE, mixed |-> FALSE, except |-> FALSE,
               lowwords |-> {}, words |-> {}, after |-> {"_"}, quotes |-> {}]
Spaces == [kind |-> "space_trim", leading |-> TRUE, trailing |-> TRUE, shrink |-> TRUE,
           before |-> {}, after |-> {}, scores |-> TRUE]
Add(nodes) == [kind |-> "add_remove", mode |-> "both", insert |-> nodes, over |-> FALSE, apos |-> 0, aback |-> TRUE,
               del |-> 1, rpos |-> 0, rback |-> FALSE]
Move == [kind |-> "move_section", cut |-> 1, from |-> 0, fback |-> FALSE, to |-> 0, tback |-> TRUE, relative |-> FALSE]
Pad(n) == [kind |-> "zero_padding", digits |-> n]
Count(with) == [kind |-> "add_counter", first |-> TRUE, sep |-> <<"-">>, replace |-> with # None, with |-> with]
Renum(action, nodes) ==
    [kind |-> "renumber", target |-> "last", low |-> None, high |-> 50, action |-> action, operand |-> nodes,
     points |-> TRUE, minus |-> FALSE, keep |-> TRUE, rounding |-> None]
Free(nodes) == [kind |-> "free_format", pattern |-> nodes]
Rearr(layout) == [kind |-> "rearrange", layout |-> layout,
                  pattern |-> [lead |-> <<>>, segs |-> <<[slot |-> 1, sep |-> <<" ">>], [slot |-> 2, sep |-> <<>>]>>]]
Table(t) == [kind |-> "csv_list", table |-> t, exact |-> FALSE]
Lines(ls) == [kind |-> "filename_editor", lines |-> ls]
Music(nodes) == [kind |-> "music_rename", style |-> nodes]
Attr == [kind |-> "set_attributes", bits |-> {"hidden"}]
Untag == [kind |-> "remove_tags", kinds |-> {"id3v1"}]
Tagger(artist, track) == [kind |-> "music_tagger",
    fields |-> [f \in {"artist", "track"} |-> IF f = "artist" THEN artist ELSE track]]
Koto(script, fails, leaves) ==
    [kind |-> "script", script |-> script, starts |-> script # "torn", fails |-> fails, leaves |-> leaves]

MCStacks ==
    { <<>>,
      \* a script that counts, behind a step that not every row passes
      <<Only(Step(Koto("count", {<<"b", "_", "a", "9">>}, {}), "name"), <<"a">>), Step(Case("upper"), "name")>>,
      <<Step(Case("lower"), "name"), Off(Step(Koto("count", {}, {}), "name")), After(Step(Move, "both"), 1)>>,
      <<Step(Spaces, "name"), Step(Koto("count", {}, {<<"b", " ", "a", "9">>}), "name"), Step(Pad(2), "name")>>,
      <<Step(Koto("torn", {}, {}), "ext"), Step(Koto(None, {}, {}), "name"), Step(Attr, "name")>>,
      \* positions and shapes
      <<Step(Rep(<<"A">>, <<T("b")>>, TRUE), "name"), Off(Step(Pad(3), "name")), Step(Add(<<G("ask")>>), "name")>>,
      <<Only(Step(Pad(300), "name"), <<"2">>), Step(Rearr(<<[slot |-> 2, trim |-> TRUE, text |-> <<>>],
                [slot |-> None, trim |-> FALSE, text |-> <<G("clipboard")>>]>>), "name"), Step(Renum("add", <<T("1")>>), "both")>>,
      <<Step(Batch(<<Rep(<<"1">>, <<T("2")>>, FALSE), Rep(<<"2">>, <<GA("ask", <<"1">>)>>, FALSE)>>), "name"),
        After(Step(Count(None), "both"), 5)>>,
      \* what the file says
      <<Step(Tagger(<<Slot("1")>>, <<GA("ask", <<"2">>)>>), "name"), Step(Untag, "name"), Step(Music(<<G("artist"), G("counter")>>), "name")>>,
      <<Step(Lines(<<<<T("a")>>, <<>>, <<G("name"), G("fletter")>>>>), "name"), Step(Count(<<G("parent"), Slot("9")>>), "name")>>,
      <<Step(Table(<<[old |-> <<"A", "1", " ", "a">>, new |-> <<G("fullname"), GA("left", <<"1">>)>>]>>), "name"),
        Step(Free(<<GA("mid", <<"1", "-", "3">>), G("nope")>>), "both")>> }

-----------------------------------------------------------------------------
(* The counter: two folders, names with and without the digits they end in.    *)

MCEntries == {[folder |-> "d", base |-> "a"], [folder |-> "d", base |-> "b"], [folder |-> "e", base |-> "a"]}
MCListings ==
    LET d == [folder |-> "d", base |-> "a"]
        e == [folder |-> "e", base |-> "a"]
        f == [folder |-> "d", base |-> "b"]
    IN  {<<d>>, <<d, d, d>>, <<d, d, e, d>>, <<d, f, f, e, e>>}
MCSetups ==
    [start : {1, 4}, step : {2, -1}, running : BOOLEAN, folders : BOOLEAN, bases : {FALSE},
     limit : {NoLimit, 0, 7}]
    \cup {[start |-> 9, step |-> 3, running |-> TRUE, folders |-> FALSE, bases |-> TRUE, limit |-> NoLimit]}

-----------------------------------------------------------------------------
(* Names and dates.                                                            *)

MCLetters == {"a", "B", "I~", " ", "-", "1", "_"}

\* Around the ends of months and years, and of the hours the zone skips and repeats.
MCSpring == [day |-> DayOf(2024, 3, 31), sec |-> 3600]
MCAutumn == [day |-> DayOf(2024, 10, 27), sec |-> 3600]
MCTimes ==
    LET days == {DayOf(2024, 3, 31), DayOf(2024, 10, 27), DayOf(2024, 2, 29), DayOf(2023, 12, 31),
                 DayOf(2000, 1, 1), DayOf(2100, 2, 28), DayOf(1980, 1, 31)}
    IN  [day : days, sec : {0, 3599, 3600, 5400, 43200, 86399}]

-----------------------------------------------------------------------------
(* Songs: every kind of block, and lyrics whole, cut short and misnamed.       *)

MCText(t) == [text |-> t, number |-> -1]
MCNum(n)  == [text |-> ToString(n), number |-> n]
MCBlock(items, rest) == [named |-> items, unnamed |-> rest]
MCTrailer == MCBlock({Item("title", "", MCText("old")), Item("year", "", MCNum(1975)), Item("track", "", MCNum(8))}, {})
MCFull == MCBlock({Item("title", "", MCText("old")), Item("recording date", "", MCNum(1975)),
                   Item("comment", "", MCText("mine")), Item("comment", "iTunNORM", MCText("0A"))}, {"cover"})
MCTunes == MCBlock({Item("comment", "iTunNORM", MCText("0A")), Item("comment", "other", MCText("said"))}, {"cue sheet"})
MCSong(format, blocks, bytes, claims) ==
    [format |-> format, audio |-> TRUE, blocks |-> blocks, bytes |-> bytes, claims |-> claims]
MCHeads == {<<>>, <<LyricsBegin>>}
MCTexts == {<<>>, <<Sound>>, <<LyricsBegin>>, <<Sound, LyricsBegin>>}
MCFooters == {EndV1, EndV2(1), EndV2(2), EndV2(3), EndV2(4), EndV2(5), Sound}
MCBytes == {<<Sound>>} \cup {<<Sound, LyricsBegin>> \o t \o <<f>> : t \in MCTexts, f \in MCFooters} \cup {<<Sound, f>> : f \in MCFooters}
MCSongs ==
    {MCSong("mpeg", b, h \o y, Len(h)) : b \in {("id3v2" :> MCFull), ("id3v2" :> MCFull) @@ ("id3v1" :> MCTrailer)}, h \in MCHeads, y \in MCBytes}
    \cup {MCSong("mpeg", b, y, 0) : b \in {("id3v1" :> MCTrailer), <<>>}, y \in MCBytes}
    \cup {MCSong(f, "vorbis" :> MCTunes, <<Sound>>, 0) : f \in {"flac", "ogg"}}
    \cup {MCSong("flac", b, <<Sound>>, 0) : b \in {<<>>, "id3v2" :> MCTunes, ("id3v2" :> MCTunes) @@ ("vorbis" :> MCFull),
                                                      ("id3v2" :> MCFull) @@ ("vorbis" :> MCTunes)}}
    \cup {MCSong("wavpack", "ape" :> MCTunes, <<Sound>>, 0), MCSong("other", <<>>, <<Sound>>, 0), MCSong("link", <<>>, <<Sound>>, 0),
          [MCSong("mpeg", <<>>, <<Sound>>, 0) EXCEPT !.audio = FALSE]}
MCBoxes == {"title" :> MCText("new"), ("track" :> MCNum(300)) @@ ("comment" :> MCText("new")),
            ("track" :> MCText("A1")) @@ ("year" :> MCNum(1988)), ("track" :> MCNum(7)) @@ ("genre" :> MCText("")),
            ("title" :> Unread) @@ ("year" :> MCNum(1988))}
MCStrips == {{"lyrics"}, TagKinds, {"id3v2"}, {"id3v1"}, {}}

-----------------------------------------------------------------------------
(* Files with dates on both sides of 1970, and volumes mounted in each other.  *)

MCStat(link, write, hid, arch, c, a, m) ==
    [link |-> link, write |-> write, hidden |-> hid, system |-> FALSE, archive |-> arch, created |-> c, accessed |-> a, modified |-> m]
MCFound == {MCStat(FALSE, w, h, TRUE, 4, 6, m) : w \in {{}, {"owner"}, {"owner", "group"}}, h \in BOOLEAN, m \in {-6, -4, 10}}
           \cup {MCStat(TRUE, {"owner", "group", "other"}, FALSE, FALSE, Unset, 6, 10),
                 MCStat(TRUE, {"owner"}, FALSE, FALSE, 4, -6, 10)}
MCEffects == {"read_only" :> TRUE, "read_only" :> FALSE, ("hidden" :> TRUE) @@ ("archive" :> FALSE),
              "modified" :> -10, ("modified" :> 14) @@ ("created" :> 7), "accessed" :> -3}
MCMeddlings == {"read_only" :> TRUE, "modified" :> 40, ("accessed" :> 50), "archive" :> TRUE, "hidden" :> FALSE}
MCFirst == -40
MCPoints == {<<"m">>, <<"m", "n">>, <<"m", "n", "o">>, <<"p">>}
MCVolumePlaces == MCPoints \cup {<<"m", "x">>, <<"q">>, <<"m", "n", "o", "y">>}

-----------------------------------------------------------------------------
(* Scripts: contents that pass every gate and one that fails at each, two of   *)
(* one length; what stands in comments and raw strings.                        *)

MCScript(id, len, bytes, depth, parses, imports, unsafe) ==
    [id |-> id, len |-> len, bytes |-> bytes, depth |-> depth, parses |-> parses, imports |-> imports, refused |-> unsafe]
MCContents == {MCScript("one", 1, 9, 2, TRUE, FALSE, FALSE), MCScript("two", 1, 9, 2, TRUE, FALSE, FALSE),
              MCScript("deep", 3, 9, 9, FALSE, FALSE, FALSE)}
MCShipped == "s" :> MCScript("shipped", 1, 9, 2, TRUE, FALSE, FALSE)
MCFiller == {<<>>, <<"(">>, <<"'", "{">>, <<"-", "x">>}

GoesBy(t) == now' = t

MCInit ==
    /\ part \in {"stack", "counter", "names", "dates", "tags", "stamps", "mounts", "source", "scripts"}
    /\ TypedInit /\ now \in Times /\ (part # "dates" => now = CHOOSE t \in Times : TRUE)
    /\ Init /\ (part # "stack" => stack = <<>>)
    /\ CounterInit /\ (part # "counter" => setup = CHOOSE c \in Setups : TRUE)
    /\ TagsInit /\ (part # "tags" => song = CHOOSE s \in Songs : TRUE)
    /\ StampsInit /\ (part # "stamps" => platform = "Linux" /\ stat = CHOOSE s \in Found : TRUE)
    /\ ScriptsInit

MCNext ==
    /\ part' = part
    /\ \/ part = "stack" /\ Next /\ UNCHANGED <<typed, now, counterVars, tagsVars, stampsVars, scriptsVars>>
       \/ part = "counter" /\ CounterNext /\ UNCHANGED <<typed, now, vars, tagsVars, stampsVars, scriptsVars>>
       \/ part = "names" /\ TypedNext
          /\ UNCHANGED <<now, vars, counterVars, tagsVars, stampsVars, scriptsVars>>
       \/ part = "dates" /\ (\E t \in Times : GoesBy(t))
          /\ UNCHANGED <<typed, vars, counterVars, tagsVars, stampsVars, scriptsVars>>
       \/ part = "tags" /\ TagsNext /\ UNCHANGED <<typed, now, vars, counterVars, stampsVars, scriptsVars>>
       \/ part \in {"stamps", "mounts"} /\ StampsNext
          /\ UNCHANGED (IF part = "stamps" THEN mountVars ELSE stampVars)
          /\ UNCHANGED <<typed, now, vars, counterVars, tagsVars, scriptsVars>>
       \/ part = "source" /\ SourceNext
          /\ UNCHANGED <<typed, now, vars, counterVars, tagsVars, stampsVars, folderVars>>
       \/ part = "scripts" /\ FolderNext
          /\ UNCHANGED <<typed, now, vars, counterVars, tagsVars, stampsVars, sourceVars>>

MCSpec == MCInit /\ [][MCNext]_mcVars

-----------------------------------------------------------------------------
(* Properties of the functions.                                                *)

MCTrims ==
    [leading : BOOLEAN, trailing : BOOLEAN, shrink : BOOLEAN, scores : BOOLEAN,
     before : {{}, {"-"}}, after : {{}, {"-", "_"}}]

\* Rules that make and unmake what the rules after them look for.
MCBatches ==
    LET r(find, with, exact, swap) ==
            [find |-> find, with |-> with, exact |-> exact, swap |-> swap, skip |-> 0, max |-> 0]
    IN  {<<r(<<"a">>, <<"B">>, TRUE, FALSE), r(<<"B">>, <<"1">>, TRUE, FALSE), r(<<"-">>, <<"a">>, TRUE, FALSE)>>,
         <<r(<<"i">>, <<" ">>, FALSE, FALSE), r(<<"1">>, <<"_", "1">>, TRUE, TRUE), r(<<" ", "?">>, <<>>, TRUE, FALSE)>>,
         <<r(<<"b">>, <<"a">>, FALSE, TRUE), r(<<"_">>, None, TRUE, FALSE), r(<<"a", "*">>, <<"-">>, FALSE, FALSE)>>}

RECURSIVE Rebuilt(_, _)
Rebuilt(segs, got) ==
    IF got = <<>> THEN <<>> ELSE Head(got).text \o Head(segs).sep \o Rebuilt(Tail(segs), Tail(got))

Occurrences(s, c) == Cardinality({i \in DOMAIN s : s[i] = c})

MoveSettings ==
    [cut : {1, 2}, from : 0..2, fback : BOOLEAN, to : {0, 2}, tback : BOOLEAN, relative : BOOLEAN]

Adding(action) ==
    [action |-> action, target |-> "all", low |-> None, high |-> None, operand |-> <<"9">>, points |-> FALSE,
     minus |-> FALSE, keep |-> TRUE, rounding |-> None]

\* "<rndz2-low-high>", and what it may draw.
Draw(low, high) ==
    LET text(n) == PaddedInt(n < 0, DigitsOf(AbsOf(n)), 0)
    IN  [tag |-> "rnd", rest |-> <<"z", "2">>, arg |-> text(low) \o <<"-">> \o text(high)]
DrawIsInRange(low, high) ==
    \E n \in low..high : RandomValue(Draw(low, high), Len(typed)) = PaddedInt(n < 0, DigitsOf(AbsOf(n)), 2)

\* What is cut out of a name is its own and nothing of it is lost: a hit in
\* any case lies in the name and reads as what was sought; the parts the wand
\* finds make the name up again; a section that is moved takes every letter
\* with it; a number added to and taken from is the one it was; a range written
\* in a field, negative ends and all, is the one its draws come from
\* (matcher.rs, parts.rs, ops/move_section.rs, ops/renumber.rs, tag.rs).
CutsAreWhole ==
    part = "names" =>
        /\ \A t \in {<<"i">>, <<"~">>, <<"b", "A">>, <<"i", "~", "1">>} :
              LET hit == FindFolded(typed, t)
              IN  hit # None =>
                    /\ hit.at >= 1 /\ hit.at + hit.len - 1 <= Len(typed)
                    /\ StartsWith(Lower(SubSeq(typed, hit.at, hit.at + hit.len - 1)), Lower(t))
        /\ LET wand == Detect(typed) IN Rebuilt(wand.segs, PartsOf(wand, typed)) = typed
        /\ \A k \in MoveSettings, c \in Letters :
              Occurrences(MoveSection(k, typed), c) = Occurrences(typed, c)
        /\ LET there == ReNumbered(Adding("add"), typed, <<>>)
               back == ReNumbered(Adding("subtract"), there, <<>>)
               spans(s) == NumbersIn(s, [points |-> FALSE, minus |-> FALSE])
           IN  [i \in DOMAIN spans(back) |-> spans(back)[i].value] =
               [i \in DOMAIN spans(typed) |-> spans(typed)[i].value]
        /\ \A low \in {-12, -1, 0, 3}, width \in {0, 5} :
              IsTag(Draw(low, low + width), {}) /\ DrawIsInRange(low, low + width)

Formats == {<<"h", "h", ":", "m", "m">>, <<"y", "y", "y", "y", "-", "m", "m", "-", "d", "d">>,
            <<"H", "H", " ", "-", "m", "m", "s", "s">>}
Masks == {{"d"}, {"mo"}, {"y"}, {"y", "mo"}, {"h", "mi", "s"}, Components}

\* A date is a date after everything: taking over some parts of another keeps
\* the rest but for a day its month has not; a clock in the zone names the
\* instant it came from, unless the hour comes twice, when it names the first;
\* a minute after an hour is a minute whatever stands between (datetime.rs
\* merge and localise, dates.rs compile).
DatesAgree ==
    part = "dates" =>
        LET c == ToLocal(now)
        IN  /\ IsClock(c) /\ Localise(c) # NoDate
            /\ NotAfter(Localise(c), now) /\ ToLocal(Localise(c)) = c
            /\ \A other \in Times, mask \in Masks :
                  LET m == Merged(c, ToLocal(other), mask)
                  IN  /\ IsClock(m)
                      /\ \A x \in Components \ (mask \cup {"d"}) : m[x] = c[x]
                      /\ m.d <= (IF "d" \in mask THEN ToLocal(other).d ELSE c.d)
            /\ \A unit \in Units, n \in {-13, 1, 400} : IsClock(Shifted(c, n, unit))
            /\ \A spec \in {f \in Formats : f[1] \in {"h", "H"}} :
                  LET said == Rendered(spec, c)
                  IN  \E i \in DOMAIN said : i > 1 /\ said[i] = [is |-> "n", number |-> c.mi, width |-> 2]

\* The value n rows on from the first, had the counter never stopped.
RECURSIVE OnAndOn(_, _)
OnAndOn(n, value) == IF n = 0 THEN value ELSE OnAndOn(n - 1, Advance(first, value))

\* "the number that would have come next had the counter carried on"
\* (next_counter_start).
CarriesOn ==
    part = "counter" /\ first.running /\ ~first.folders /\ ~first.bases =>
        setup.start = OnAndOn(Len(used), first.start)
=============================================================================
