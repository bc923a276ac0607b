-------------------------------- MODULE Templates --------------------------------
(***************************************************************************)
(* Tag fields (ren-core/src/template): how a text is cut into tags, what a *)
(* tag may say, what it stands for in a run, and what rendering one needs. *)
(* A tag is [tag, rest, arg] as written: its name in lower case, what is   *)
(* written against the name (a digit count, a part) and what follows the   *)
(* first dash, or None.  Reading a file's own tags, its picture, its page  *)
(* or its folder is one lookup, cx.field, of text or None.                 *)
(***************************************************************************)
EXTENDS Numbers

Tag(t, rest, arg) == [tag |-> t, rest |-> rest, arg |-> arg]
Literal(text) == [tag |-> "text", rest |-> <<>>, arg |-> text]

-----------------------------------------------------------------------------
(* The lexer: what is between "<" and the next ">" is a tag; a "<" that is *)
(* never closed is text.                                                   *)

Pieces(s) ==
    LET pieces[i \in 1..(Len(s) + 1)] ==
            LET open == FindExact(From(s, i), <<"<">>)
                body == i + open.at
                close == FindExact(From(s, body), <<">">>)
                end == body + close.at - 1
                text(to) == IF i = to THEN <<>> ELSE <<[body |-> None, text |-> SubSeq(s, i, to - 1)]>>
            IN  IF open = None THEN text(Len(s) + 1)
                ELSE IF close = None THEN text(Len(s) + 1)
                ELSE text(body - 1) \o <<[body |-> SubSeq(s, body, end - 1), text |-> SubSeq(s, body - 1, end)]>>
                     \o pieces[end + 1]
    IN  pieces[1]

-----------------------------------------------------------------------------
(* What a tag may say.                                                     *)

Audio == {"artist", "title", "album", "year", "comment", "genre", "track", "trackn", "length",
          "lengths", "bitrate", "stereo", "freq", "freqs"}
Image == {"width", "height", "depth", "depthb", "jpgcomment"}
FolderTags == {"dirsize", "dirsizeb", "dirfiles", "dirdirs", "sdirsize", "sdirsizeb", "sdirfiles", "sdirdirs",
            "firstfileinfolder"}
Plain == {"name", "ext", "fullname", "fletter", "flettern1", "flettern2", "size", "counter", "numfiles",
          "clipboard", "crc32", "detectedext", "htmltitle"} \cup Audio \cup Image
Counted == {"left", "right", "filemax", "pathmax"}
Ranges == {"mid", "midrev"}
Formatted == {"date", "cdate", "adate", "nowdate", "exifdate"}
Unformatted == {"time", "ctime", "atime", "nowtime", "exiftime"}
Families == {"id3", "exif"}

Digits(s) == s # <<>> /\ \A i \in DOMAIN s : IsDigit(s[i])
NumberIn(s, low, high) == Digits(s) /\ ReadNat(s) \in low..high

\* Two numbers with a dash between them, or one.
CutAtDash(s, from) ==
    LET dashes == {i \in from..Len(s) : s[i] = "-"}
    IN  IF dashes = {} THEN None ELSE [low |-> Before(s, Head1(dashes)), high |-> From(s, Head1(dashes) + 1)]
IsSpan(s) ==
    LET cut == CutAtDash(s, 1)
    IN  IF cut = None THEN Digits(s) ELSE Digits(cut.low) /\ Digits(cut.high)

IsWhole(s) == Digits(IF StartsWith(s, <<"-">>) THEN Tail(s) ELSE s)
WholeOf(s) == IF StartsWith(s, <<"-">>) THEN -ReadNat(Tail(s)) ELSE ReadNat(s)

\* The low end may be negative: its sign is not the dash between the two.
RangeOf(s) == CutAtDash(s, 2)

\* rest is <<"z", ...>> to pad, then the digits.
PadOf(rest) == StartsWith(rest, <<"z">>)
CountOf(rest) == IF PadOf(rest) THEN Tail(rest) ELSE rest
IsRandom(t) ==
    \/ t.rest = <<>> /\ t.arg = None
    \/ /\ NumberIn(CountOf(t.rest), 1, 18)
       /\ t.arg # None =>
            LET r == RangeOf(t.arg)
            IN  IF r = None THEN FALSE
                ELSE /\ IsWhole(r.low) /\ IsWhole(r.high)
                     /\ WholeOf(r.low) <= WholeOf(r.high)

\* Whether the field compiles; known are the names its families hold.
IsTag(t, known) ==
    CASE t.tag = "text" -> TRUE
      [] t.tag = "%" -> Len(t.rest) = 1 /\ NumberIn(t.rest, 1, 9) /\ t.arg = None
      [] t.tag = "rnd" -> IsRandom(t)
      [] t.tag \in Families -> t.arg \in known
      [] t.tag \in Plain \cup Unformatted \cup {"\\"} -> t.arg = None
      [] t.tag \in Counted -> IF t.arg = None THEN FALSE ELSE Digits(t.arg)
      [] t.tag \in Ranges -> IF t.arg = None THEN FALSE ELSE IsSpan(t.arg)
      [] t.tag \in Formatted -> t.arg # None => \E c \in CharsOf(t.arg) : c # " "
      [] t.tag \in {"sizeb", "dirsizeb", "sdirsizeb"} -> t.arg # None => Digits(t.arg)
      [] t.tag \in {"parent", "ask"} -> t.arg # None => NumberIn(t.arg, 1, 9)
      [] t.tag = "firstfileinfolder" -> t.arg # None => t.arg = <<"e", "x", "t">>
      [] t.tag \in FolderTags \ {"dirsizeb", "sdirsizeb", "firstfileinfolder"} -> t.arg = None
      [] OTHER -> FALSE

Compiles(nodes, known) == \A i \in DOMAIN nodes : IsTag(nodes[i], known)

-----------------------------------------------------------------------------
(* What rendering needs of the run and of the disk.                        *)

TagNeeds(t) ==
    CASE t.tag = "counter" -> {"counter"}
      [] t.tag = "ask" -> {"ask"}
      [] t.tag = "clipboard" -> {"clipboard"}
      [] t.tag = "%" -> {"parts"}
      [] t.tag = "rnd" -> {"random"}
      [] t.tag \in {"date", "time", "cdate", "ctime", "adate", "atime"} -> {"timestamps"}
      [] t.tag \in Audio \cup Image \cup FolderTags \cup Families \cup
                   {"crc32", "detectedext", "htmltitle", "exifdate", "exiftime"} -> {"file_content"}
      [] t.tag = "\\" -> {"subfolder"}
      [] t.tag \in {"filemax", "pathmax"} -> {"limits"}
      [] OTHER -> {}

Needs(nodes) == UNION {TagNeeds(nodes[i]) : i \in DOMAIN nodes}
SlotOf(t) == IF t.arg = None THEN 0 ELSE ReadNat(t.arg)
Asks(nodes)  == {SlotOf(nodes[i]) : i \in {j \in DOMAIN nodes : nodes[j].tag = "ask"}}

-----------------------------------------------------------------------------
(* What a tag stands for.  cx is the row in the run: [current, dir,        *)
(* parents, folder, size, stamps, field, counter, files, random, answers,  *)
(* clipboard, pattern, strict].  None: no value.                           *)

\* A separator in a value out of a file would make folders of it.
Safe(text) == IF text = None THEN None
              ELSE [i \in DOMAIN text |-> IF text[i] \in {"/", "\\"} THEN "-" ELSE text[i]]

SliceOf(s, from, to, back) ==
    LET a == Position(Len(s), from, back)
        b == IF to = None THEN Len(s) ELSE Position(Len(s), to, back)
    IN  IF a <= b THEN SubSeq(s, a + 1, b) ELSE SubSeq(s, b + 1, a)

FirstLetter(stem, mode) ==
    LET c == stem[1]
    IN  IF stem = <<>> THEN None
        ELSE IF IsLetter(c) THEN UpperChar(c)
        ELSE IF ~IsDigit(c) \/ mode = "fletter" THEN None
        ELSE IF mode = "flettern2" THEN <<"#">> ELSE <<c>>

ParentName(cx, level) == IF level > Len(cx.parents) THEN None ELSE cx.parents[level]

PickedIn(r, value) ==
    LET low == WholeOf(r.low) IN low + (value % (WholeOf(r.high) - low + 1))
RandomValue(t, value) ==
    LET n == ReadNat(CountOf(t.rest))
    IN  IF t.rest = <<>> THEN <<"R">>
        ELSE IF t.arg = None THEN PaddedInt(FALSE, DigitsOf(value % Ten(n)), n)
        ELSE The({PaddedInt(picked < 0, DigitsOf(AbsOf(picked)), IF PadOf(t.rest) THEN n ELSE 0) :
                     picked \in {PickedIn(RangeOf(t.arg), value)}})

NumArg(t, default) == IF t.arg = None THEN default ELSE ReadNat(t.arg)

SpanOf(t, s) ==
    LET cut == CutAtDash(t.arg, 1)
        back == t.tag = "midrev"
    IN  IF cut = None THEN SliceOf(s, ReadNat(t.arg), None, back)
        ELSE SliceOf(s, ReadNat(cut.low), ReadNat(cut.high), back)

Meant(t, position, cx, stem, ext) ==
    CASE t.tag = "text" -> t.arg
      [] t.tag = "name" -> stem
      [] t.tag = "ext" -> ext
      [] t.tag = "fullname" -> cx.current
      [] t.tag = "left" -> SubSeq(stem, 1, Capped(NumArg(t, 0), Len(stem)))
      [] t.tag = "right" -> From(stem, Len(stem) - Capped(NumArg(t, 0), Len(stem)) + 1)
      [] t.tag \in Ranges -> SpanOf(t, stem)
      [] t.tag \in {"fletter", "flettern1", "flettern2"} -> FirstLetter(stem, t.tag)
      [] t.tag = "parent" -> ParentName(cx, NumArg(t, 1))
      [] t.tag = "size" -> cx.size.short
      [] t.tag = "sizeb" -> PaddedInt(FALSE, DigitsOf(cx.size.bytes), NumArg(t, 0))
      [] t.tag \in {"exifdate", "exiftime"} -> cx.field[t.tag]
      [] t.tag \in (Formatted \cup Unformatted) \ {"exifdate", "exiftime"} -> cx.stamps[t.tag]
      [] t.tag = "counter" -> cx.counter
      [] t.tag = "numfiles" -> DigitsOf(cx.files)
      [] t.tag = "rnd" -> RandomValue(t, cx.random[position])
      [] t.tag = "ask" -> cx.answers[SlotOf(t)]
      [] t.tag = "clipboard" -> cx.clipboard
      [] t.tag = "%" -> Part(cx.pattern, stem, ReadNat(t.rest))
      [] t.tag = "\\" -> <<"/">>
      [] t.tag \in {"filemax", "pathmax"} -> <<>>
      [] t.tag \in {"crc32", "detectedext", "width", "height", "depth", "depthb"} -> cx.field[t.tag]
      [] t.tag = "htmltitle" /\ cx.dir -> None
      [] OTHER -> Safe(cx.field[t.tag])
Resolve(t, position, cx) ==
    The({Meant(t, position, cx, split.stem, split.ext) : split \in {SplitName(cx.current, cx.dir)}})

\* The smallest of the limits of one kind, or None.
LimitOf(nodes, kind) ==
    LET set == {NumArg(nodes[i], 0) : i \in {j \in DOMAIN nodes : nodes[j].tag = kind}}
    IN  IF set = {} THEN None ELSE Head1(set)
Cropped(s, max) == IF max = None THEN s ELSE SubSeq(s, 1, Capped(max, Len(s)))
LessThe(max, prefix) == IF max = None THEN None ELSE IF max < prefix THEN 0 ELSE max - prefix

Filled(values) == FlattenSeq([i \in DOMAIN values |-> IF values[i] = None THEN <<>> ELSE values[i]])

ValuesOf(nodes, cx) == [i \in DOMAIN nodes |-> Resolve(nodes[i], i, cx)]
Missing(values) == {i \in DOMAIN values : values[i] = None}

\* What a field comes to, of the values of its parts: None when an answer is still
\* to be given, or when a tag has no value and the run wants them all.
FieldText(nodes, values, cx) ==
    IF \/ \E i \in Missing(values) : nodes[i].tag \in {"ask", "clipboard"}
       \/ cx.strict /\ Missing(values) # {}
    THEN None
    ELSE Cropped(Cropped(Filled(values), LimitOf(nodes, "filemax")),
                 LessThe(LimitOf(nodes, "pathmax"), cx.folder + 1))
=============================================================================
