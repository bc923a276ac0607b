---------------------------------- MODULE Text ----------------------------------
(***************************************************************************)
(* How a name is cut up before an operation sees it (ren-core): searches   *)
(* and wildcards (matcher.rs, wildcard.rs), stem and extension (model.rs), *)
(* the include filter, the pre-processor, and the parts of a name.  A name *)
(* is a sequence of characters; a hit is where it starts and how long it   *)
(* is.  Regular expressions are the engine's and are not modelled.         *)
(***************************************************************************)
EXTENDS Integers, SequencesExt

CONSTANT None

\* The value in a set of one, bound and so worked out once.
The(set) == CHOOSE x \in set : TRUE

Head1(S) == CHOOSE x \in S : \A y \in S : x <= y
Last1(S) == CHOOSE x \in S : \A y \in S : y <= x

\* The text from position i on, and up to before it.
From(s, i)   == SubSeq(s, i, Len(s))
Before(s, i) == SubSeq(s, 1, i - 1)
CharsOf(s)   == {s[i] : i \in DOMAIN s}

\* The text with each span [from, to) of it, in order, written anew.
Spliced(s, spans, texts) ==
    LET open(k) == IF k = 1 THEN 1 ELSE spans[k - 1].to
        pieces == [k \in DOMAIN spans |-> SubSeq(s, open(k), spans[k].from - 1) \o texts[k]]
    IN  FlattenSeq(pieces) \o From(s, open(Len(spans) + 1))

\* Positions count from 0, from the end when backwards, and saturate.
Capped(n, max) == IF n > max THEN max ELSE n
Position(len, pos, back) == IF back THEN len - Capped(pos, len) ELSE Capped(pos, len)

-----------------------------------------------------------------------------
(* Letters.  "I~" is a letter that folds to two.                           *)

LowerOf == [A |-> "a", B |-> "b", I |-> "i"]
UpperOf == [a |-> "A", b |-> "B", i |-> "I"]
IsUpper(c) == c \in DOMAIN LowerOf \cup {"I~"}
IsLower(c) == c \in DOMAIN UpperOf
IsLetter(c) == IsUpper(c) \/ IsLower(c)
IsDigit(c) == c \in {"0", "1", "2", "3", "4", "5", "6", "7", "8", "9"}

LowerChar(c) == IF c = "I~" THEN <<"i", "~">>
                ELSE IF c \in DOMAIN LowerOf THEN <<LowerOf[c]>> ELSE <<c>>
UpperChar(c) == IF c \in DOMAIN UpperOf THEN <<UpperOf[c]>> ELSE <<c>>

Lower(s) == FlattenSeq([i \in DOMAIN s |-> LowerChar(s[i])])
Upper(s) == FlattenSeq([i \in DOMAIN s |-> UpperChar(s[i])])

-----------------------------------------------------------------------------
(* Searching.                                                              *)

StartsWith(s, t) == Len(t) <= Len(s) /\ SubSeq(s, 1, Len(t)) = t
OccursAt(s, t)   == {i \in 1..Len(s) : StartsWith(From(s, i), t)}

FindExact(s, t) ==
    IF t = <<>> THEN [at |-> 1, len |-> 0]
    ELSE IF OccursAt(s, t) = {} THEN None
    ELSE [at |-> Head1(OccursAt(s, t)), len |-> Len(t)]

\* As a bug would have it: the place in the folded text, used in the original.
FindInFolded(s, t) ==
    LET hit == FindExact(Lower(s), Lower(t))
    IN  IF hit = None THEN None
        ELSE [hit EXCEPT !.len = IF hit.at > Len(s) THEN 0
                                 ELSE IF hit.at + hit.len - 1 > Len(s) THEN Len(s) - hit.at + 1
                                 ELSE hit.len]

\* Whatever the case: compared letter by letter as they fold, so that the
\* hit is one in the text as it stands.
FindFolded(s, t) ==
    LET hits == {i \in 1..Len(s) : StartsWith(Lower(From(s, i)), Lower(t))}
    IN  IF t = <<>> THEN [at |-> 1, len |-> 0]
        ELSE IF hits = {} THEN None
        ELSE LET i == Head1(hits)
             IN  [at |-> i,
                  len |-> Head1({k \in 0..(Len(s) - i + 1) :
                                    Len(Lower(SubSeq(s, i, i + k - 1))) >= Len(Lower(t))})]

Wildcards == {"*", ":", "?"}
HasWildcards(t) == CharsOf(t) \cap Wildcards # {}

SameLetter(a, b, exact) == IF exact THEN a = b ELSE LowerChar(a) = LowerChar(b)

\* Where a wildcard that starts at i may stop, the longest first: the ends a
\* greedy engine would try, in a set; it takes the first, which is Preferred.
Stops(c, s, i, exact) ==
    CASE c = "*" -> i..(Len(s) + 1)
      [] c = ":" -> (i + 1)..(Len(s) + 1)
      [] c = "?" -> {i + 1} \cap 1..(Len(s) + 1)
      [] OTHER -> IF i <= Len(s) /\ SameLetter(s[i], c, exact) THEN {i + 1} ELSE {}

\* Where the last n signs of the wildcard may stop, by where they start.
EndsOf(p, s, exact) ==
    LET ends[n \in 0..Len(p)] ==
            IF n = 0 THEN [j \in 1..(Len(s) + 1) |-> {j}]
            ELSE [j \in 1..(Len(s) + 1) |->
                     UNION {ends[n - 1][m] : m \in Stops(p[Len(p) - n + 1], s, j, exact)}]
    IN  ends
\* Of the wildcard without its first n signs.
EndsAfter(p, n, s, i, exact) == EndsOf(p, s, exact)[Len(p) - n][i]
Ends(p, s, i, exact) == EndsAfter(p, 0, s, i, exact)

Preferred(p, s, i, exact) ==
    LET at[k \in 0..Len(p)] ==
            IF k = 0 THEN i
            ELSE Last1({j \in Stops(p[k], s, at[k - 1], exact) : EndsAfter(p, k, s, j, exact) # {}})
    IN  at[Len(p)]

FindWild(s, p, exact) ==
    LET starts == {i \in 1..(Len(s) + 1) : Ends(p, s, i, exact) # {}}
    IN  IF starts = {} THEN None
        ELSE LET i == Head1(starts) IN [at |-> i, len |-> Preferred(p, s, i, exact) - i]

\* A mask over the whole of it.
IsMask(s, p, exact) == (Len(s) + 1) \in Ends(p, s, 1, exact)

\* A plain text is searched for; a text with a wildcard in it is one.
FindPlain(text, exact, s) == IF exact THEN FindExact(s, text) ELSE FindFolded(s, text)
Find(text, exact, s) == IF HasWildcards(text) THEN FindWild(s, text, exact) ELSE FindPlain(text, exact, s)

Passes(text, exact, s) ==
    IF HasWildcards(text) THEN IsMask(s, text, exact) ELSE FindPlain(text, exact, s) # None

-----------------------------------------------------------------------------
(* Stem and extension.                                                     *)

SplitFileName(n) ==
    LET dots == {i \in DOMAIN n : n[i] = "."}
    IN  IF n \in {<<".">>, <<".", ".">>} \/ dots = {} \/ Last1(dots) = 1
        THEN [stem |-> n, ext |-> None]
        ELSE [stem |-> Before(n, Last1(dots)), ext |-> From(n, Last1(dots) + 1)]

\* A folder has no extension.
SplitName(n, dir) == IF dir THEN [stem |-> n, ext |-> None] ELSE SplitFileName(n)

\* A subject is a name and the part of it, from..to-1, that may be changed.
Subject(n, from, to) == [name |-> n, from |-> from, to |-> to]
Active(sub)    == SubSeq(sub.name, sub.from, sub.to - 1)
Narrow(sub, hit) == [sub EXCEPT !.from = sub.from + hit.at - 1,
                                !.to = sub.from + hit.at - 1 + hit.len]
Reassemble(sub, t) == Before(sub.name, sub.from) \o t \o From(sub.name, sub.to)

\* What a scope covers; None when it does not apply to this row at all.
Slice(scope, n, dir) ==
    LET split == SplitName(n, dir)
    IN  CASE scope = "both" -> Subject(n, 1, Len(n) + 1)
          [] scope = "name" -> Subject(n, 1, Len(split.stem) + 1)
          [] OTHER -> IF split.ext = None THEN None
                      ELSE Subject(n, Len(n) - Len(split.ext) + 1, Len(n) + 1)

-----------------------------------------------------------------------------
(* The include filter: [include, exclude, whole, ext, exact].              *)

\* What it looks at of a name.
LooksAt(f, split, path, n) ==
    {split.stem} \cup (IF f.ext /\ split.ext # None THEN {split.ext, n} ELSE {})
                 \cup (IF f.whole THEN {path} ELSE {})
MatchesAny(f, text, path, n, dir) ==
    \E part \in LooksAt(f, SplitName(n, dir), path, n) : Passes(text, f.exact, part)

Accepts(f, path, n, dir) ==
    /\ f.include # None => MatchesAny(f, f.include, path, n, dir)
    /\ f.exclude # None => ~MatchesAny(f, f.exclude, path, n, dir)

-----------------------------------------------------------------------------
(* The pre-processor: [skip, until, limit, cut, section, exact], each None *)
(* when it is off; a search armed but empty is off.                        *)

On(text) == text # None /\ text # <<>>
Rest(sub, i) == Narrow(sub, [at |-> i, len |-> Len(Active(sub)) - i + 1])
Upto(sub, k) == Narrow(sub, [at |-> 1, len |-> k])

Skipped(p, sub) ==
    IF p.skip = None THEN sub
    ELSE IF p.skip > Len(Active(sub)) THEN None ELSE Rest(sub, p.skip + 1)
Reached(p, sub) ==
    IF sub = None \/ ~On(p.until) THEN sub
    ELSE The({IF hit = None THEN None ELSE Rest(sub, hit.at) : hit \in {Find(p.until, p.exact, Active(sub))}})
Limited(p, sub) ==
    IF sub = None \/ p.limit = None THEN sub
    ELSE Upto(sub, IF p.limit < Len(Active(sub)) THEN p.limit ELSE Len(Active(sub)))
Cut(p, sub) ==
    IF sub = None \/ ~On(p.cut) THEN sub
    ELSE The({IF hit = None THEN sub ELSE Upto(sub, hit.at - 1) : hit \in {Find(p.cut, p.exact, Active(sub))}})
Section(p, sub) ==
    IF sub = None \/ ~On(p.section) THEN sub
    ELSE The({IF hit = None THEN None ELSE Narrow(sub, hit) : hit \in {Find(p.section, p.exact, Active(sub))}})

\* None: the file is not to be renamed.
Narrowed(p, sub) == Section(p, Cut(p, Limited(p, Reached(p, Skipped(p, sub)))))

-----------------------------------------------------------------------------
(* Parts.  A pattern is a sequence of segments: a slot 1..9 with the       *)
(* literal text after it, <<>> when a slot or nothing follows; lead is the *)
(* text before the first.                                                  *)

\* Each slot runs up to the next separator; the first that is missing ends it.
\* rest is None from there on.
Extracted(got, seg) ==
    LET hit == IF got.rest = None THEN None
               ELSE IF seg.sep = <<>> THEN [at |-> Len(got.rest) + 1, len |-> 0]
               ELSE FindExact(got.rest, seg.sep)
    IN  IF hit = None THEN [got EXCEPT !.rest = None]
        ELSE [parts |-> Append(got.parts, [slot |-> seg.slot, text |-> Before(got.rest, hit.at)]),
              rest |-> From(got.rest, hit.at + hit.len)]
Extract(segs, rest) ==
    LET got[k \in 0..Len(segs)] ==
            IF k = 0 THEN [parts |-> <<>>, rest |-> rest] ELSE Extracted(got[k - 1], segs[k])
    IN  got[Len(segs)].parts

PartsOf(pattern, n) ==
    IF pattern.segs = <<>> \/ ~StartsWith(n, pattern.lead) THEN <<>>
    ELSE Extract(pattern.segs, From(n, Len(pattern.lead) + 1))

\* The first value a slot was given, or None.
PartIn(got, slot) ==
    LET at == {i \in DOMAIN got : got[i].slot = slot}
    IN  IF at = {} THEN None ELSE got[Head1(at)].text
Part(pattern, n, slot) == The({PartIn(got, slot) : got \in {PartsOf(pattern, n)}})

\* The wand: a pattern guessed from a sample.
Separators == {<<" ", "-", " ">>, <<".", " ">>} \cup
              UNION {{<<" ", b>>, <<b>>} : b \in {"(", "["}} \cup
              UNION {{<<b, " ">>, <<b>>} : b \in {")", "]"}}
MaxSlots == 9

\* The earliest separator, and the longest of those that start there.
NextSeparator(rest) ==
    LET at == UNION {OccursAt(rest, sep) : sep \in Separators}
        i  == Head1(at)
    IN  IF at = {} THEN None
        ELSE [at |-> i, len |-> Last1({Len(sep) : sep \in {x \in Separators : StartsWith(From(rest, i), x)}})]

Detected(sample) ==
    LET wand[slot \in 1..MaxSlots, i \in 1..(Len(sample) + 1)] ==
            LET rest == From(sample, i)
                hit  == NextSeparator(rest)
                last == IF slot = MaxSlots \/ hit = None THEN TRUE ELSE hit.at = 1
            IN  IF last THEN <<[slot |-> slot, sep |-> <<>>]>>
                ELSE <<[slot |-> slot, sep |-> SubSeq(rest, hit.at, hit.at + hit.len - 1)]>>
                     \o wand[slot + 1, i + hit.at + hit.len - 1]
    IN  wand[1, 1]
Detect(sample) == [lead |-> <<>>, segs |-> Detected(sample)]
=============================================================================
