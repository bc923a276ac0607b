--------------------------------- MODULE Wording ---------------------------------
(***************************************************************************)
(* The operations on the words of a name (ren-core/src/ops): Find &        *)
(* Replace and its batch, casing, space trimming, Add & Remove, Move       *)
(* Section, Rearrange, Free Format.  Each takes the part of the name it    *)
(* was handed and what its tag fields rendered to: None when a tag has no  *)
(* value yet, or none where the run wants them all.  Each answers the text *)
(* from then on.                                                           *)
(***************************************************************************)
EXTENDS Text

-----------------------------------------------------------------------------
(* Replace: [find, with, exact, swap, skip, max]; max 0 is no limit.       *)

SameText(a, b, exact) == IF exact THEN a = b ELSE Lower(a) = Lower(b)

SwapApplies(r) == r.swap /\ ~HasWildcards(r.find) /\ r.with # None /\ r.with # <<>>

\* The leftmost of either text, the longer one where both start.
Leftmost(first, second) ==
    IF first = None THEN second
    ELSE IF second = None \/ first.at <= second.at THEN first ELSE second
LongerFirst(r, hit) ==
    IF Len(r.with) > Len(r.find) THEN Leftmost(hit[r.with], hit[r.find]) ELSE Leftmost(hit[r.find], hit[r.with])
FindEither(r, s) ==
    The({LongerFirst(r, hit) : hit \in {[t \in {r.find, r.with} |-> FindPlain(t, r.exact, s)]}})

Sought(r, s) == IF SwapApplies(r) THEN FindEither(r, s) ELSE Find(r.find, r.exact, s)
Put(r, m) == IF SwapApplies(r) /\ ~SameText(m, r.find, r.exact) THEN r.find ELSE r.with

\* The hits, left to right and not overlapping; an empty one is stepped over.
NextHit(s, so, hit) ==
    IF hit = None THEN [so EXCEPT !.at = Len(s) + 2]
    ELSE LET from == so.at + hit.at - 1
         IN  [hits |-> Append(so.hits, [from |-> from, to |-> from + hit.len]),
              at |-> from + (IF hit.len = 0 THEN 1 ELSE hit.len)]
HitsIn(r, s) ==
    LET so[n \in 0..(Len(s) + 1)] ==
            IF n = 0 THEN [hits |-> <<>>, at |-> 1]
            ELSE IF so[n - 1].at > Len(s) + 1 THEN so[n - 1]
            ELSE The({NextHit(s, so[n - 1], hit) : hit \in {Sought(r, From(s, so[n - 1].at))}})
    IN  so[Len(s) + 1].hits

\* Only the hits after the first skip, and at most max of them.
Chosen(hits, skip, max) ==
    SubSeq(hits, skip + 1, IF max = 0 \/ skip + max > Len(hits) THEN Len(hits) ELSE skip + max)

Substituted(r, s, hits) ==
    Spliced(s, hits, [k \in DOMAIN hits |-> Put(r, SubSeq(s, hits[k].from, hits[k].to - 1))])

Replaced(r, s) ==
    IF r.find = <<>> \/ r.with = None THEN s
    ELSE The({Substituted(r, s, hits) : hits \in {Chosen(HitsIn(r, s), r.skip, r.max)}})

-----------------------------------------------------------------------------
(* A batch of rules.  A search over the name says which rules could match; *)
(* only those are tried, and the search is done again from the rule after  *)
(* one that changed the name.                                              *)

Matches(r, s) == r.find # <<>> /\ Sought(r, s) # None

Candidates(rules, s, from) == {i \in DOMAIN rules : i >= from /\ Matches(rules[i], s)}

\* As a bug would have it: only the name as it came is searched.
TriedOnce(rules, s, cand) ==
    LET tried[i \in 0..Len(rules)] ==
            IF i = 0 THEN s ELSE IF i \in cand THEN Replaced(rules[i], tried[i - 1]) ELSE tried[i - 1]
    IN  tried[Len(rules)]
SearchedOnce(rules, s, from) == TriedOnce(rules, s, Candidates(rules, s, from))

\* So far: the text, and the rule to go on from.
FromFirst(rules, so, outcomes, changing) ==
    IF changing = {} THEN [so EXCEPT !.from = Len(rules) + 1]
    ELSE [text |-> outcomes[Head1(changing)], from |-> Head1(changing) + 1]
FirstThatChanges(rules, so, outcomes) ==
    FromFirst(rules, so, outcomes, {i \in DOMAIN outcomes : outcomes[i] # so.text})
Searched(rules, so) ==
    The({FirstThatChanges(rules, so, outcomes) :
            outcomes \in {[i \in Candidates(rules, so.text, so.from) |-> Replaced(rules[i], so.text)]}})
BatchFrom(rules, s, from) ==
    LET so[n \in 0..Len(rules)] ==
            IF n = 0 THEN [text |-> s, from |-> from] ELSE Searched(rules, so[n - 1])
    IN  so[Len(rules)].text

BatchReplaced(rules, s) == BatchFrom(rules, s, 1)

-----------------------------------------------------------------------------
(* Casing: [mode, lowers, upper, mixed, except, lowwords, words, after,    *)
(* quotes].                                                                *)

IsSeparator(k, c) == c = " " \/ c \in k.after

\* Left alone: all in capitals, or with a capital in it.
Preserved(k, w) ==
    /\ \E c \in CharsOf(w) : IsLetter(c)
    /\ \/ k.upper /\ \A c \in CharsOf(w) : ~IsLower(c)
       \/ k.mixed /\ \E c \in CharsOf(w) : IsUpper(c)

\* The first letter past the quotes; what comes before anything else is kept.
Capitalized(k, w) ==
    LET starts == {i \in DOMAIN w : IsLetter(w[i]) \/ w[i] \notin k.quotes}
        i == Head1(starts)
    IN  IF starts = {} THEN w ELSE Before(w, i) \o UpperChar(w[i]) \o Lower(From(w, i + 1))

Inverted(w) == FlattenSeq([i \in DOMAIN w |-> IF IsUpper(w[i]) THEN LowerChar(w[i]) ELSE UpperChar(w[i])])

WordCased(k, w, first) ==
    LET same(e) == Lower(e) = Lower(w)
    IN  CASE Preserved(k, w) -> w
          [] ~Preserved(k, w) /\ k.except /\ (\E e \in k.words : same(e)) ->
                CHOOSE e \in k.words : same(e)
          [] OTHER ->
                CASE k.mode = "upper" -> Upper(w)
                  [] k.mode = "invert" -> Inverted(w)
                  [] k.mode = "title" ->
                        IF k.lowers /\ ~first /\ (\E e \in k.lowwords : same(e)) THEN Lower(w)
                        ELSE Capitalized(k, w)
                  [] k.mode = "sentence" -> IF first THEN Capitalized(k, w) ELSE Lower(w)
                  [] OTHER -> Lower(w)

\* The words are what is between the separators; the first is the first there is.
CasedWords(k, s) ==
    LET ends == {i \in DOMAIN s : IsSeparator(k, s[i])}
        before(i) == {j \in ends : j < i}
        start(i) == IF before(i) = {} THEN 1 ELSE Last1(before(i)) + 1
        first(i) == \A j \in 1..(start(i) - 1) : j \in ends
        cased(i) == IF start(i) = i THEN <<>> ELSE WordCased(k, SubSeq(s, start(i), i - 1), first(i))
    IN  FlattenSeq([i \in 1..(Len(s) + 1) |->
            IF i \in ends THEN Append(cased(i), s[i]) ELSE IF i > Len(s) THEN cased(i) ELSE <<>>])

Cased(k, s) == IF k.mode = "none" \/ s = <<>> THEN s ELSE CasedWords(k, s)

-----------------------------------------------------------------------------
(* Space trimming: [leading, trailing, shrink, before, after, scores].     *)

Closing == {",", ";", ".", ":", "!", "?"}

\* A space goes in front of c, and behind it.
SpaceBefore(k, done, c) ==
    /\ c \in k.before /\ done # <<>>
    /\ done[Len(done)] \notin k.before \cup {" "}
SpaceAfter(k, s, i) == s[i] \in k.after /\ i < Len(s) /\ s[i + 1] \notin k.after \cup Closing \cup {" "}
SpaceIf(b) == IF b THEN <<" ">> ELSE <<>>
Spaced(k, s) ==
    LET done[i \in 0..Len(s)] ==
            IF i = 0 THEN <<>>
            ELSE done[i - 1] \o SpaceIf(SpaceBefore(k, done[i - 1], s[i])) \o <<s[i]>> \o SpaceIf(SpaceAfter(k, s, i))
    IN  done[Len(s)]

\* The last of several spaces stays.
Shrunk(s) ==
    LET done[i \in 0..Len(s)] ==
            IF i = 0 THEN <<>>
            ELSE IF i < Len(s) /\ s[i] = " " /\ s[i + 1] = " " THEN done[i - 1] ELSE Append(done[i - 1], s[i])
    IN  done[Len(s)]

Trimmed(s, leading, trailing) ==
    LET solid == {i \in DOMAIN s : s[i] # " "}
        a == IF ~leading THEN 1 ELSE IF solid = {} THEN Len(s) + 1 ELSE Head1(solid)
        b == IF ~trailing THEN Len(s) ELSE IF solid = {} THEN 0 ELSE Last1(solid)
    IN  SubSeq(s, a, b)

\* The answer worked out in full.
SpacesTrimmed(k, s) ==
    LET one == [i \in DOMAIN s |-> IF k.scores /\ s[i] = "_" THEN " " ELSE s[i]]
        two == Spaced(k, one)
        three == IF k.shrink THEN Shrunk(two) ELSE two
    IN  Trimmed(three, k.leading, k.trailing)

\* The early answer: nothing here can change.
CannotChange(k, s) ==
    /\ \A i \in DOMAIN s : /\ ~(k.scores /\ s[i] = "_")
                           /\ ~(k.shrink /\ s[i] = " " /\ i > 1 /\ s[i - 1] = " ")
                           /\ s[i] \notin k.before \cup k.after
    /\ s # <<>> => ~(k.leading /\ s[1] = " ") /\ ~(k.trailing /\ s[Len(s)] = " ")

SpaceTrim(k, s) == IF CannotChange(k, s) THEN s ELSE SpacesTrimmed(k, s)

-----------------------------------------------------------------------------
(* What is put in, taken out and moved by position.                        *)

Without(s, at, count) == SubSeq(s, 1, at) \o From(s, Capped(at + count, Len(s)) + 1)

\* Add & Remove: [mode, insert, over, apos, aback, del, rpos, rback].
Removed(k, s) == Without(s, Position(Len(s), k.rpos, k.rback), k.del)
Added(k, s) ==
    LET at == Position(Len(s), k.apos, k.aback)
        eaten == IF k.over THEN Len(k.insert) ELSE 0
    IN  SubSeq(s, 1, at) \o k.insert \o From(s, Capped(at + eaten, Len(s)) + 1)
AddRemove(k, s) ==
    CASE k.mode = "remove" -> Removed(k, s)
      [] k.mode # "remove" /\ k.insert = None -> s
      [] k.mode = "add" /\ k.insert # None -> Added(k, s)
      [] OTHER -> Added(k, Removed(k, s))

\* Where the section goes, in the name that is left: a place, or steps away.
PasteAt(k, s, at, rest) ==
    IF k.relative THEN IF k.tback THEN at - Capped(k.to, at) ELSE Capped(at + k.to, Len(rest))
    ELSE Position(Len(rest), k.to, k.tback)

\* Move Section: [cut, from, fback, to, tback, relative].
MoveSection(k, s) ==
    LET at == Position(Len(s), k.from, k.fback)
        section == SubSeq(s, at + 1, Capped(at + k.cut, Len(s)))
        rest == Without(s, at, k.cut)
        paste == PasteAt(k, s, at, rest)
    IN  IF section = <<>> THEN s ELSE SubSeq(rest, 1, paste) \o section \o From(rest, paste + 1)

-----------------------------------------------------------------------------
(* Rearrange: a pattern of parts, and a layout of pieces [slot, trim, text]*)
(* where slot is None for a text and text None for a tag without a value.  *)

Piece(pattern, piece, s) ==
    IF piece.slot = None THEN piece.text
    ELSE The({IF part # None /\ piece.trim THEN Trimmed(part, TRUE, TRUE) ELSE part :
                 part \in {Part(pattern, s, piece.slot)}})

\* One after the other, if there are any and none is missing.
Laid(pieces, s) == IF pieces = <<>> \/ (\E i \in DOMAIN pieces : pieces[i] = None) THEN s ELSE FlattenSeq(pieces)

Misfit(pattern, layout, s) ==
    \E i \in DOMAIN layout : layout[i].slot # None /\ Part(pattern, s, layout[i].slot) = None

Rearranged(pattern, layout, s) ==
    The({Laid(pieces, s) : pieces \in {[i \in DOMAIN layout |-> Piece(pattern, layout[i], s)]}})
=============================================================================
