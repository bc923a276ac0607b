--------------------------------- MODULE Answers ---------------------------------
(***************************************************************************)
(* Answers that are given early (ren-core: ops/space_trim.rs, RuleSet of   *)
(* ops/replace.rs), over every name that can be typed.                     *)
(***************************************************************************)
EXTENDS Wording

CONSTANTS Letters,     \* what a name is typed of
          MaxLetters,  \* bound: its length
          Trims,       \* the settings Trim Spaces is tried with
          Batches      \* the lists of rules Batch Replace is tried with

VARIABLE typed

Texts == Seq(STRING)

\* A rule seeks a text and puts another in its place, or has no value for it.
IsRule(r) == r.find \in Texts /\ r.with \in Texts \cup {None} /\ r.skip \in Nat /\ r.max \in Nat

ASSUME AnswersAssumption ==
    /\ Letters \subseteq STRING
    /\ \A rules \in Batches :
          /\ rules \in Seq({rules[i] : i \in DOMAIN rules})
          /\ \A i \in DOMAIN rules : IsRule(rules[i])

TypedInit == typed = <<>>
Types(c) == Len(typed) < MaxLetters /\ typed' = Append(typed, c)
TypedNext == \E c \in Letters : Types(c)
TypedSpec == TypedInit /\ [][TypedNext]_typed

\* All the rules, one after the other.
RuleByRule(rules, s) ==
    LET after[i \in 0..Len(rules)] == IF i = 0 THEN s ELSE Replaced(rules[i], after[i - 1])
    IN  after[Len(rules)]

\* An answer given early is the one worked out in full: Trim Spaces that finds
\* nothing to do would have done nothing, and a batch that tries only the
\* rules its one search found, and searches again after a change, does what
\* all of its rules do one after the other (SpaceTrim::apply, cannot_change,
\* BatchReplace::apply, RuleSet::candidates).
EarlyAnswersAreRight ==
    /\ \A k \in Trims : SpaceTrim(k, typed) = SpacesTrimmed(k, typed)
    /\ \A rules \in Batches : BatchReplaced(rules, typed) = RuleByRule(rules, typed)
=============================================================================
