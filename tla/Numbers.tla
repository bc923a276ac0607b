--------------------------------- MODULE Numbers ---------------------------------
(***************************************************************************)
(* Numbers in names and the counter (ren-core): ops/numbers.rs, Zero       *)
(* Padding, Re-Number, the counter's digits, Add Counter.  A number in a   *)
(* name is num / 10^scale.  An operation that cannot be done answers       *)
(* Failed, which is the row's error.                                       *)
(***************************************************************************)
EXTENDS Text

CONSTANTS Failed,
          MaxValue,      \* the largest decimal, 2^96 - 1 in the code
          MaxScale       \* places a quotient is carried to, 28 in the code

MAX_PAD_WIDTH == 255

DigitChars == <<"0", "1", "2", "3", "4", "5", "6", "7", "8", "9">>
ValueOf(c) == CHOOSE d \in 0..9 : DigitChars[d + 1] = c
AbsOf(n)   == IF n < 0 THEN -n ELSE n
Zeros(n)   == [i \in 1..n |-> "0"]

DecimalOf[n \in Nat] ==
    IF n < 10 THEN <<DigitChars[n + 1]>> ELSE Append(DecimalOf[n \div 10], DigitChars[(n % 10) + 1])
DigitsOf(n) == DecimalOf[n]
ReadNat(s) ==
    LET read[i \in 0..Len(s)] == IF i = 0 THEN 0 ELSE 10 * read[i - 1] + ValueOf(s[i])
    IN  read[Len(s)]
Ten(n) == 10^n

-----------------------------------------------------------------------------
(* The numbers of a name, left to right.  With points, one separator joins *)
(* two runs of digits; with minus, a dash in front belongs to the number.  *)

RunEnd(s, i) == Head1({j \in i..(Len(s) + 1) : j = Len(s) + 1 \/ ~IsDigit(s[j])})

Fused(s, o, b) == o.points /\ b < Len(s) /\ s[b] \in {".", ","} /\ IsDigit(s[b + 1])
Dashed(s, o, a) == o.minus /\ a > 1 /\ s[a - 1] = "-"

NumberOf(n, neg, scale) == IF n > MaxValue THEN None ELSE [num |-> IF neg THEN -n ELSE n, scale |-> scale]

\* Digits from a up to b, and behind the separator at b up to c, when c is not b.
ReadFrom(s, a, b, c, neg) ==
    [from |-> IF neg THEN a - 1 ELSE a, to |-> c, ints |-> b - a, sep |-> IF c = b THEN None ELSE s[b], neg |-> neg,
     value |-> NumberOf(ReadNat(SubSeq(s, a, b - 1) \o SubSeq(s, b + 1, c - 1)), neg, IF c = b THEN 0 ELSE c - b - 1)]
ReadOn(s, o, a, b) == ReadFrom(s, a, b, IF Fused(s, o, b) THEN RunEnd(s, b + 1) ELSE b, Dashed(s, o, a))

Scan(s, o, from) ==
    LET starts == {i \in from..Len(s) : IsDigit(s[i])}
    IN  IF starts = {} THEN None ELSE ReadOn(s, o, Head1(starts), RunEnd(s, Head1(starts)))

NumbersIn(s, o) ==
    LET numbers[i \in 1..(Len(s) + 1)] ==
            The({IF span = None THEN <<>> ELSE <<span>> \o numbers[span.to] : span \in {Scan(s, o, i)}})
    IN  numbers[1]

\* Which of count numbers is meant.
Selects(target, i, count) ==
    CASE target = "all" -> TRUE
      [] target = "last" -> i = count
      [] target = "second to last" -> i + 1 = count
      [] OTHER -> target = i

-----------------------------------------------------------------------------
(* Zero Padding: made exactly that wide, losing digits on the left.        *)

Resized(digits, width) ==
    IF width = 0 THEN digits
    ELSE IF Len(digits) <= width THEN Zeros(width - Len(digits)) \o digits
    ELSE From(digits, Len(digits) - width + 1)

SpanText(s, span) == SubSeq(s, span.from, span.to - 1)
PaddedAt(width, s, spans) ==
    IF spans = <<>> THEN s ELSE IF width > MAX_PAD_WIDTH THEN Failed
    ELSE Spliced(s, spans, [i \in DOMAIN spans |-> Resized(SpanText(s, spans[i]), width)])
ZeroPadded(width, s) ==
    The({PaddedAt(width, s, spans) : spans \in {NumbersIn(s, [points |-> FALSE, minus |-> FALSE])}})

-----------------------------------------------------------------------------
(* Re-Number: [target, low, high, action, operand, points, minus, keep,    *)
(* rounding].  operand is what its field rendered to, None when it did not.*)

\* Without the zeros it ends in behind the point.
Normal(v) ==
    LET zeros == Last1({n \in 0..v.scale : v.num % Ten(n) = 0})
    IN  [num |-> v.num \div Ten(zeros), scale |-> v.scale - zeros]

\* Halves go to the even neighbour.
RoundedTo(v, places) ==
    IF places >= v.scale THEN v
    ELSE LET unit == Ten(v.scale - places)
             n == AbsOf(v.num)
             down == n \div unit
             rest == 2 * (n % unit)
             up == IF rest > unit \/ (rest = unit /\ down % 2 = 1) THEN down + 1 ELSE down
         IN  [num |-> IF v.num < 0 THEN -up ELSE up, scale |-> places]

\* The value of digits, with a sign or a point; None for anything else.
OneNumber(spans, length) ==
    IF Len(spans) # 1 THEN None
    ELSE IF spans[1].from # 1 \/ spans[1].to # length + 1 \/ spans[1].sep = "," THEN None ELSE spans[1].value
Signed(neg, v) == IF v = None \/ ~neg THEN v ELSE [v EXCEPT !.num = -@]
Unsigned(body) == OneNumber(NumbersIn(body, [points |-> TRUE, minus |-> FALSE]), Len(body))
HasSign(text) == text # <<>> /\ text[1] = "-"
Parsed(text) == Signed(HasSign(text), Unsigned(IF HasSign(text) THEN Tail(text) ELSE text))

\* What there is of it before the point, when it is not negative.
UnitsOf(v) == IF v = None THEN None ELSE IF v.num < 0 THEN None ELSE v.num \div Ten(v.scale)

Common(v, w) == IF v.scale > w.scale THEN v.scale ELSE w.scale
At(v, scale) == v.num * Ten(scale - v.scale)

\* Checked: None when it does not fit, and when dividing by zero.
Calculated(action, v, w) ==
    LET sc == Common(v, w)
        q == [num |-> (AbsOf(At(v, sc)) * Ten(MaxScale + 1)) \div AbsOf(At(w, sc)), scale |-> MaxScale + 1]
        r == CASE action = "add" -> [num |-> At(v, sc) + At(w, sc), scale |-> sc]
               [] action = "subtract" -> [num |-> At(v, sc) - At(w, sc), scale |-> sc]
               [] action = "multiply" -> [num |-> v.num * w.num, scale |-> v.scale + w.scale]
               [] action = "divide" ->
                    Normal(RoundedTo(IF (v.num < 0) # (w.num < 0) THEN [q EXCEPT !.num = -@] ELSE q, MaxScale))
    IN  IF action = "divide" /\ w.num = 0 THEN None
        ELSE IF AbsOf(r.num) > MaxValue THEN None ELSE r

\* The sign stays in front, the padding behind it.
PaddedInt(neg, digits, width) ==
    (IF neg THEN <<"-">> ELSE <<>>) \o Zeros(IF width > Len(digits) THEN width - Len(digits) ELSE 0) \o digits

\* With the separator the name had; the length is kept for whole numbers only.
ShownNumber(k, span, v, int, frac) ==
    PaddedInt(v.num < 0, int, IF k.keep /\ span.sep = None /\ v.scale = 0 THEN span.ints ELSE 0)
    \o (IF v.scale = 0 THEN <<>>
        ELSE <<IF span.sep = "," THEN "," ELSE ".">> \o Zeros(v.scale - Len(frac)) \o frac)
Divided(k, span, v) ==
    ShownNumber(k, span, v, DigitsOf(AbsOf(v.num) \div Ten(v.scale)), DigitsOf(AbsOf(v.num) % Ten(v.scale)))
Written(k, span, value) ==
    IF value = None THEN Failed
    ELSE Divided(k, span, IF k.rounding = None THEN Normal(value) ELSE RoundedTo(value, k.rounding))

InRange(k, v) ==
    \/ k.low = None /\ k.high = None
    \/ /\ v # None
       /\ k.low # None => v.num >= k.low * Ten(v.scale)
       /\ k.high # None => v.num <= k.high * Ten(v.scale)

\* Its digits made that wide, where its sign and its places stay.
Widened(span, text, width, signed) ==
    IF width = None THEN Failed ELSE IF width > MAX_PAD_WIDTH THEN Failed
    ELSE PaddedInt(span.neg, SubSeq(text, signed + 1, signed + span.ints), width)
         \o From(text, signed + span.ints + 1)

\* w is the operand's value, whole what there is of it before the point.
Recast(k, span, text, w, whole) ==
    CASE k.action = "replace" -> k.operand
      [] k.action = "remove" -> <<>>
      [] k.action = "before" -> k.operand \o text
      [] k.action = "after" -> text \o k.operand
      [] k.action = "pad" -> Widened(span, text, whole, IF span.neg THEN 1 ELSE 0)
      [] OTHER ->
            IF span.value = None \/ w = None \/ (k.action = "round" /\ whole = None) THEN Failed
            ELSE Written(k, span, IF k.action = "round" THEN RoundedTo(span.value, whole)
                                  ELSE Calculated(k.action, span.value, w))
Valued(k, span, text, w) == Recast(k, span, text, w, UnitsOf(w))
Rewrite(k, span, s, counter) ==
    IF k.action = "counter" THEN counter
    ELSE Valued(k, span, SpanText(s, span), Parsed(k.operand))

NeedsOperand(action) == action \notin {"counter", "remove"}

\* What stands for each number from then on; one that cannot be done spoils the name.
Renumbered1(k, s, spans, i, counter) ==
    IF Selects(k.target, i, Len(spans)) /\ InRange(k, spans[i].value)
    THEN Rewrite(k, spans[i], s, counter) ELSE SpanText(s, spans[i])
Joined(s, spans, texts) ==
    IF \E i \in DOMAIN texts : texts[i] = Failed THEN Failed ELSE Spliced(s, spans, texts)

RenumberedAt(k, s, counter, spans) ==
    IF spans = <<>> \/ (NeedsOperand(k.action) /\ k.operand = None) THEN s
    ELSE Joined(s, spans, [i \in DOMAIN spans |-> Renumbered1(k, s, spans, i, counter)])
ReNumbered(k, s, counter) ==
    The({RenumberedAt(k, s, counter, spans) : spans \in {NumbersIn(s, [points |-> k.points, minus |-> k.minus])}})

-----------------------------------------------------------------------------
(* The counter's digits; its values are those of module Counter.           *)

WidthFor(c, values) ==
    IF ~c.auto THEN c.pad
    ELSE IF values = <<>> THEN 1
    ELSE Last1({Len(DigitsOf(AbsOf(values[i]))) : i \in DOMAIN values})

CounterText(c, values, i) == PaddedInt(values[i] < 0, DigitsOf(AbsOf(values[i])), WidthFor(c, values))

\* Add Counter: [first, sep, replace, with].
CounterAdded(k, s, counter) ==
    LET base == IF k.replace THEN k.with ELSE s
    IN  IF base = None THEN s
        ELSE IF k.first THEN counter \o k.sep \o base ELSE base \o k.sep \o counter
=============================================================================
