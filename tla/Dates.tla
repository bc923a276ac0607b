---------------------------------- MODULE Dates ----------------------------------
(***************************************************************************)
(* Set Date & Time and the date formats (ren-core: datetime.rs,            *)
(* ops/set_date.rs, template/dates.rs).  A wall clock is [y, mo, d, h, mi, *)
(* s]; an instant is a day since 1970 and a second of it.  The zone moves  *)
(* its clocks on and back once, at the instants Spring and Autumn.         *)
(***************************************************************************)
EXTENDS Integers, Sequences

CONSTANTS NoDate,        \* no date, or none that can be had
          Spring, Autumn \* [day, sec]: when the clocks move on and back

YEAR_MIN == 1980
YEAR_MAX == 2099
Winter == 3600
Summer == 7200
DaySecs == 86400

Components == {"y", "mo", "d", "h", "mi", "s"}
Units == {"years", "months", "days", "hours", "minutes", "seconds"}

-----------------------------------------------------------------------------
(* The calendar.                                                           *)

IsLeap(y) == (y % 4 = 0 /\ y % 100 # 0) \/ y % 400 = 0
DaysInMonth(y, mo) == IF mo = 2 THEN IF IsLeap(y) THEN 29 ELSE 28
                      ELSE IF mo \in {4, 6, 9, 11} THEN 30 ELSE 31
IsClock(c) == /\ c.mo \in 1..12 /\ c.d \in 1..DaysInMonth(c.y, c.mo)
              /\ c.h \in 0..23 /\ c.mi \in 0..59 /\ c.s \in 0..59

\* Years are counted from March, so that the leap day is the last of one.
DayOf(y, mo, d) ==
    LET a == IF mo <= 2 THEN y - 1 ELSE y
        m == IF mo <= 2 THEN mo + 9 ELSE mo - 3
    IN  365 * a + a \div 4 - a \div 100 + a \div 400 + (153 * m + 2) \div 5 + d - 719469
DateOf(n) ==
    LET z == n + 719468
        era == z \div 146097
        doe == z % 146097
        yoe == (doe - doe \div 1460 + doe \div 36524 - doe \div 146096) \div 365
        doy == doe - (365 * yoe + yoe \div 4 - yoe \div 100)
        m == (5 * doy + 2) \div 153
        mo == IF m < 10 THEN m + 3 ELSE m - 9
    IN  [y |-> yoe + 400 * era + (IF mo <= 2 THEN 1 ELSE 0), mo |-> mo, d |-> doy - (153 * m + 2) \div 5 + 1]

Weekday(c) == (DayOf(c.y, c.mo, c.d) + 4) % 7
Ordinal0(c) == DayOf(c.y, c.mo, c.d) - DayOf(c.y, 1, 1)

\* A clock and the seconds since day 0, both without a zone.
Flat(c) == [day |-> DayOf(c.y, c.mo, c.d), sec |-> 3600 * c.h + 60 * c.mi + c.s]
Clock(t) ==
    LET date == DateOf(t.day)
    IN  [y |-> date.y, mo |-> date.mo, d |-> date.d,
         h |-> t.sec \div 3600, mi |-> (t.sec \div 60) % 60, s |-> t.sec % 60]
Plus(t, secs) ==
    LET all == t.sec + secs
    IN  [day |-> t.day + all \div DaySecs, sec |-> all % DaySecs]
NotAfter(t, u) == t.day < u.day \/ (t.day = u.day /\ t.sec <= u.sec)

-----------------------------------------------------------------------------
(* The zone.  An hour in spring is skipped, one in autumn comes twice.     *)

OffsetAt(t) == IF NotAfter(Spring, t) /\ ~NotAfter(Autumn, t) THEN Summer ELSE Winter
ToLocal(t) == Clock(Plus(t, OffsetAt(t)))

\* The earlier of two instants; NoDate when there is none.
Localise(c) ==
    LET at == {Plus(Flat(c), -off) : off \in {off \in {Winter, Summer} : OffsetAt(Plus(Flat(c), -off)) = off}}
    IN  IF at = {} THEN NoDate ELSE CHOOSE t \in at : \A u \in at : NotAfter(t, u)

-----------------------------------------------------------------------------
(* Parts of a date, and intervals.                                         *)

\* As a bug would have it: the day is taken as it is.
MergedAsIs(previous, candidate, mask) ==
    [x \in Components |-> IF x \in mask THEN candidate[x] ELSE previous[x]]

\* The day gives way to the length of the month it ends up in.
Merged(previous, candidate, mask) ==
    LET take == [x \in Components |-> IF x \in mask THEN candidate[x] ELSE previous[x]]
        last == DaysInMonth(take.y, take.mo)
    IN  [take EXCEPT !.d = IF @ > last THEN last ELSE @]

Shifted(c, amount, unit) ==
    LET months == 12 * c.y + c.mo - 1 + (IF unit = "years" THEN 12 * amount ELSE amount)
        y == months \div 12
        mo == (months % 12) + 1
        last == DaysInMonth(y, mo)
    IN  CASE unit \in {"years", "months"} ->
                [c EXCEPT !.y = y, !.mo = mo, !.d = IF @ > last THEN last ELSE @]
          [] unit = "days" -> Clock([Flat(c) EXCEPT !.day = @ + amount])
          [] OTHER -> Clock(Plus(Flat(c), amount * (IF unit = "hours" THEN 3600
                                                     ELSE IF unit = "minutes" THEN 60 ELSE 1)))

InReach(c) == c.y \in YEAR_MIN..YEAR_MAX
\* Two digits are a year of this century, or of the last from 80 on.
WidenYear(digits, value) == IF digits > 2 THEN value ELSE IF value >= 80 THEN 1900 + value ELSE 2000 + value

-----------------------------------------------------------------------------
(* Set Date & Time: [source, date, interval, unit, change, targets, peek]. *)
(* file is [times, exif, folder, dir]: a time is an instant or NoDate;     *)
(* parts are the date the name gives, as a clock that may be no date.      *)

Problem == "problem"
Fixed(c) == [how |-> "fixed", date |-> c]
Local(t) == IF t = NoDate THEN NoDate ELSE ToLocal(t)

Resolved(k, file, now, parts) ==
    LET from == CASE k.source = "exif" -> IF file.dir /\ ~k.peek THEN file.exif ELSE file.peeked
                  [] k.source \in {"created", "accessed", "modified"} -> Local(file.times[k.source])
                  [] k.source = "now" -> Local(now)
                  [] k.source = "name" -> IF parts # NoDate /\ IsClock(parts) THEN parts ELSE NoDate
                  [] OTHER -> NoDate
    IN  CASE k.source = "enter" -> IF IsClock(k.date) THEN Fixed(k.date) ELSE [how |-> Problem]
          [] k.source = "add" -> [how |-> "shift", amount |-> k.interval]
          [] k.source = "subtract" -> [how |-> "shift", amount |-> -k.interval]
          [] OTHER -> IF from = NoDate THEN [how |-> "unavailable"] ELSE Fixed(from)

\* One of the file's dates: an instant, NoDate to leave it, or a problem.
StampFor(k, resolved, was) ==
    LET previous == Local(was)
        candidate == IF resolved.how = "fixed" THEN resolved.date
                     ELSE Shifted(previous, resolved.amount, k.unit)
        whole == k.change = Components
        merged == IF whole THEN candidate ELSE Merged(previous, candidate, k.change)
        at == Localise(merged)
    IN  CASE resolved.how = "unavailable" -> [ok |-> TRUE, at |-> NoDate]
          [] resolved.how # "unavailable" /\ previous = NoDate /\ (resolved.how = "shift" \/ ~whole) ->
                [ok |-> FALSE, at |-> NoDate]
          [] OTHER -> IF ~IsClock(merged) \/ ~InReach(merged) \/ at = NoDate
                      THEN [ok |-> FALSE, at |-> NoDate] ELSE [ok |-> TRUE, at |-> at]

\* What is asked of the file: a stamp for each target, Problem for the row.
DateEffect(k, file, now, parts) ==
    LET resolved == Resolved(k, file, now, parts)
        stamps == [w \in k.targets |-> StampFor(k, resolved, file.times[w])]
    IN  IF k.targets = {} \/ k.change = {} THEN NoDate
        ELSE IF resolved.how = Problem THEN [set |-> Problem]
        ELSE IF \E w \in k.targets : ~stamps[w].ok THEN [set |-> Problem]
        ELSE [set |-> [w \in {v \in k.targets : stamps[v].at # NoDate} |-> stamps[w].at]]

-----------------------------------------------------------------------------
(* Date formats.  A token is a letter and how often it stands; anything    *)
(* else is a literal.  An "m" after an hour is a minute, whatever literal  *)
(* stands between.                                                         *)

Longest == [d |-> {1, 2, 3, 4, 5, 6}, w |-> {1, 2}, m |-> {1, 2, 3, 4}, q |-> {1}, y |-> {1, 2, 4},
            h |-> {1, 2}, s |-> {1, 2}, t |-> {5}, c |-> {1}]
FoldOf(c) == CASE c = "D" -> "d" [] c = "M" -> "m" [] c = "Y" -> "y" [] c = "H" -> "h" [] c = "S" -> "s"
               [] c = "W" -> "w" [] c = "Q" -> "q" [] c = "T" -> "t" [] c = "C" -> "c" [] OTHER -> c
Repeats(spec, i) ==
    LET ends == {j \in i..Len(spec) : FoldOf(spec[j]) # FoldOf(spec[i])}
    IN  IF ends = {} THEN Len(spec) - i + 1 ELSE (CHOOSE j \in ends : \A k \in ends : j <= k) - i

NextToken(spec, i, hour) ==
    LET c == FoldOf(spec[i])
        fits == IF c \in DOMAIN Longest THEN {n \in Longest[c] : n <= Repeats(spec, i)} ELSE {}
        n == CHOOSE x \in fits : \A y \in fits : y <= x
        two == i < Len(spec) /\ spec[i + 1] = "n"
        escaped == spec[i] = "\\" /\ i < Len(spec)
        plain(x) == CASE x = ":" -> "." [] x \in {"/", "\\"} -> "-" [] OTHER -> x
    IN  CASE escaped -> [c |-> plain(spec[i + 1]), n |-> 0, len |-> 2]
          [] spec[i] = "AM/PM" -> [c |-> "ampm", n |-> 1, len |-> 1]
          [] spec[i] = "N" -> [c |-> "n", n |-> IF two THEN 2 ELSE 1, len |-> IF two THEN 2 ELSE 1]
          [] ~escaped /\ fits # {} ->
                [c |-> IF c = "m" /\ hour /\ n <= 2 THEN "n" ELSE c, n |-> n, len |-> n]
          [] OTHER -> [c |-> IF spec[i] = "\\" THEN "\\" ELSE plain(spec[i]), n |-> 0, len |-> 1]

HourStill(token, hour) == token.c = "h" \/ (token.n = 0 /\ hour)

Compiled(spec) ==
    LET from[i \in 1..(Len(spec) + 1), hour \in BOOLEAN] ==
            IF i > Len(spec) THEN <<>>
            ELSE LET token == NextToken(spec, i, hour)
                 IN  <<token>> \o from[i + token.len, HourStill(token, hour)]
    IN  from[1, FALSE]

\* What a token comes to: pieces of a letter, a number and its width.
Piece1(c, n, width) == <<[is |-> c, number |-> n, width |-> width]>>
Text1(c) == Piece1(c, 0, 0)
DayText(c) == Piece1("n", c.y, 4) \o Text1("-") \o Piece1("n", c.mo, 2) \o Text1("-") \o Piece1("n", c.d, 2)
TimeText(c) == Piece1("n", c.h, 2) \o Text1(".") \o Piece1("n", c.mi, 2) \o Text1(".") \o Piece1("n", c.s, 2)

RenderToken(token, c, twelve) ==
    LET hour == IF ~twelve THEN c.h ELSE IF c.h % 12 = 0 THEN 12 ELSE c.h % 12
        jan1 == (Weekday(c) - Ordinal0(c)) % 7
        n == token.n
    IN  CASE n = 0 -> Text1(token.c)
          [] token.c = "d" /\ n <= 2 -> Piece1("n", c.d, n)
          [] token.c = "d" /\ n \in {3, 4} -> Piece1("weekday", Weekday(c), n)
          [] token.c = "d" /\ n = 5 -> DayText(c)
          [] token.c = "d" /\ n = 6 -> Piece1("weekday", Weekday(c), 4) \o Text1(" ") \o Piece1("n", c.d, 1)
                \o Text1(" ") \o Piece1("month", c.mo, 4) \o Text1(" ") \o Piece1("n", c.y, 4)
          [] token.c = "w" /\ n = 1 -> Piece1("n", Weekday(c) + 1, 1)
          [] token.c = "w" /\ n = 2 -> Piece1("n", (Ordinal0(c) + jan1) \div 7 + 1, 1)
          [] token.c = "m" /\ n <= 2 -> Piece1("n", c.mo, n)
          [] token.c = "m" /\ n > 2 -> Piece1("month", c.mo, n)
          [] token.c = "q" -> Piece1("n", (c.mo - 1) \div 3 + 1, 1)
          [] token.c = "y" -> Piece1("n", IF n = 1 THEN Ordinal0(c) + 1 ELSE IF n = 2 THEN c.y % 100 ELSE c.y, n)
          [] token.c = "h" -> Piece1("n", hour, n)
          [] token.c = "n" -> Piece1("n", c.mi, n)
          [] token.c = "s" -> Piece1("n", c.s, n)
          [] token.c = "t" -> TimeText(c)
          [] token.c = "c" -> DayText(c) \o Text1(" ") \o TimeText(c)
          [] token.c = "ampm" -> Piece1("half", IF c.h >= 12 THEN 1 ELSE 0, 2)

RenderedBy(tokens, c, twelve) ==
    LET from[i \in 1..(Len(tokens) + 1)] ==
            IF i > Len(tokens) THEN <<>> ELSE RenderToken(tokens[i], c, twelve) \o from[i + 1]
    IN  from[1]
Laying(tokens, c) == RenderedBy(tokens, c, \E i \in DOMAIN tokens : tokens[i].c = "ampm")
Rendered(spec, c) == Laying(Compiled(spec), c)
=============================================================================
