------------------------------- MODULE Scripts -------------------------------
(* Scripts before they run (ren-core: script/engine.rs `compile`, store.rs):   *)
(* how deeply a source nests, and which gates it passes; the folder of scripts,*)
(* whose files anybody writes, and the compiled ones that every thread shares. *)
(* What a run makes of a script is in Pipeline; what its code computes is the  *)
(* Koto library's.                                                             *)
EXTENDS Integers, Sequences, FiniteSets

CONSTANTS Absent,
          Filler,       \* what is written in comments and in raw strings
          MaxText,      \* bound: characters of a source
          Stems, Cases, \* names, and the spellings of the extension; "koto" is the exact one
          Contents,      \* contents: [id, len, bytes, depth, parses, imports, refused]
          Shipped,      \* the seeded scripts: a function from stems to contents
          Loaders,      \* threads that load a script
          COMPILED_CAPACITY,
          MAX_SOURCE_BYTES, MAX_NESTING,
          Coarse,             \* a file can be written twice on one date
          MaxSaves, MaxLoads  \* bounds

\* The exact spelling is one of them.
ASSUME ScriptsAssumption == "koto" \in Cases

VARIABLES written, ctx, run, deep, operand,  \* a source as it is written; ghosts: what is open, how deep it got
          folder, clock, saves,           \* the files, and the clock their dates come from
          compiled, loading, loads        \* the cache; what each thread is at

sourceVars == <<written, ctx, run, deep, operand>>
folderVars == <<folder, clock, saves, compiled, loading, loads>>
scriptsVars == <<sourceVars, folderVars>>

-----------------------------------------------------------------------------
(* nesting_depth: brackets not yet closed, outside text, and a run of prefixes.*)

Opening == {"(", "[", "{"}
Closers == {")", "]", "}"}
Quotes  == {"'", "\""}
\* As a bug would have it: every `not` and every `r` is one, in the midst of a word or not.
NoWord(s, i) == FALSE

IsWord(s, i) == i \in DOMAIN s /\ s[i] \in {"n", "o", "t", "r", "x"}
IsAt(s, i, word) == i >= 1 /\ i + Len(word) - 1 <= Len(s) /\ SubSeq(s, i, i + Len(word) - 1) = word

\* The first place from i on where `word` is, or one past the end.
Next1(s, i, word) ==
    LET ats == {j \in i..Len(s) : IsAt(s, j, word)}
    IN  IF ats = {} THEN Len(s) + 1 ELSE CHOOSE j \in ats : \A k \in ats : j <= k
Hashes(s, i) == LET others == {j \in i..(Len(s) + 1) : j > Len(s) \/ s[j] # "#"}
                IN  (CHOOSE j \in others : \A k \in others : j <= k) - i
Code(entered) == [quote |-> "", entered |-> entered]
Quoted(quote) == [quote |-> quote, entered |-> 0]

\* st: [frames, open, run]; the result: the state after what starts at i, and where to go on.
InText(s, i, st) ==
    LET top == st.frames[Len(st.frames)]
    IN  CASE s[i] = "\\"      -> [st |-> st, at |-> i + 2]
          [] s[i] = "{"       -> [st |-> [st EXCEPT !.open = @ + 1, !.frames = Append(@, Code(st.open + 1))], at |-> i + 1]
          [] s[i] = top.quote -> [st |-> [st EXCEPT !.frames = SubSeq(@, 1, Len(@) - 1)], at |-> i + 1]
          [] OTHER            -> [st |-> st, at |-> i + 1]

Fresh(st) == [st EXCEPT !.run = 0]
Longer(st) == [st EXCEPT !.run = @ + 1]
\* An interpolation ends at the `}` that brings the count back to where it began.
EndsText(st) == Len(st.frames) > 1 /\ st.open = st.frames[Len(st.frames)].entered

InCode(s, i, st) ==
    LET hashes == Hashes(s, i + 1)
        quote  == i + 1 + hashes
        close  == Next1(s, quote + 1, <<s[quote]>> \o [h \in 1..hashes |-> "#"])
    IN  CASE s[i] = "#" /\ IsAt(s, i + 1, <<"-">>) -> [st |-> st, at |-> Next1(s, i + 1, <<"-", "#">>) + 2]
          [] s[i] = "#" /\ ~IsAt(s, i + 1, <<"-">>) -> [st |-> st, at |-> Next1(s, i + 1, <<"\n">>)]
          [] s[i] = "r" /\ ~IsWord(s, i - 1) /\ i < Len(s) /\ s[i + 1] \in Quotes \cup {"#"} ->
                [st |-> Fresh(st), at |-> IF quote > Len(s) THEN Len(s) + 1 ELSE close + 1 + hashes]
          [] s[i] \in Quotes  -> [st |-> [Fresh(st) EXCEPT !.frames = Append(@, Quoted(s[i]))], at |-> i + 1]
          [] s[i] \in Opening -> [st |-> [Fresh(st) EXCEPT !.open = @ + 1], at |-> i + 1]
          [] s[i] = "}" /\ EndsText(st) ->
                [st |-> [st EXCEPT !.open = @ - 1, !.frames = SubSeq(@, 1, Len(@) - 1)], at |-> i + 1]
          [] s[i] \in Closers /\ ~(s[i] = "}" /\ EndsText(st)) ->
                [st |-> [Fresh(st) EXCEPT !.open = IF @ = 0 THEN 0 ELSE @ - 1], at |-> i + 1]
          [] s[i] \in {"-", "!", "~"} -> [st |-> Longer(st), at |-> i + 1]
          [] s[i] = "|" ->
                LET bar == Next1(s, i + 1, <<"|">>)
                    eol == Next1(s, i + 1, <<"\n">>)
                IN  [st |-> Longer(st), at |-> (IF bar < eol THEN bar ELSE eol) + 1]
          [] IsAt(s, i, <<"n", "o", "t">>) /\ ~IsWord(s, i + 3) /\ ~IsWord(s, i - 1) -> [st |-> Longer(st), at |-> i + 3]
          [] s[i] = " " -> [st |-> st, at |-> i + 1]
          [] OTHER      -> [st |-> Fresh(st), at |-> i + 1]

Larger(a, b) == IF a > b THEN a ELSE b
\* Where reading stands after k lexemes, and the deepest so far.
NestingDepth(s) ==
    LET read[k \in 0..Len(s)] ==
            IF k = 0 THEN [st |-> [frames |-> <<Code(0)>>, open |-> 0, run |-> 0], at |-> 1, deepest |-> 0]
            ELSE LET was    == read[k - 1]
                     inText == was.st.frames[Len(was.st.frames)].quote # ""
                     next   == IF inText THEN InText(s, was.at, was.st) ELSE InCode(s, was.at, was.st)
                     depth  == IF inText THEN next.st.open ELSE next.st.open + next.st.run
                 IN  IF was.at > Len(s) THEN was
                     ELSE [st |-> next.st, at |-> next.at, deepest |-> Larger(was.deepest, depth)]
    IN  read[Len(s)].deepest

(* -- a source as its author writes it, lexeme by lexeme: Koto's grammar, as far as it nests -- *)

Top == IF ctx = <<>> THEN "" ELSE ctx[Len(ctx)]
Brackets(c) == Cardinality({i \in DOMAIN c : c[i] \notin Quotes})
Writes(lexeme, c, r, isOperand) ==
    /\ Len(written) + Len(lexeme) <= MaxText
    /\ written' = written \o lexeme /\ ctx' = c /\ run' = r /\ operand' = isOperand
    /\ deep' = Larger(deep, Brackets(c) + (IF c # <<>> /\ c[Len(c)] \in Quotes THEN 0 ELSE r))
Closer(b) == CASE b = "(" -> ")" [] b = "[" -> "]" [] OTHER -> "}"
Popped == SubSeq(ctx, 1, Len(ctx) - 1)
WriteCode ==
    /\ Top \notin Quotes
    /\ \/ \E b \in {"(", "{"} : ~operand /\ Writes(<<b>>, Append(ctx, b), 0, FALSE)
       \/ Top \in Opening /\ run = 0 /\ Writes(<<Closer(Top)>>, Popped, 0, TRUE)
       \/ Top = "in text" /\ run = 0 /\ Writes(<<"}">>, Popped, 0, FALSE)
       \/ ~operand /\ \E q \in Quotes : Writes(<<q>>, Append(ctx, q), 0, FALSE)
       \/ ~operand /\ \E p \in {<<"-">>, <<"n", "o", "t", " ">>, <<"|", "x", "|">>} : Writes(p, ctx, run + 1, FALSE)
       \/ ~operand /\ \E w \in {<<"x", " ">>, <<"n", "o", "t", "x", " ">>} : Writes(w, ctx, 0, TRUE)
       \/ run = 0 /\ Writes(<<"\n">>, ctx, 0, FALSE)
       \/ run = 0 /\ \E f \in {x \in Filler : x = <<>> \/ Head(x) # "-"} : Writes(<<"#">> \o f \o <<"\n">>, ctx, 0, FALSE)
       \/ \E f \in Filler : Writes(<<"#", "-">> \o f \o <<"-", "#">>, ctx, run, operand)
       \/ ~operand /\ \E f \in Filler, h \in {<<>>, <<"#">>} :
            (h = <<>> => \A i \in DOMAIN f : f[i] # "'") /\ Writes(<<"r">> \o h \o <<"'">> \o f \o <<"'">> \o h, ctx, 0, TRUE)
WriteText ==
    /\ Top \in Quotes
    /\ \/ \E c \in ({"(", "}", "#", "-", "r"} \cup Quotes) \ {Top} : Writes(<<c>>, ctx, 0, FALSE)
       \/ \E c \in {"{", Top} : Writes(<<"\\", c>>, ctx, 0, FALSE)
       \/ Writes(<<"{">>, Append(ctx, "in text"), 0, FALSE)
       \/ Writes(<<Top>>, Popped, 0, TRUE)

\* The depth a source is refused for is the depth it nests to (nesting_depth):
\* every bracket and interpolation still open and the run of prefixes there,
\* and nothing that stands in text, in a comment or in a raw string, however
\* they hold each other.
DepthIsCounted == NestingDepth(written) = deep

-----------------------------------------------------------------------------
(* compile: the gates in their order.                                          *)

Compile(source) ==
    CASE source.bytes > MAX_SOURCE_BYTES -> "too long"
      [] source.bytes <= MAX_SOURCE_BYTES /\ source.depth > MAX_NESTING -> "too deep"
      [] source.bytes <= MAX_SOURCE_BYTES /\ source.depth <= MAX_NESTING ->
            IF ~source.parses THEN "will not compile"
            ELSE IF source.imports THEN "import" ELSE IF source.refused THEN "refused" ELSE source.id

-----------------------------------------------------------------------------
(* The folder: a file is a stem and the spelling of its extension.             *)

Path(stem, case) == [stem |-> stem, case |-> case]
Paths == [stem : Stems, case : Cases]
Exists(p) == folder[p] # Absent
\* The exact name, else any with this stem; one that is not there is the exact name.
PathOf(stem) ==
    LET spelled == {p \in Paths : p.stem = stem /\ Exists(p)}
    IN  IF Exists(Path(stem, "koto")) \/ spelled = {} THEN {Path(stem, "koto")} ELSE spelled
Stamp(p) == IF Exists(p) THEN [len |-> folder[p].source.len, modified |-> folder[p].modified] ELSE [len |-> 0, modified |-> 0]

\* An editor, or anybody.
Now == {clock + 1} \cup IF Coarse THEN {clock} ELSE {}
File(source) == [source |-> source, modified |-> clock', readable |-> TRUE]
Save(p, source) ==
    /\ saves < MaxSaves /\ saves' = saves + 1
    /\ clock' \in Now
    /\ folder' = [folder EXCEPT ![p] = File(source)]
    /\ UNCHANGED <<compiled, loading, loads>>
\* Locked by another program, and let go of: neither moves the date.
Lock(p) ==
    /\ saves < MaxSaves /\ saves' = saves + 1
    /\ Exists(p) /\ folder' = [folder EXCEPT ![p].readable = ~@]
    /\ UNCHANGED <<clock, compiled, loading, loads>>
Delete(p) ==
    /\ saves < MaxSaves /\ saves' = saves + 1
    /\ Exists(p) /\ folder' = [folder EXCEPT ![p] = Absent]
    /\ UNCHANGED <<clock, compiled, loading, loads>>

\* seed_defaults: at every start, only what no spelling of the name holds.
Seeds(p) == p.stem \in DOMAIN Shipped /\ p.case = "koto" /\ \A q \in PathOf(p.stem) : ~Exists(q)
SeedDefaults ==
    /\ saves < MaxSaves /\ saves' = saves + 1
    /\ clock' \in Now
    /\ folder' = [p \in Paths |-> IF Seeds(p) THEN File(Shipped[p.stem]) ELSE folder[p]]
    /\ UNCHANGED <<compiled, loading, loads>>

(* -- load: the stamp, the cache, the file, the cache again -- *)

Resting == [step |-> "idle", path |-> Absent, key |-> Absent, answer |-> Absent, since |-> 0]
CacheKey(p) == <<p, Stamp(p).len, Stamp(p).modified>>
StartLoad(t, stem) ==
    /\ loading[t].step = "idle" /\ loads < MaxLoads /\ loads' = loads + 1
    /\ \E p \in PathOf(stem) :
         LET key == CacheKey(p)
         IN  loading' = [loading EXCEPT ![t] =
                IF key \in DOMAIN compiled
                THEN [step |-> "told", path |-> p, key |-> key, answer |-> compiled[key], since |-> saves]
                ELSE [step |-> "read", path |-> p, key |-> key, answer |-> Absent, since |-> saves]]
    /\ UNCHANGED <<folder, clock, saves, compiled>>
\* One that cannot be read is named, and not kept.
Unread1(t) == [step |-> "told", path |-> loading[t].path, key |-> loading[t].key, answer |-> "no script named", since |-> loading[t].since]

\* As a bug would have it: that is kept, too.
ReadAndKept(t) ==
    /\ loading[t].step = "read"
    /\ LET p == loading[t].path
       IN  loading' = [loading EXCEPT ![t] =
             IF Exists(p) /\ folder[p].readable
             THEN [@ EXCEPT !.step = "keep", !.answer = Compile(folder[p].source)]
             ELSE [Unread1(t) EXCEPT !.step = "keep"]]
    /\ UNCHANGED <<folder, clock, saves, compiled, loads>>

ReadSource(t) ==
    /\ loading[t].step = "read"
    /\ LET p == loading[t].path
       IN  loading' = [loading EXCEPT ![t] =
             IF Exists(p) /\ folder[p].readable
             THEN [@ EXCEPT !.step = "keep", !.answer = Compile(folder[p].source)]
             ELSE Unread1(t)]
    /\ UNCHANGED <<folder, clock, saves, compiled, loads>>
Keep(t) ==
    /\ loading[t].step = "keep"
    /\ LET kept == IF Cardinality(DOMAIN compiled) >= COMPILED_CAPACITY THEN <<>> ELSE compiled
       IN  compiled' = [key \in DOMAIN kept \cup {loading[t].key} |->
                            IF key = loading[t].key THEN loading[t].answer ELSE kept[key]]
    /\ loading' = [loading EXCEPT ![t].step = "told"]
    /\ UNCHANGED <<folder, clock, saves, loads>>
\* The answer goes to the card.
Told(t) ==
    /\ loading[t].step = "told" /\ loading' = [loading EXCEPT ![t] = Resting]
    /\ UNCHANGED <<folder, clock, saves, compiled, loads>>

\* A script that can be read and was not touched while it was being loaded is
\* loaded as it stands, whatever other threads have kept of what it held before,
\* or while another program held it (load).  Where two contents can have one
\* length and one date, Coarse, it does not hold.
LoadIsTheFile ==
    \A t \in Loaders :
        LET l == loading[t] IN
        l.step = "told" /\ l.since = saves /\ Exists(l.path) /\ folder[l.path].readable =>
            l.answer = Compile(folder[l.path].source)

ScriptsInit ==
    /\ written = <<>> /\ ctx = <<>> /\ run = 0 /\ deep = 0 /\ operand = FALSE
    /\ folder = [p \in Paths |-> Absent] /\ clock = 1 /\ saves = 0
    /\ compiled = <<>> /\ loading = [t \in Loaders |-> Resting] /\ loads = 0
SourceNext == WriteCode \/ WriteText
FolderNext ==
    \/ \E p \in Paths, source \in Contents : Save(p, source)
    \/ \E p \in Paths : Lock(p) \/ Delete(p)
    \/ SeedDefaults
    \/ \E t \in Loaders, stem \in Stems : StartLoad(t, stem)
    \/ \E t \in Loaders : ReadSource(t) \/ Keep(t) \/ Told(t)

ScriptsNext == (SourceNext /\ UNCHANGED folderVars) \/ (FolderNext /\ UNCHANGED sourceVars)
ScriptsSpec == ScriptsInit /\ [][ScriptsNext]_scriptsVars
-----------------------------------------------------------------------------
\* Dates never come twice; what is kept of a stamp is what the file that bears it holds; and what
\* a load goes on with was so when it began, or is of a stamp that is gone.
DatesArePast ==
    /\ clock \in Nat
    /\ \A p \in Paths : Exists(p) =>
        DOMAIN folder[p] = {"source", "modified", "readable"} /\ folder[p].modified \in 1..clock
KeptIsTheFile ==
    /\ \A key \in DOMAIN compiled : key[3] \in 0..clock
    /\ \A p \in Paths : Exists(p) /\ CacheKey(p) \in DOMAIN compiled =>
            compiled[CacheKey(p)] = Compile(folder[p].source)
LoadStands(l) ==
    /\ DOMAIN l = {"step", "path", "key", "answer", "since"} /\ l.since \in 0..saves
    /\ l.step # "idle" => l.path \in Paths
    /\ l.step \in {"read", "keep"} => l.key[1] = l.path /\ l.key[3] \in 0..clock
    /\ l.step = "keep" /\ Exists(l.path) /\ l.key = CacheKey(l.path) => l.answer = Compile(folder[l.path].source)
    /\ l.step \in {"keep", "told"} /\ l.since = saves /\ Exists(l.path) /\ folder[l.path].readable =>
            l.answer = Compile(folder[l.path].source)
ScriptsInv ==
    /\ DOMAIN folder = Paths /\ DOMAIN loading = Loaders /\ saves \in Nat
    /\ DatesArePast /\ KeptIsTheFile
    /\ \A t \in Loaders : LoadStands(loading[t])
=============================================================================
