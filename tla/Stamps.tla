------------------------------- MODULE Stamps -------------------------------
(* A file's attributes and dates, set by a run and put back by an undo         *)
(* (effect.rs, ops/set_attributes.rs, exec/undo.rs `revert`), as each platform *)
(* sets them (unix.rs, windows.rs), and the naming rules of a volume as the    *)
(* mount table gives them (unix.rs `mounts`).  A time counts the smallest step *)
(* of the host's clock from 1970.                                              *)
EXTENDS Integers, Sequences, FiniteSets

CONSTANTS Unset,       \* a component that is not asked for, or that no filesystem reports
          Platforms,   \* a subset of {"Linux", "Windows"}
          Found,       \* the files there may be
          Effects,     \* what Set Attributes and Set Date may ask for
          Meddlings,   \* what another program may set, the same way
          SECOND,      \* clock steps in a second
          TICK,        \* clock steps in an interval of a FILETIME
          FIRST,       \* the first time a FILETIME can name
          TOLERANCE,   \* clock steps two dates may differ by and agree
          MountPoints, \* where a volume may be mounted: sequences of components
          Places,      \* the paths names are asked about
          MaxActs, MaxMeddled, MaxMounts  \* bounds

VARIABLES platform, stat,  \* [link, write, hidden, system, archive, created, accessed, modified]
          past,            \* what the journal holds: [change, before], and the whole image, a ghost
          refused,         \* the last undo left the file alone and said so
          acts, meddled,
          mounts, table, seen  \* the volumes there are, what is kept of them, and (ghost) those read

stampVars == <<platform, stat, past, refused, acts, meddled>>
mountVars == <<mounts, table, seen>>
stampsVars == <<stampVars, mountVars>>

Bits  == {"read_only", "hidden", "system", "archive"}
DateParts == {"created", "accessed", "modified"}

\* What stands in a file's inode, and what a change may ask: bits or dates, never both.
Owners == {"owner", "group", "other"}
Stat == [link : BOOLEAN, write : SUBSET Owners, hidden : BOOLEAN, system : BOOLEAN, archive : BOOLEAN,
         created : Int \cup {Unset}, accessed : Int \cup {Unset}, modified : Int \cup {Unset}]
Readings == [Bits -> BOOLEAN] \cup [DateParts -> [secs : Int, nanos : Int] \cup {Unset}]
IsChange(change) ==
    \/ DOMAIN change \subseteq Bits /\ \A c \in DOMAIN change : change[c] \in BOOLEAN
    \/ DOMAIN change \subseteq DateParts /\ \A c \in DOMAIN change : change[c] \in Int

\* What paths are made of.
PathNames == UNION {{path[i] : i \in DOMAIN path} : path \in MountPoints \cup Places}

\* Whoever may write a file at all, its owner may; the dates that are asked for lie in the
\* years core/datetime.rs reads, long after the first FILETIME.
ASSUME StampsAssumption ==
    /\ Platforms \subseteq {"Linux", "Windows"}
    /\ SECOND \in Nat \ {0} /\ TICK \in Nat \ {0} /\ TOLERANCE \in Nat /\ TICK <= TOLERANCE + 1
    /\ FIRST \in Int /\ FIRST <= 0 /\ (-FIRST) % TICK = 0
    /\ Unset \notin Int \cup BOOLEAN /\ Unset \notin [secs : Int, nanos : Int]
    /\ Found \subseteq Stat /\ \A s \in Found : s.write = {} \/ "owner" \in s.write
    /\ \A change \in Effects \cup Meddlings : IsChange(change)
    /\ \A change \in Effects : \A c \in DOMAIN change \cap DateParts : change[c] >= FIRST
    /\ MountPoints \cup Places \subseteq Seq(PathNames)

IsNamed(change, c) == c \in DOMAIN change
IsTimes(change) == DOMAIN change \cap DateParts # {}

(* -- what a platform can set, and what a change asks of it -- *)

Capabilities(p) ==
    IF p = "Windows" THEN Bits \cup DateParts \cup {"link read-only"} ELSE {"accessed", "modified", "read_only"}
GetAttributes(s) == [read_only |-> s.write = {}, hidden |-> s.hidden, system |-> s.system, archive |-> s.archive]
GetTimes(s) == [c \in DateParts |-> s[c]]
ApplyTo(change, base) == [c \in DOMAIN base |-> IF IsNamed(change, c) THEN change[c] ELSE base[c]]

\* required_capabilities: what the planner asks for; ..._from: only the bits that change.
Required(change) == DOMAIN change
RequiredFrom(change, base) == {c \in DOMAIN change : change[c] # base[c]}

\* The planner's conflicts on a row: what the platform cannot do, and read-only on a link.
Conflict(change) ==
    \/ ~(Required(change) \subseteq Capabilities(platform))
    \/ stat.link /\ "link read-only" \notin Capabilities(platform)
       /\ IsNamed(change, "read_only") /\ change["read_only"]

(* -- TimeStamp: seconds rounded down and what is left, on both sides of 1970 -- *)

TowardsZero(t) ==
    IF t >= 0 THEN [secs |-> t \div SECOND, nanos |-> t % SECOND]
    ELSE [secs |-> -((-t) \div SECOND), nanos |-> (-t) % SECOND]
FromSystem(t) ==
    IF t >= 0 THEN [secs |-> t \div SECOND, nanos |-> t % SECOND]
    ELSE LET d == -t IN
         IF d % SECOND = 0 THEN [secs |-> -(d \div SECOND), nanos |-> 0]
         ELSE [secs |-> -(d \div SECOND) - 1, nanos |-> SECOND - (d % SECOND)]
ToSystem(s) == s.secs * SECOND + s.nanos

\* to_filetime: whole intervals, nearer to 1970, and nothing before the first.
ToFiletime(t) ==
    LET n == IF t >= 0 THEN (t \div TICK) * TICK ELSE -(((-t) \div TICK) * TICK)
    IN  IF n < FIRST THEN FIRST ELSE n

\* What a platform may find: on Windows one bit for writing, and dates in whole intervals.
CanHold(p, s) ==
    p = "Windows" => s.write \subseteq {"owner"} /\ \A c \in DateParts : s[c] # Unset => ToFiletime(s[c]) = s[c]

(* -- setting -- *)

\* Linux: write bits off for all, on for the owner alone; Windows: the managed bits, the rest kept.
SetAttributes(s, change) ==
    IF platform = "Linux"
    THEN [s EXCEPT !.write = IF ~IsNamed(change, "read_only") THEN @
                             ELSE IF change["read_only"] THEN {} ELSE @ \cup {"owner"}]
    ELSE LET next == ApplyTo(change, GetAttributes(s))
         IN  [s EXCEPT !.write = IF next.read_only THEN {} ELSE {"owner"},
                       !.hidden = next.hidden, !.system = next.system, !.archive = next.archive]
SetTimes(s, change) ==
    [c \in DOMAIN s |->
        IF c \in DOMAIN change THEN (IF platform = "Windows" THEN ToFiletime(change[c]) ELSE change[c]) ELSE s[c]]

\* What the platform itself refuses: a link's read-only bit is its target's.
Refuses(change) ==
    IF IsTimes(change) THEN ~(Required(change) \subseteq Capabilities(platform))
    ELSE platform = "Linux" /\
         \/ ~(RequiredFrom(change, GetAttributes(stat)) \subseteq Capabilities(platform))
         \/ stat.link /\ SetAttributes(stat, change) # stat
WriteEffect(change) == IF IsTimes(change) THEN SetTimes(stat, change) ELSE SetAttributes(stat, change)

(* -- a run's act, and its undo -- *)

ReadBefore(change, s) ==
    IF IsTimes(change) THEN [c \in DateParts |-> IF s[c] = Unset THEN Unset ELSE FromSystem(s[c])]
    ELSE GetAttributes(s)

Act(change) ==
    /\ acts < MaxActs /\ ~Conflict(change) /\ ~Refuses(change)
    /\ past' = Append(past, [change |-> change, before |-> ReadBefore(change, stat), image |-> stat])
    /\ stat' = WriteEffect(change)
    /\ acts' = acts + 1 /\ refused' = FALSE
    /\ UNCHANGED <<platform, meddled>>

\* Before::restoring: only what was changed, and of that only what was there to read.
AllOfIt(before, change) ==
    [c \in {x \in DOMAIN before : before[x] # Unset} |->
        IF IsTimes(change) THEN ToSystem(before[c]) ELSE before[c]]
Restoring(before, change) ==
    [c \in {x \in DOMAIN change : before[x] # Unset} |->
        IF IsTimes(change) THEN ToSystem(before[c]) ELSE before[c]]

\* Two components are put back and never compared: a read moves `accessed`, any write `archive`.
Agree(a, b) == (IF a < b THEN b - a ELSE a - b) <= TOLERANCE
StillOurs(change) ==
    \A c \in DOMAIN change \ {"accessed", "archive"} :
        IF IsTimes(change) THEN Agree(change[c], stat[c]) ELSE change[c] = GetAttributes(stat)[c]

Revert ==
    /\ past # <<>>
    /\ LET act  == past[Len(past)]
           back == Restoring(act.before, act.change)
       IN  IF ~StillOurs(act.change) \/ Refuses(back)
           THEN refused' = TRUE /\ UNCHANGED stat
           ELSE refused' = FALSE /\ stat' = IF back = <<>> THEN stat ELSE WriteEffect(back)
    /\ past' = SubSeq(past, 1, Len(past) - 1)
    /\ UNCHANGED <<platform, acts, meddled>>

\* Another program, which no journal records.
Meddle(change) ==
    /\ meddled < MaxMeddled /\ ~Refuses(change)
    /\ stat' = WriteEffect(change)
    /\ meddled' = meddled + 1
    /\ UNCHANGED <<platform, past, refused, acts>>

(* -- mounts: the table of the volumes with naming rules of their own -- *)

LiesUnder(path, at) == Len(at) <= Len(path) /\ SubSeq(path, 1, Len(at)) = at
OnlyDos(m, all) == m.dos
IsKept(m, all) == m.dos \/ \E o \in all : o.dos /\ o.at # m.at /\ LiesUnder(m.at, o.at)
Parse(all) == {m \in all : IsKept(m, all)}
LongestMatch(t, path) ==
    LET over == {m \in t : LiesUnder(path, m.at)}
    IN  IF over = {} THEN "posix"
        ELSE IF (CHOOSE m \in over : \A o \in over : Len(o.at) <= Len(m.at)).dos THEN "windows" ELSE "posix"
RulesFor(path) == LongestMatch(table, path)

\* A volume over nothing that is mounted already, at the same place or below.
Mount(m) ==
    /\ Cardinality(mounts) < MaxMounts
    /\ \A o \in mounts : ~LiesUnder(o.at, m.at)
    /\ mounts' = mounts \cup {m} /\ UNCHANGED <<table, seen>>
Unmount(m) == m \in mounts /\ mounts' = mounts \ {m} /\ UNCHANGED <<table, seen>>
\* The watching thread, every FRESH_FOR.
Reread == table' = Parse(mounts) /\ seen' = mounts /\ UNCHANGED mounts

StampsInit ==
    /\ platform \in Platforms /\ stat \in {s \in Found : CanHold(platform, s)} /\ past = <<>> /\ refused = FALSE /\ acts = 0 /\ meddled = 0
    /\ mounts = {} /\ table = {} /\ seen = {}
StampsNext ==
    \/ /\ UNCHANGED mountVars
       /\ \/ \E change \in Effects : Act(change)
          \/ Revert
          \/ \E change \in Meddlings : Meddle(change)
    \/ /\ UNCHANGED stampVars
       /\ \/ \E at \in MountPoints, dos \in BOOLEAN : Mount([at |-> at, dos |-> dos])
          \/ \E m \in mounts : Unmount(m)
          \/ Reread
StampsSpec == StampsInit /\ [][StampsNext]_stampsVars

(* An undo writes back what its change replaced and nothing else (effect.rs:264-303): a      *)
(* component the change did not name stays as another program has left it since, one it     *)
(* named is as it was, to the last step of the clock and on both sides of 1970, and nobody  *)
(* may write the file who could not before (unix.rs, "the narrowing direction").  Where it  *)
(* leaves the file alone, something other than a read or a backup has been at what it wrote *)
(* (undo.rs:455-465).                                                                       *)
Undone(act) ==
    /\ \A c \in DOMAIN stat \ (DOMAIN act.change \cup {"write"}) : stat'[c] = stat[c]
    /\ \A c \in DOMAIN act.change \ {"read_only"} : act.image[c] # Unset => stat'[c] = act.image[c]
    /\ IF IsNamed(act.change, "read_only")
       THEN stat'.write \subseteq act.image.write /\ (stat'.write = {} <=> act.image.write = {})
       ELSE stat'.write = stat.write
KeepsToItsOwn ==
    past # <<>> /\ Len(past') < Len(past) =>
        LET act == past[Len(past)] IN
        IF refused' THEN \E c \in DOMAIN act.change \ {"accessed", "archive"} :
                            c = "read_only" \/ stat[c] # WriteEffect(act.change)[c]
        ELSE Undone(act)
UndoKeepsToItsOwn == [][KeepsToItsOwn]_stampsVars

(* What the last reading of the mount table kept answers as the volumes themselves: a name   *)
(* is judged by the rules of the deepest volume it lies in, though only the volumes with DOS *)
(* rules and what is mounted inside one are kept (unix.rs:154-162).                          *)
RulesAreOfTheVolume == \A path \in Places : RulesFor(path) = LongestMatch(seen, path)

\* What a run did can be taken back: it was within the platform's reach, its journal tells
\* what was there, and since then at most the owner was given leave to write.
CanBeUndone(p, s, act) ==
    /\ DOMAIN act.change \subseteq Capabilities(p)
    /\ CanHold(p, act.image) /\ (act.image.write = {} \/ "owner" \in act.image.write)
    /\ act.before = ReadBefore(act.change, act.image)
    /\ s.write \subseteq act.image.write \cup {"owner"}
StampsInv ==
    /\ platform \in {"Linux", "Windows"}
    /\ stat \in Stat /\ CanHold(platform, stat) /\ (stat.write = {} \/ "owner" \in stat.write)
    /\ past \in Seq([change : Effects, before : Readings, image : Stat])
    /\ \A i \in DOMAIN past : CanBeUndone(platform, stat, past[i])
\* No two volumes at one place, and of those read what was to be kept.
MountsInv ==
    /\ mounts \subseteq [at : MountPoints, dos : BOOLEAN] /\ seen \subseteq [at : MountPoints, dos : BOOLEAN]
    /\ \A m, o \in mounts : m.at = o.at => m = o
    /\ \A m, o \in seen : m.at = o.at => m = o
    /\ table = Parse(seen)
=============================================================================
