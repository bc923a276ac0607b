----------------------------- MODULE CommandLine -----------------------------
(***************************************************************************)
(* The command line (ren-cli, main.rs, compat.rs, exit.rs): the switches   *)
(* of old rewritten into the flags of today, and one run of a command up   *)
(* to the number it exits with, which is all a script hears of it.  What   *)
(* the engine does is external here: how applying, undoing and rolling     *)
(* back may end, and what they have done by then.                          *)
(***************************************************************************)
EXTENDS Integers, Sequences, SequencesExt

CONSTANTS
    Switches,       \* the old switches a line may hold
    Words,          \* what stands between them: "dir", "file", "mask"
    MaxLine,        \* arguments of an old line
    Slots,          \* the questions a pipeline may ask
    MaxPending      \* unfinished runs recovery may find

ASSUME CommandLineAssumption == MaxPending \in Nat

Usage == 1
Blocked == 2
Failed == 3
Success == 0
NoExit == 9

VARIABLES
    line,           \* what was typed, parsed: [command, ...]
    stage,          \* how far the run of it is
    did,            \* of what it set out to change: "nothing", "part", "all"
    listFile,       \* the list of paths is still there
    unanswered,     \* the questions nobody has answered
    pending,        \* unfinished runs still to be rolled back
    left,           \* ghost: those that were not, or not wholly
    complete,       \* what recovery is going to say
    exit

cliVars == <<line, stage, did, listFile, unanswered, pending, left, complete, exit>>

-----------------------------------------------------------------------------
(* Old lines. *)

IsSwitch(arg) == arg \in Switches

\* The value of the switch at i: the next argument, unless that is one too.
HasValue(args, i) == i < Len(args) /\ ~IsSwitch(args[i + 1])

Given(args, switch) == {i \in DOMAIN args : args[i] = switch /\ HasValue(args, i)}
LastGiven(args, switch) == CHOOSE i \in Given(args, switch) : \A j \in Given(args, switch) : j <= i
Said(args, switch) == \E i \in DOMAIN args : args[i] = switch

\* /l and /r are what their last mention says, none if it has no value; /p keeps
\* the last that has one.
LastSaid(args, switch) == CHOOSE i \in DOMAIN args :
    args[i] = switch /\ \A j \in DOMAIN args : args[j] = switch => j <= i
Holds(args, switch) == Said(args, switch) /\ HasValue(args, LastSaid(args, switch))

Takes == {"/p", "/l", "/r"}
PassedOn(args) ==
    {i \in DOMAIN args : ~IsSwitch(args[i]) /\ ~(i > 1 /\ args[i - 1] \in Takes \cap Switches)}

SplitPath(word) == CASE word = "file" -> "file" [] OTHER -> "folder"

Plain(command, source) ==
    [command |-> command, source |-> source, preset |-> FALSE, deleteList |-> FALSE,
     simulate |-> FALSE, irreversible |-> FALSE, system |-> FALSE, rollback |-> FALSE,
     answers |-> {}]

\* Without switches: paths, which are only ever shown.
BarePaths(args) ==
    Plain("preview", IF Len(args) = 1 /\ args[1] # "file" THEN "folder" ELSE "file")

\* /l wins over /p; /r runs, and its absence shows; a path nothing asked for is
\* one source too many beside another.
Translate(args) ==
    LET path == IF Given(args, "/p") = {} \/ Holds(args, "/l") THEN "none"
                ELSE SplitPath(args[LastGiven(args, "/p") + 1])
        source == IF Holds(args, "/l") THEN "list" ELSE path
        extra == PassedOn(args)
    IN  [Plain(IF Holds(args, "/r") THEN "apply" ELSE "preview",
               IF extra = {} THEN source
               ELSE IF source = "none" /\ \E i \in extra : extra = {i} THEN "folder"
               ELSE "two")
         EXCEPT !.preset = Holds(args, "/r"),
                !.deleteList = Said(args, "/k") /\ Holds(args, "/l")]

OldLine(args) ==
    IF args = <<>> THEN Plain("none", "none")
    ELSE IF Said(args, "/?") THEN Plain("help", "none")
    ELSE IF \A i \in DOMAIN args : ~IsSwitch(args[i]) THEN BarePaths(args)
    ELSE Translate(args)

\* A line of today, as the parser lets it through: a job brings its own source,
\* and only a list can be deleted.
NewLines ==
    {l \in [command : {"preview", "apply"}, source : {"none", "folder", "list", "file", "job"},
            preset : BOOLEAN, deleteList : BOOLEAN, simulate : BOOLEAN, irreversible : BOOLEAN,
            system : BOOLEAN, rollback : {FALSE}, answers : SUBSET Slots] :
        /\ l.deleteList => l.source = "list"
        /\ l.source = "job" => ~l.preset
        /\ l.command = "preview" => ~l.simulate /\ ~l.irreversible}
    \cup {Plain("undo", "none"), Plain("recover", "none"), Plain("presets", "none"),
          [Plain("recover", "none") EXCEPT !.rollback = TRUE]}

CliInit ==
    /\ line \in NewLines \cup {OldLine(args) : args \in UNION {[1..n -> Switches \cup Words] : n \in 0..MaxLine}}
    /\ stage = "parse" /\ did = "nothing" /\ listFile = TRUE
    /\ unanswered = {} /\ pending = 0 /\ left = 0 /\ complete = TRUE /\ exit = NoExit

-----------------------------------------------------------------------------
Exits(code) == exit' = code /\ stage' = "over"
Goes(next) == stage' = next /\ UNCHANGED exit

Parse ==
    /\ stage = "parse"
    /\ IF line.command = "help" THEN Exits(Success)
       ELSE IF line.command = "none" \/ line.source = "two" THEN Exits(Usage)
       ELSE IF line.command \in {"preview", "apply"} THEN Goes("resolve")
       ELSE Goes(line.command)
    /\ UNCHANGED <<line, did, listFile, unanswered, pending, left, complete>>

\* The source and the pipeline; the list, the preset or the job may not be read.
Resolve ==
    /\ stage = "resolve"
    /\ \/ line.source # "none" /\ Goes("guard the folder")
       \/ Exits(Usage)
    /\ UNCHANGED <<line, did, listFile, unanswered, pending, left, complete>>

RefuseGuarded(next) ==
    \/ Goes(next)
    \/ ~line.system /\ Exits(Blocked)

\* The folder browsed is looked at before it is walked, its entries after.
Prepare ==
    /\ \/ stage = "guard the folder" /\ IF line.source \in {"folder", "job"}
                                        THEN RefuseGuarded("list") ELSE Goes("list")
       \/ stage = "list" /\ (Goes("guard the entries") \/ Exits(Usage))
       \/ stage = "guard the entries" /\ RefuseGuarded("answer")
    /\ UNCHANGED <<line, did, listFile, unanswered, pending, left, complete>>

\* Every answer must have its question; apply asks for the rest, and gets a
\* number of them before stdin is closed.
Answers ==
    /\ stage = "answer"
    /\ \E asked \in SUBSET Slots :
          IF ~(line.answers \subseteq asked) THEN Exits(Usage) /\ UNCHANGED unanswered
          ELSE \E got \in SUBSET (asked \ line.answers) :
                  /\ line.command = "preview" => got = {}
                  /\ unanswered' = (asked \ line.answers) \ got
                  /\ IF line.command = "apply" /\ unanswered' # {} THEN Exits(Usage)
                     ELSE Goes(line.command)
    /\ UNCHANGED <<line, did, listFile, pending, left, complete>>

\* A list that cannot be deleted is a warning.
ConsumeList(simulated) ==
    IF line.deleteList /\ ~simulated THEN listFile' \in BOOLEAN ELSE UNCHANGED listFile

Preview ==
    /\ stage = "preview"
    /\ \/ Exits(Blocked) /\ UNCHANGED listFile
       \/ Exits(Success) /\ ConsumeList(FALSE)
    /\ UNCHANGED <<line, did, unanswered, pending, left, complete>>

\* How a run may end, and what it has changed by then.
Engine ==
    {[how |-> "refused", did |-> "nothing"], [how |-> "not begun", did |-> "nothing"]}
    \cup (IF line.simulate
          THEN {[how |-> "report", did |-> "nothing"], [how |-> "report with failures", did |-> "nothing"]}
          ELSE {[how |-> "report", did |-> "all"], [how |-> "report with failures", did |-> "part"],
                [how |-> "report with failures", did |-> "nothing"],
                [how |-> "interrupted", did |-> "part"], [how |-> "interrupted", did |-> "nothing"]})

\* A bug: an interrupted run is one error among the others.
AllErrorsAlike(how) == CASE how = "report" -> Success [] how = "report with failures" -> Failed
                         [] how = "refused" -> Blocked [] OTHER -> Usage

ExitOf(how) == CASE how = "report" -> Success
                 [] how \in {"report with failures", "interrupted"} -> Failed
                 [] how = "refused" -> Blocked
                 [] OTHER -> Usage

Apply ==
    /\ stage = "apply"
    /\ \E end \in Engine :
          /\ did' = end.did
          /\ Exits(ExitOf(end.how))
          /\ IF end.how = "report" THEN ConsumeList(line.simulate) ELSE UNCHANGED listFile
    /\ UNCHANGED <<line, unanswered, pending, left, complete>>

UndoLast ==
    /\ stage = "undo"
    /\ \/ did' = "all" /\ Exits(Success)
       \/ did' \in {"part", "nothing"} /\ Exits(Failed)
       \/ UNCHANGED did /\ Exits(Blocked)     \* the journal is being written
       \/ UNCHANGED did /\ Exits(Usage)
    /\ UNCHANGED <<line, listFile, unanswered, pending, left, complete>>

\* What recovery finds: runs that never finished, and journals it cannot judge;
\* one still being written is not a problem.
Recover ==
    /\ stage = "recover"
    /\ \E n \in 0..MaxPending, unreadable \in BOOLEAN :
          /\ complete' = ~unreadable
          /\ pending' = n /\ left' = n
          /\ IF n = 0 \/ ~line.rollback
             THEN Exits(IF unreadable THEN Failed ELSE Success)
             ELSE Goes("rollback")
    /\ UNCHANGED <<line, did, listFile, unanswered>>

\* Each in turn; one that cannot be put back does not stop the rest.
Rollback ==
    /\ stage = "rollback" /\ pending > 0
    /\ pending' = pending - 1
    /\ \/ left' = left - 1 /\ UNCHANGED complete /\ did' = IF did = "nothing" THEN "all" ELSE did
       \/ complete' = FALSE /\ did' = "part" /\ UNCHANGED left
       \/ complete' = FALSE /\ UNCHANGED <<left, did>>
    /\ UNCHANGED <<line, stage, listFile, unanswered, exit>>

RollbackEnds ==
    /\ stage = "rollback" /\ pending = 0
    /\ Exits(IF complete THEN Success ELSE Failed)
    /\ UNCHANGED <<line, did, listFile, unanswered, pending, left, complete>>

\* Listed, shown, taken in or written out: done, or not at all.
RunPresets ==
    /\ stage = "presets"
    /\ \/ did' \in {"nothing", "all"} /\ Exits(Success)
       \/ UNCHANGED did /\ Exits(Usage)
    /\ UNCHANGED <<line, listFile, unanswered, pending, left, complete>>

CliNext ==
    \/ Parse \/ Resolve \/ Prepare \/ Answers \/ Preview \/ Apply
    \/ UndoLast \/ Recover \/ Rollback \/ RollbackEnds \/ RunPresets

CliSpec == CliInit /\ [][CliNext]_cliVars
-----------------------------------------------------------------------------
(* The number a script hears is true: 1 and 2 say that nothing was changed, 0  *)
(* that all was done, every question answered and every unfinished run put     *)
(* back; and the list of paths is gone only where the run it was for is done.  *)
ExitTellsTheTruth ==
    exit # NoExit =>
        /\ exit \in {Usage, Blocked} => did = "nothing"
        /\ exit = Success =>
              /\ did # "part"
              /\ line.rollback => left = 0
              /\ line.command = "apply" => unanswered = {} /\ (did = "all" \/ line.simulate)
        /\ ~listFile => exit = Success /\ line.deleteList /\ ~line.simulate

(* Why it does: where a run of each command stands, and what can be so before  *)
(* it is over.  Nothing is changed before the last stage, an apply gets there  *)
(* with no question open, and recovery claims to be complete only as long as   *)
(* what is left is what it has yet to come to.                                 *)
LineIsParsed ==
    /\ line.command \in {"help", "none", "preview", "apply", "undo", "recover", "presets"}
    /\ line.rollback => line.command = "recover"
    /\ line.command = "preview" => ~line.simulate

StageIsOfTheLine ==
    /\ stage \in {"parse", "resolve", "guard the folder", "list", "guard the entries", "answer",
                  "preview", "apply", "undo", "recover", "rollback", "presets", "over"}
    /\ stage \in {"resolve", "guard the folder", "list", "guard the entries", "answer"} =>
          line.command \in {"preview", "apply"}
    /\ stage \in {"preview", "apply", "undo", "recover", "presets"} => line.command = stage
    /\ stage = "rollback" => line.command = "recover"

NothingDoneYet ==
    stage # "over" =>
        /\ exit = NoExit /\ listFile
        /\ stage # "rollback" => did = "nothing" /\ pending = 0 /\ left = 0
        /\ stage = "apply" => unanswered = {}

RollingBack ==
    stage = "rollback" =>
        /\ pending \in Nat /\ left \in Int
        /\ complete => left = pending /\ did # "part"

CliInv == LineIsParsed /\ StageIsOfTheLine /\ NothingDoneYet /\ RollingBack /\ ExitTellsTheTruth

(* A line that names a list never runs over the folder of its /p.  It can: a    *)
(* second /l at the end of the line, without its file, takes the first away.   *)
ListIsNotWidened ==
    \A n \in 0..MaxLine : \A args \in [1..n -> Switches \cup Words] :
        Given(args, "/l") # {} => LET l == OldLine(args) IN l.command = "apply" => l.source # "folder"
=============================================================================
