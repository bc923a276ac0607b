------------------------------ MODULE MCDrawers ------------------------------
(* The parts around a run, on small instances: the preset folder over two      *)
(* windows, the rows and their selection, the Free Select set, the walk of a   *)
(* folder, the guard, the pipeline's cards and what they ask, the file manager's*)
(* menu and the command line.  They share nothing a step of one reads of another*)
(* (the menu's presets are a listing of its own), so one of them is at work in *)
(* any behaviour and the others stand still.                                   *)
EXTENDS Presets, Rows, FreeSelect, Walk, Menu, CommandLine, Guard, Setup

CONSTANT Working    \* the parts that may be at work

VARIABLE part

mcVars == <<part, presetVars, rowsVars, freeVars, walkVars, menuVars, cliVars, guardVars, setupVars>>

N(k, c) == [key |-> k, cap |-> c]
MCNames == {N(<<"foo">>, FALSE), N(<<"foo.">>, TRUE), N(<<"foo", "(2)">>, TRUE)}
MCStored == [s \in {"foo", "foo.", "bar"} |-> IF s = "foo." THEN "foo" ELSE s]
MCEndings == <<"", "(2)", "(3)", "(4)">>
MCTails == <<"(copy)", "(copy 2)">>
MCDefaults == <<N(<<"bar">>, TRUE), N(<<"foo">>, TRUE)>>

MCKey == [c \in Columns |->
            [f \in Rowable |-> CASE f = "a" -> 1
                                 [] f = "b" -> 2
                                 [] f = "c" -> IF c = "name" THEN 3 ELSE 1
                                 [] f = "d" -> IF c = "name" THEN 4 ELSE 1]]
MCNewKeys == {[f \in Rowable |-> IF f = "a" THEN 2 ELSE 1]}
MCLists == {<<"b", "c", "a">>, <<"d", "a">>}
MCHidings == {{}, {"a"}, {"c", "d"}}

\* Two folders, a file in each, and a folder with a file in one of them.
MCLaid == [t \in {"D", "E", "DX", "EX", "DD", "DDX"} |->
            CASE t = "D"  -> <<"d">>      [] t = "DX"  -> <<"d", "x">>
              [] t = "E"  -> <<"e">>      [] t = "EX"  -> <<"e", "x">>
              [] t = "DD" -> <<"d", "d">> [] t = "DDX" -> <<"d", "d", "d">>]
MCThings == DOMAIN MCLaid

\* A file, a folder with a file and a folder in it, a file in that, another file.
MCInOrder == << <<"a">>, <<"d">>, <<"d", "a">>, <<"d", "d">>, <<"d", "d", "a">>, <<"e">> >>
MCPlaces == ToSet(MCInOrder)
MCRank == [p \in MCPlaces |-> CHOOSE i \in DOMAIN MCInOrder : MCInOrder[i] = p]
MCBranches == {<<"d">>, <<"d", "d">>}
MCOptions ==
    [files : {TRUE}, folders : BOOLEAN, subfolders : BOOLEAN, hidden : BOOLEAN, readOnly : {FALSE},
     pattern : {{"a", "e"}, {"a", "d", "e"}}, scope : {"both", "files", "folders"}]
MCMarked == {{}, {<<"d">>}, {<<"d", "d">>}, {<<"d", "a">>}}
MCMarks == {[p \in MCPlaces |-> CASE p \in h -> "hidden" [] p \in w -> "read only" [] OTHER -> ""] :
              h, w \in MCMarked}

\* /usr and /etc are guarded; their parents and their like, spelled straight and not.
MCParts == {"usr", "USR", "usrlocal", "home", "lib"}
MCFold == [n \in MCParts |-> IF n = "USR" THEN "usr" ELSE n]
MCRoots == {<<"usr">>, <<"home", "lib">>}
MCParents == { <<>>, <<"home">>, <<"home", "..", "USR">>, <<"usr", ".", "lib">>, <<"home", "..">>, <<"usrlocal">> }
MCPlace == [p \in MCParents |-> LexicallyNormal(p)]
MCAskedPaths == [parent : MCParents, name : {"usr", "lib", "home"}] \cup {[parent |-> None, name |-> "usr"]}
MCRequests == [dir : {None, <<"home">>, <<"home", "..", "USR">>}, paths : SeqOf(MCAskedPaths, 2)]
ASSUME \A p \in MCParents, n \in MCParts : LexicallyNormal(Append(p, n)) = Append(LexicallyNormal(p), n)

MCPresetLists == {<<>>, <<"p", "q">>}
MCMenus == {Everything, [Everything EXCEPT !.hoist = FALSE],
    [fixed |-> {"free select"}, presets |-> FALSE, hoist |-> TRUE],
    [fixed |-> {"copy names"}, presets |-> FALSE, hoist |-> FALSE]}

\* An operation with one place to mark, one with two and a question, one that pastes.
MCOffers == [k \in {"replace", "both", "paste"} |->
               CASE k = "replace" -> <<"find">> [] k = "both" -> <<"remove", "add">> [] OTHER -> <<>>]
MCAsksFor == [k \in {"replace", "both", "paste"} |-> IF k = "both" THEN {0} ELSE {}]
MCPipelines == {<<"replace">>, <<"both", "replace">>, <<"paste">>}
MCPhotos == {<<"f">>, <<"g", "f">>}

MCSymmetry == Permutations(Windows)

MCInit ==
    /\ part \in Working
    /\ IF part = "presets" THEN PresetInit
       ELSE /\ folds = FALSE /\ made = FALSE /\ files = << >> /\ temps = {} /\ up = {}
            /\ cached = [w \in Windows |-> None] /\ foreign = {} /\ at = None
            /\ calls = 0 /\ trouble = 0 /\ owed = {} /\ gone = {} /\ shared = FALSE
    /\ IF part = "rows" THEN RowsInit
       ELSE /\ rows = <<>> /\ hidden = {} /\ picked = {} /\ lead = Nothing /\ anchor = Nothing
            /\ sort = Nothing /\ foldersFirst = FALSE /\ drag = Nothing /\ held = {}
    /\ FreeInit
    /\ IF part = "walk" THEN WalkInit
       ELSE /\ option = None /\ mark = None /\ there = {} /\ todo = {} /\ entries = <<>>
            /\ problems = {} /\ outcome = "done" /\ bad = 0
    /\ IF part = "menu" THEN MenuInit
       ELSE /\ registry = {} /\ listing = <<>> /\ saved = None /\ offered = FALSE
            /\ desk = [w \in Desks |-> Closed] /\ half = FALSE /\ calm = {}
            /\ edits = 0 /\ troubles = 0
    /\ IF part = "cli" THEN CliInit
       ELSE /\ line = None /\ stage = "over" /\ did = "nothing" /\ listFile = TRUE
            /\ unanswered = {} /\ pending = 0 /\ left = 0 /\ complete = TRUE /\ exit = NoExit
    /\ IF part = "guard" THEN GuardInit
       ELSE asked = None /\ seen = {} /\ reached = 0 /\ answer = Nothing
    /\ IF part = "setup" THEN SetupInit
       ELSE /\ cards = <<>> /\ nextId = 0 /\ expanded = None /\ laid = 0 /\ strip = None
            /\ marked = None /\ listed = <<>> /\ answers = [asks |-> {}, clipboard |-> None]
            /\ pendingAsk = NoForm /\ asking = None /\ stale = FALSE /\ deferred = FALSE
            /\ running = FALSE /\ board = None /\ sinceIt = {} /\ changes = 0 /\ starts = 0
            /\ outlived = {} /\ told = None

MCNext ==
    /\ part' = part
    /\ \/ part = "presets" /\ PresetNext
          /\ UNCHANGED <<rowsVars, freeVars, walkVars, menuVars, cliVars, guardVars, setupVars>>
       \/ part = "rows" /\ RowsNext
          /\ UNCHANGED <<presetVars, freeVars, walkVars, menuVars, cliVars, guardVars, setupVars>>
       \/ part = "free" /\ FreeNext
          /\ UNCHANGED <<presetVars, rowsVars, walkVars, menuVars, cliVars, guardVars, setupVars>>
       \/ part = "walk" /\ WalkNext
          /\ UNCHANGED <<presetVars, rowsVars, freeVars, menuVars, cliVars, guardVars, setupVars>>
       \/ part = "menu" /\ MenuNext
          /\ UNCHANGED <<presetVars, rowsVars, freeVars, walkVars, cliVars, guardVars, setupVars>>
       \/ part = "cli" /\ CliNext
          /\ UNCHANGED <<presetVars, rowsVars, freeVars, walkVars, menuVars, guardVars, setupVars>>
       \/ part = "guard" /\ GuardNext
          /\ UNCHANGED <<presetVars, rowsVars, freeVars, walkVars, menuVars, cliVars, setupVars>>
       \/ part = "setup" /\ SetupNext
          /\ UNCHANGED <<presetVars, rowsVars, freeVars, walkVars, menuVars, cliVars, guardVars>>

MCSpec == MCInit /\ [][MCNext]_mcVars
=============================================================================
