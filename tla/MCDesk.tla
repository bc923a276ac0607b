-------------------------------- MODULE MCDesk --------------------------------
(* The window as it stands before a user, on small instances: how it closes    *)
(* and updates (a week of two days, two releases), and the open card's boxes,  *)
(* its filter and pre-processor, and the lists of rows.  They share nothing a  *)
(* step of one reads of another, so one of them is at work in any behaviour.   *)
EXTENDS Leaving, Editors

CONSTANT Working    \* the parts that may be at work

VARIABLE part

mcVars == <<part, vars, editVars, listVars>>

MCUsable == [s \in {"by artist", "by bitrate"} |-> IF s = "by artist" THEN [artist |-> "a"] ELSE Blank]
MCCells == { <<[stem |-> "x", ext |-> "t"], [stem |-> "y", ext |-> Blank]>>, <<[stem |-> "x", ext |-> "t"]>> }

\* The boxes around an operation do not depend on which it is, but for its being an
\* action or not and its default scope.
Narrow == {"replace", "free_format", "set_date"}

MCInit ==
    /\ part \in Working
    /\ IF part = "leaving" THEN Init
       ELSE /\ install = "portable" /\ up = FALSE /\ asked = FALSE /\ held = FALSE /\ job = "none"
            /\ waiting = FALSE /\ mode = "manual" /\ lastCheck = None /\ attempt = None
            /\ status = Idle /\ installWhenReady = FALSE /\ ready = None /\ request = None
            /\ answer = None /\ stored = None /\ build = 1 /\ newest = 1 /\ installers = <<>>
            /\ clock = 0 /\ byUser = {} /\ lastAuto = <<>> /\ tooSoon = FALSE /\ twice = FALSE
            /\ cut = "none" /\ presses = 0 /\ ticks = 0 /\ kills = 0
    /\ EditInit /\ (part \notin {"boxes", "scope"} => cells = CHOOSE c \in Cells : TRUE)
    /\ ListInit

MCNext ==
    /\ part' = part
    /\ \/ part = "leaving" /\ Next /\ UNCHANGED <<editVars, listVars>>
       \/ part = "boxes" /\ (BoxSteps \/ CardSteps) /\ UNCHANGED <<vars, listVars>>
       \/ part = "scope" /\ (ScopeSteps \/ CardSteps) /\ card'.op.kind \in Narrow
          /\ UNCHANGED <<vars, listVars>>
       \/ part = "list" /\ ListNext /\ UNCHANGED <<vars, editVars>>

MCSpec == MCInit /\ [][MCNext]_mcVars /\ Fairness
=============================================================================
