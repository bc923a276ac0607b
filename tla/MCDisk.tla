------------------------------- MODULE MCDisk -------------------------------
(* What is on the disk, on small instances: two windows and a command line  *)
(* over one journal folder; one folder of files, a name in it, its other     *)
(* spelling and one more.  Neither reads what the other writes, so one of    *)
(* them is at work in any behaviour and the other stands still.              *)
EXTENDS Journals, Volume

CONSTANTS a, A, b, f1, f2, f3

VARIABLE part

mcVars == <<part, journalVars, volumeVars>>

MCPid == [p \in Procs |-> IF p = "w1" THEN 2 ELSE IF p = "w2" THEN 1 ELSE 0]

Unbroken(lines) == [lines |-> lines, ended |-> TRUE]

\* Nothing, a batch of an earlier session, one of a newer build's, or a journal
\* damaged in the middle.
MCFound ==
    {<<>>} \cup
    {[n \in {<<0, 1>>} |-> Unbroken(lines)] : lines \in
        {<<"begin", "plan", "done", "commit">>,
         <<"begin", "future", "done", "commit">>,
         <<"begin", "torn", "done">>}}

MCFolded == [n \in {a, A, b} |-> IF n = A THEN a ELSE n]

\* One file; two; one with a hard link that differs in case only.
MCStarts == {[n \in {a} |-> 1], [n \in {a, b} |-> IF n = a THEN 1 ELSE 2],
             [n \in {a, A} |-> 1]}
MCFirst == <<f1, f2>>

MCInit ==
    /\ part \in {"journals", "volume"}
    /\ JournalsInit
    /\ part = "volume" => folder = <<>>
    /\ VolumeInit
    /\ part = "journals" => dir = [n \in {a} |-> 1] /\ volume = CHOOSE v \in Volumes : TRUE

MCNext ==
    /\ part' = part
    /\ \/ part = "journals" /\ JournalsNext /\ UNCHANGED volumeVars
       \/ part = "volume" /\ VolumeNext /\ UNCHANGED journalVars

MCSpec == MCInit /\ [][MCNext]_mcVars
=============================================================================
