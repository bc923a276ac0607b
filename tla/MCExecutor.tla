---------------------------- MODULE MCExecutor ----------------------------
(* Small batches for Executor, one for each way operations depend on one    *)
(* another, and the constants of its runs.                                  *)
EXTENDS ExecutorInv, TLC

MCNames == {"a", "b", "c", "d", "e", "x", "tmp", "log"}
MCDirs == {"D", "E", "F"}
MCFiles == MCDirs \cup {"A", "B", "L", "S"}
MCDates == {0, 1, 5, 9}
MCTexts == {"tags", "log"}

rename(f, g) == [kind |-> "rename", from |-> f, to |-> g]
mkdir(p, x) == [kind |-> "mkdir", path |-> p, file |-> x]
write(p) == [kind |-> "write", path |-> p, file |-> "L", text |-> "log"]
overwrite(p) == [kind |-> "overwrite", path |-> p, file |-> "L", text |-> "log"]
retag(p) == [kind |-> "retag", path |-> p, text |-> "tags"]
setDate(p, v) == [kind |-> "date", path |-> p, value |-> v]

\* The states ops pass through from a tree.
RECURSIVE States(_, _, _)
States(ops, t, d) ==
    IF ops = <<>> THEN <<[tree |-> t, date |-> d]>>
    ELSE <<[tree |-> t, date |-> d]>>
            \o States(Tail(ops), TreeAfter(Head(ops), t), DateAfter(Head(ops), t, d))

BatchOf(start, ops) ==
    LET states == States(ops, start, [f \in MCFiles |-> IF f = "B" THEN 5 ELSE 0])
    IN  [ops |-> ops,
         trees |-> [i \in DOMAIN states |-> states[i].tree],
         dates |-> [i \in DOMAIN states |-> states[i].date]]

Two == [p \in {<<"a">>, <<"b">>} |-> IF p = <<"a">> THEN "A" ELSE "B"]
Nested == [p \in {<<"e">>, <<"e", "x">>, <<"b">>} |->
              CASE p = <<"e">> -> "E" [] p = <<"b">> -> "B" [] OTHER -> "A"]

\* b makes room for a, whose date is then set.
Chain == BatchOf(Two, <<rename(<<"b">>, <<"c">>), rename(<<"a">>, <<"b">>),
                        setDate(<<"b">>, 9)>>)
\* The date is set to the one the file called b had before.
Twin == BatchOf(Two, <<rename(<<"b">>, <<"c">>), rename(<<"a">>, <<"b">>),
                       setDate(<<"b">>, 5)>>)
\* One file's date is set twice, in the end within the tolerance of the first.
Redated == BatchOf(Two, <<setDate(<<"a">>, 9), setDate(<<"a">>, 1)>>)
\* a and b change places, through a temporary name.
Swap == BatchOf(Two, <<rename(<<"a">>, <<"tmp">>), rename(<<"b">>, <<"a">>),
                       rename(<<"tmp">>, <<"b">>)>>)
\* Both files move into folders the batch creates; a log is written there.
Subfolders == BatchOf(Two, <<mkdir(<<"d">>, "D"), mkdir(<<"d", "e">>, "F"),
                             rename(<<"a">>, <<"d", "e", "a">>),
                             rename(<<"b">>, <<"a">>), write(<<"d", "log">>)>>)
\* A folder is renamed after what is in it.
Folder == BatchOf(Nested, <<rename(<<"e", "x">>, <<"e", "a">>), rename(<<"e">>, <<"d">>),
                            setDate(<<"d", "a">>, 5)>>)
\* Two folders trade places: one had a folder made in it, the other gets a
\* file that ends up under the same path.
Traded == BatchOf(<<"d">> :> "D" @@ <<"e">> :> "E",
                  <<mkdir(<<"e", "log">>, "F"), rename(<<"e">>, <<"c">>), rename(<<"d">>, <<"e">>),
                    write(<<"e", "log">>)>>)
\* Changes that cannot be taken back among some that can.
Mixed == BatchOf(Two, <<rename(<<"a">>, <<"c">>), setDate(<<"c">>, 9),
                        retag(<<"c">>), overwrite(<<"b">>)>>)
\* A script leaves a list of what was renamed.
Logged == BatchOf(Two, <<rename(<<"b">>, <<"c">>), write(<<"log">>)>>)
Nothing == BatchOf(Two, <<>>)
One == BatchOf(Two, <<rename(<<"a">>, <<"c">>)>>)

AllBatches == {Chain, Twin, Redated, Swap, Subfolders, Folder, Mixed, Logged, Traded, Nothing, One}
SwapBatch == {Swap}
OneBatch == {One}
ForeignBatches == {Chain, Swap, Logged, Subfolders, Traded, Mixed}
ASSUME \A b \in ForeignBatches : WrittenApart(b)
NoSpots == {}
FewSpots == {<<"a">>, <<"c">>, <<"x">>}
=============================================================================
