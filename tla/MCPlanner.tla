----------------------------- MODULE MCPlanner ------------------------------
(* Small listings for Planner, and every name a pipeline could produce from *)
(* the few that matter in each.                                             *)
EXTENDS Planner

MCTemps == [k \in 1..16 |-> "tmp" \o ToString(k - 1)]
MCNames == {"a", "b", "c", "d", "e", "n", "log"} \cup ToSet(MCTemps)
MCNewFiles == <<"L1", "L2", "L3">>

\* The folders that may have to be made, and the files they are.
MCWays == {p \o q : p \in {<<>>, <<"d">>, <<"e">>, <<"d", "e">>},
                    q \in {<<"d">>, <<"e">>, <<"n">>, <<"n", "n">>}}
MCNewDirs == [p \in MCWays |-> ToString(p)]
MCDirs == {"D", "E"} \cup Range(MCNewDirs)
MCFiles == MCDirs \cup {"A", "B", "C", "X", "T", "U", "V", "L1", "L2", "L3"}
a == <<"a">>
b == <<"b">>
c == <<"c">>
d == <<"d">>
e == <<"e">>
n == <<"n">>

Tmp(k) == <<MCTemps[k + 1]>>

\* Four files side by side.
FlatTree == a :> "A" @@ b :> "B" @@ c :> "C" @@ e :> "X"
\* Two files, and one that has a temporary name.
TempTree == a :> "A" @@ b :> "B" @@ Tmp(0) :> "T"
\* Two files, and as many temporary names taken as the search goes through.
CrowdTree == TempTree @@ Tmp(1) :> "U" @@ Tmp(2) :> "V"
\* A file, and two folders: one with two files, one with a file.
DeepTree ==
    a :> "A" @@ d :> "D" @@ (d \o a) :> "B" @@ (d \o b) :> "C" @@ e :> "E" @@ (e \o a) :> "X"
\* A folder in a folder.
ChainTree == d :> "D" @@ (d \o e) :> "E" @@ (d \o e \o a) :> "A" @@ (d \o e \o b) :> "B"

Listing(tree, rows, produced, dated, writes) ==
    {[tree |-> tree, rows |-> rows, names |-> names, dated |-> k, writes |-> w] :
        names \in [DOMAIN rows -> produced], k \in dated, w \in writes}

None == {<<>>}

MCJobs ==
    Listing(FlatTree, <<a, b, c, e>>, {a, b, c, e, Tmp(0), n, n \o a}, {FALSE}, None)
        \cup Listing(TempTree, <<a, b, Tmp(0)>>, {a, b, Tmp(0), Tmp(1), <<>>},
                     {TRUE}, {<<>>, <<n>>, <<n, c, n>>, <<a>>, <<b, b>>})
        \cup Listing(CrowdTree, <<a, b>>, {a, b, n}, BOOLEAN, None)
        \cup Listing(DeepTree, <<a, d, d \o a, d \o b, e>>, {a, b, d, e, d \o a, n \o a, e \o d}, {FALSE}, None)
        \cup Listing(DeepTree, <<a, d \o a, d \o b, e \o a>>, {a, b, n, n \o a, d \o b, n \o n \o b},
                     {FALSE}, None)
        \cup Listing(DeepTree, <<d, d \o a, d \o b, e>>, {a, b, d, e},
                     {TRUE}, {<<>>, <<d \o n, e \o n>>, <<d \o a>>, <<d \o b, n>>, <<e \o a>>})
        \cup Listing(DeepTree, <<d, d \o a, e, e \o a>>, {a, b, d, e, n \o a}, {FALSE}, {<<e \o n, d \o n>>})
        \cup Listing(ChainTree, <<d, d \o e, d \o e \o a, d \o e \o b>>, {a, b, d, e, n \o a, n \o b},
                     {TRUE}, {<<d \o e \o n, d \o n>>})

=============================================================================
