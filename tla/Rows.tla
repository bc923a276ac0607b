--------------------------------- MODULE Rows ---------------------------------
(***************************************************************************)
(* The rows of the window: their order, the filter that hides some, and    *)
(* the selection, which is what a run covers (ren-gui, viewmodel/          *)
(* session.rs and panels/file_table.rs).  A selection holds row numbers;   *)
(* every change of the rows has to carry it along, or the run is over      *)
(* files nobody picked.                                                    *)
(***************************************************************************)
EXTENDS Integers, Sequences, Functions

CONSTANTS
    Nothing,
    Rowable,        \* the files a listing may hold
    Folders,        \* those of them that are folders
    Columns,        \* what can be sorted by
    Key,            \* column -> file -> what it sorts under
    NewKeys,        \* the names a plan may give: file -> what they sort under
    Lists,          \* what the walk may find, in the order it finds it
    Hidings,        \* the files a chip may hide
    Slips           \* the rows may change while a drag is held

ASSUME RowsAssumption == Nothing \notin Nat /\ Lists \subseteq Seq(Rowable)

VARIABLES
    rows,           \* the listing: a sequence of files
    hidden,         \* files the Changed chip hides
    picked,         \* the numbers of the rows picked
    lead, anchor,   \* where the keyboard is, and what Shift measures from
    sort,           \* [column, up, manual]
    foldersFirst,
    drag,           \* a drag across the rows: [anchor, base], Nothing for none
    held            \* the files the user means to stay picked whatever the drag does

rowsVars == <<rows, hidden, picked, lead, anchor, sort, foldersFirst, drag, held>>

Chosen == {rows[i] : i \in picked}
FileAt(i) == IF i = Nothing THEN Nothing ELSE rows[i]

\* The rows on screen, by their numbers.
Shown == {i \in DOMAIN rows : rows[i] \notin hidden}
OnScreen == {rows[i] : i \in Shown}
\* The end of some rows: the first going down, the last going up; none of no rows.
EndOf(numbers, down) == {i \in numbers : \A j \in numbers : IF down THEN i <= j ELSE j <= i}

\* From one row to another: of those on screen, not of all.
Span(i, j) == {k \in Shown : (i <= k /\ k <= j) \/ (j <= k /\ k <= i)}

-----------------------------------------------------------------------------
\* The orders that put files under their keys; a descending sort turns ties round, too.
ByKeys(files, key, up, first) ==
    LET before(i, j) ==
            LET f == files[i]
                g == files[j]
            IN  IF first /\ (f \in Folders) # (g \in Folders) THEN f \in Folders
                ELSE IF key[f] # key[g] THEN (key[f] < key[g]) = up
                ELSE IF up THEN i < j ELSE j < i
    IN  {order \in Bijection(DOMAIN files, DOMAIN files) :
            \A p, q \in DOMAIN files : p < q => before(order[p], order[q])}

RowsInit ==
    /\ rows = <<>> /\ hidden = {} /\ picked = {}
    /\ lead = Nothing /\ anchor = Nothing
    /\ sort \in [column : Columns, up : {TRUE}, manual : {FALSE}]
    /\ foldersFirst \in BOOLEAN
    /\ drag = Nothing /\ held = {}

\* A bug: the rows are put in another order, and the selection is not.
Unmoved(order) == rows' = [p \in DOMAIN rows |-> rows[order[p]]] /\ UNCHANGED <<picked, lead, anchor>>

\* Every part of the selection to where its row has gone.
Remap(order) ==
    LET movedTo(i) == CHOOSE p \in DOMAIN order : order[p] = i
        follow(i) == IF i = Nothing THEN Nothing ELSE movedTo(i)
    IN  /\ picked' = {movedTo(i) : i \in picked}
        /\ lead' = follow(lead)
        /\ anchor' = follow(anchor)

\* The rows in another order, and the whole selection with them.
ApplyOrder(order) == rows' = [p \in DOMAIN rows |-> rows[order[p]]] /\ Remap(order)

SetSort(column) ==
    /\ sort' = IF sort.column = column /\ ~sort.manual
               THEN [sort EXCEPT !.up = ~@]
               ELSE [column |-> column, up |-> TRUE, manual |-> FALSE]
    /\ \E order \in ByKeys(rows, Key[column], sort'.up, foldersFirst) : ApplyOrder(order)
    /\ drag = Nothing \/ Slips
    /\ UNCHANGED <<hidden, foldersFirst, drag, held>>

\* The New name heading orders the rows once, and stops.
ReorderByNewNames(key) ==
    /\ sort' = [sort EXCEPT !.up = IF sort.manual THEN ~@ ELSE TRUE, !.manual = TRUE]
    /\ \E order \in ByKeys(rows, IF sort'.up THEN key ELSE [f \in Rowable |-> -key[f]], TRUE, foldersFirst) :
          ApplyOrder(order)
    /\ drag = Nothing \/ Slips
    /\ UNCHANGED <<hidden, foldersFirst, drag, held>>

\* A listing lands: the selection was of the old rows, and is dropped.
Listed(files) ==
    /\ sort' = [sort EXCEPT !.manual = FALSE]
    /\ \E order \in ByKeys(files, Key[sort.column], sort.up, foldersFirst) :
          rows' = [p \in DOMAIN files |-> files[order[p]]]
    /\ picked' = {} /\ lead' = Nothing /\ anchor' = Nothing
    /\ drag = Nothing \/ Slips
    /\ UNCHANGED <<hidden, foldersFirst, drag, held>>

\* Where the window wants the keyboard after a listing, or the F2 editor next.
SetLead(i) ==
    /\ lead' = i /\ anchor' = i
    /\ UNCHANGED <<rows, hidden, picked, sort, foldersFirst, drag, held>>

\* A plan lands, or a chip is pressed.
Filters(files) ==
    /\ hidden' = files
    /\ UNCHANGED <<rows, picked, lead, anchor, sort, foldersFirst, drag, held>>
-----------------------------------------------------------------------------
Picks(p, l, a) ==
    /\ picked' = p /\ lead' = l /\ anchor' = a
    /\ UNCHANGED <<rows, hidden, sort, foldersFirst, drag, held>>

Click(i, ctrl, shift) ==
    IF shift /\ anchor # Nothing
    THEN IF anchor \in Shown
         THEN Picks((IF ctrl THEN picked ELSE {}) \cup Span(anchor, i), i, anchor)
         ELSE UNCHANGED rowsVars
    ELSE Picks(IF ~ctrl THEN {i} ELSE IF i \in picked THEN picked \ {i} ELSE picked \cup {i}, i, i)

JumpTo(i, ctrl, shift) ==
    IF ctrl /\ ~shift THEN Picks(picked, i, i) ELSE Click(i, FALSE, shift)

\* One row up or down of what is on screen, and at an end no further; where nothing on
\* screen has the keyboard, from the end the user is heading away from.
Further(i, down) == {k \in Shown : IF down THEN i < k ELSE k < i}
Arrow(down, ctrl, shift) ==
    \E i \in IF lead \notin Shown THEN EndOf(Shown, down)
             ELSE IF Further(lead, down) = {} THEN {lead}
             ELSE EndOf(Further(lead, down), down) :
        JumpTo(i, ctrl, shift)

\* A right-click on a row that is not picked, and Ctrl+A.
SelectsOne(i) == i \notin picked /\ Picks({i}, i, i)
SelectsAll == \E i \in EndOf(Shown, TRUE) : Picks(Shown, i, i)

\* A drag begins on a row; the button is held from here on.
Presses(i, ctrl, shift) ==
    /\ drag = Nothing
    /\ drag' = [anchor |-> IF shift /\ anchor # Nothing THEN anchor ELSE i,
                base |-> IF ctrl THEN picked ELSE {}]
    /\ held' = IF ctrl THEN Chosen ELSE {}
    /\ UNCHANGED <<rows, hidden, picked, lead, anchor, sort, foldersFirst>>

Sweeps(i) ==
    /\ drag # Nothing
    /\ drag.anchor \in Shown
    /\ Picks(drag.base \cup Span(drag.anchor, i), i, drag.anchor)

LetsGo ==
    /\ drag # Nothing
    /\ drag' = Nothing /\ held' = {}
    /\ UNCHANGED <<rows, hidden, picked, lead, anchor, sort, foldersFirst>>

RowsNext ==
    \/ \E c \in Columns : SetSort(c)
    \/ \E key \in NewKeys : ReorderByNewNames(key)
    \/ \E files \in Lists : Listed(files)
    \/ \E files \in Hidings : Filters(files)
    \/ \E i \in DOMAIN rows : SetLead(i)
    \/ \E i \in Shown, ctrl, shift \in BOOLEAN : Click(i, ctrl, shift) \/ Presses(i, ctrl, shift)
    \/ \E i \in Shown : SelectsOne(i) \/ Sweeps(i)
    \/ SelectsAll
    \/ \E down, ctrl, shift \in BOOLEAN : Arrow(down, ctrl, shift)
    \/ \E home, ctrl, shift \in BOOLEAN : \E i \in EndOf(Shown, home) : JumpTo(i, ctrl, shift)
    \/ LetsGo

RowsSpec == RowsInit /\ [][RowsNext]_rowsVars
-----------------------------------------------------------------------------
Numbered == DOMAIN rows \cup {Nothing}
\* The selection is of rows there are; and what a drag began with stays meant.
SelectionInv ==
    /\ rows \in Seq(Rowable)
    /\ picked \subseteq DOMAIN rows /\ lead \in Numbered /\ anchor \in Numbered
    /\ drag # Nothing => /\ drag.anchor \in DOMAIN rows /\ drag.base \subseteq DOMAIN rows
                         /\ {rows[i] : i \in drag.base} \subseteq held

\* A run covers only what the user saw as it was picked: a step that changes the
\* rows leaves the picked files, the keyboard and the row a Shift-click measures
\* from what they were, or drops all three; and a file comes to be picked only
\* while it is on screen, or because it was picked as the drag began
\* (apply_order and remap; click, sweep, arrow and jump_to, which take the rows
\* on screen and not all between two).
KeptInSight ==
    /\ rows' # rows =>
            \/ <<Chosen, FileAt(lead), FileAt(anchor)>>' = <<Chosen, FileAt(lead), FileAt(anchor)>>
            \/ <<Chosen, lead, anchor>>' = <<{}, Nothing, Nothing>>
    /\ Chosen' \ Chosen \subseteq OnScreen \cup held
PickedInSight == [][KeptInSight]_rowsVars
=============================================================================
