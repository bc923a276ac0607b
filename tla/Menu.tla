--------------------------------- MODULE Menu ---------------------------------
(***************************************************************************)
(* The RenameIt menu of the Windows file manager (ren-platform, shell/     *)
(* plan.rs and shell/apply.rs, with the window and the installer that      *)
(* write it).  A plan is a list of registry operations, done one by one:   *)
(* a refused one stops it, and so does the end of the process.  What is    *)
(* left is what a right-click shows, and what the next start reads to      *)
(* decide whether there is a menu at all.                                  *)
(***************************************************************************)
EXTENDS Integers, Sequences

CONSTANTS
    Desks,          \* windows of the program, and runs of its installer
    MAX_PRESETS,
    PresetLists,    \* what the preset folder may list
    Menus,          \* what the user may have ticked: [fixed, presets, hoist]
    MaxEdits,       \* changes of presets and ticks
    MaxTroubles,    \* refused calls and killed processes
    Together        \* two processes may write the menu at once

FixedEntries == {"start here", "free select", "copy names"}

ASSUME MenuAssumption ==
    /\ Menus \subseteq [fixed : SUBSET FixedEntries, presets : BOOLEAN, hoist : BOOLEAN]
    /\ PresetLists \subseteq Seq(STRING)
    /\ MAX_PRESETS \in Nat

VARIABLES
    registry,       \* the values under the keys the program owns
    listing,        \* the presets on disk
    saved,          \* the choices on disk: [menu: "unset", "yes" or "no", ticked]
    offered,        \* the install record says the user was offered one
    desk,           \* each process: [at, menu, ticked, todo], todo the plan in hand
    half,           \* ghost: the last plan that writes a menu was cut off
    calm,           \* ghost: the desks no call of which was refused
    edits, troubles

menuVars == <<registry, listing, saved, offered, desk, half, calm, edits, troubles>>

-----------------------------------------------------------------------------
(* The plan. *)

Selections == {"files", "drives"}
Hoisted(class) == IF class = "files" THEN "files+" ELSE "drives+"   \* beside the menu's own
VerbRoots == Selections \cup {"background"} \cup {Hoisted(class) : class \in Selections}
Container(class) == IF class = "background" THEN "items of background" ELSE "items"

OwnedKeys == <<"files", "drives", "background", "files+", "drives+", "items", "items of background">>

\* A value of a key, or of an item below it.
Own == <<>>
Set(key, item, name, value) == [key |-> key, item |-> item, name |-> name, value |-> value]
DeleteTree(key) == Set(key, Own, "tree", "tree")

Uninstall == [i \in DOMAIN OwnedKeys |-> DeleteTree(OwnedKeys[i])]

Lifted(menu) == menu.hoist /\ "free select" \in menu.fixed

\* The entries of a container, each with its place among the presets.  A folder's
\* background has no selection, and only one entry needs none.
Items(menu, container) ==
    LET Kept(f) == IF /\ f \in menu.fixed
                      /\ container = "items" \/ f = "start here"
                      /\ ~(Lifted(menu) /\ f = "free select")
                   THEN << <<0, f>> >> ELSE <<>>
        shown == IF Len(menu.presets) < MAX_PRESETS THEN Len(menu.presets) ELSE MAX_PRESETS
    IN  Kept("start here") \o Kept("free select") \o Kept("copy names")
            \o [k \in 1..shown |-> <<k, menu.presets[k]>>]

\* push_item, for each: the values of an entry, then what it starts.
Fill(menu, container) ==
    LET items == Items(menu, container)
    IN  [k \in 1..(IF Len(items) < 2 THEN 0 ELSE 2 * Len(items)) |->
            LET item == items[(k + 1) \div 2]
            IN  Set(container, item, IF k % 2 = 1 THEN "label" ELSE "command", item[2])]

\* A root of the menu: nothing, one entry itself, or the way to its container;
\* the marker last.
Root(menu, class) ==
    LET items == Items(menu, Container(class))
        mark == Set(class, Own, "marker", "1")
    IN  IF Len(items) = 0 THEN <<>>
        ELSE IF Len(items) = 1
        THEN <<Set(class, Own, "label", items[1][2]), Set(class, Own, "command", items[1][2]), mark>>
        ELSE <<Set(class, Own, "label", "RenameIt"), Set(class, Own, "submenu", Container(class)), mark>>

HoistedRoot(menu, class) ==
    IF ~Lifted(menu) THEN <<>>
    ELSE LET key == Hoisted(class)
         IN  <<Set(key, Own, "label", "free select"), Set(key, Own, "command", "free select"),
               Set(key, Own, "marker", "1")>>

Fills(menu) == Fill(menu, "items") \o Fill(menu, "items of background")
MenuRoots(menu) ==
    Root(menu, "files") \o Root(menu, "drives") \o Root(menu, "background")
        \o HoistedRoot(menu, "files") \o HoistedRoot(menu, "drives")

\* A bug: the roots are written before what they lead to.
RootsFirst(menu) == Uninstall \o MenuRoots(menu) \o Fills(menu)

Build(menu) == Uninstall \o Fills(menu) \o MenuRoots(menu)

-----------------------------------------------------------------------------
(* The registry. *)

Overwrites(step, v) ==
    v.key = step.key /\ (step.name = "tree" \/ (v.item = step.item /\ v.name = step.name))

Perform(values, step) ==
    {v \in values : ~Overwrites(step, v)} \cup (IF step.name = "tree" THEN {} ELSE {step})

Has(values, key, name) == \E v \in values : v.key = key /\ v.item = Own /\ v.name = name

IsRegistered(values) ==
    \E class \in Selections : Has(values, class, "marker") \/ Has(values, Hoisted(class), "marker")

Everything == [fixed |-> FixedEntries, presets |-> TRUE, hoist |-> TRUE]
ShellMenu(ticked, list) == [ticked EXCEPT !.presets = IF @ THEN list ELSE <<>>]

-----------------------------------------------------------------------------
(* Who writes it. *)

Writing(w) == desk[w].todo # <<>>
MayWrite(w) == Together \/ \A v \in Desks : ~Writing(v)

Closed == [at |-> "closed", menu |-> "unset", ticked |-> Everything, todo |-> <<>>]

MenuInit ==
    /\ registry = {} /\ listing \in PresetLists
    /\ saved = [menu |-> "unset", ticked |-> Everything] /\ offered \in BOOLEAN
    /\ desk = [w \in Desks |-> Closed]
    /\ half = FALSE /\ calm = Desks /\ edits = 0 /\ troubles = 0

\* A repair, never an install: nothing is written where there is no menu.
RewriteMenu(values, ticked, list) ==
    IF IsRegistered(values) THEN Build(ShellMenu(ticked, list)) ELSE <<>>

\* The menu an install offered, for a user who never chose; then the repair.
StartFrom(w) ==
    /\ desk[w].at = "closed" /\ MayWrite(w)
    /\ LET first == saved.menu = "unset" /\ offered /\ ~IsRegistered(registry)
       IN  desk' = [desk EXCEPT ![w] =
              [at |-> IF first THEN "first start" ELSE "open",
               menu |-> saved.menu, ticked |-> saved.ticked,
               todo |-> IF first THEN Build(ShellMenu(saved.ticked, listing))
                        ELSE RewriteMenu(registry, saved.ticked, listing)]]
    /\ calm' = calm \cup {w}
    /\ UNCHANGED <<registry, listing, saved, offered, half, edits, troubles>>

\* What follows a plan that is over.
Over(w, ok, values) ==
    LET d == desk[w]
    IN  desk' = [desk EXCEPT ![w] =
            CASE d.at = "first start" ->
                    [at |-> "open", menu |-> IF ok THEN "yes" ELSE d.menu, ticked |-> d.ticked,
                     todo |-> RewriteMenu(values, d.ticked, listing)]
              [] d.at = "tool" -> Closed
              [] OTHER -> [d EXCEPT !.todo = <<>>]]

Writes(w) ==
    /\ Writing(w)
    /\ LET step == Head(desk[w].todo)
           rest == Tail(desk[w].todo)
       IN  /\ registry' = Perform(registry, step)
           /\ IF rest # <<>> THEN desk' = [desk EXCEPT ![w].todo = rest] ELSE Over(w, TRUE, registry')
           /\ half' = (half /\ rest # <<>>)
    /\ UNCHANGED <<listing, saved, offered, calm, edits, troubles>>

\* A plan that would have written something, cut off.
CutOff(w) == half \/ desk[w].todo[Len(desk[w].todo)].name # "tree"

Refused(w) ==
    /\ Writing(w) /\ troubles < MaxTroubles
    /\ Over(w, FALSE, registry)
    /\ half' = CutOff(w)
    /\ calm' = calm \ {w} /\ troubles' = troubles + 1
    /\ UNCHANGED <<registry, listing, saved, offered, edits>>

Killed(w) ==
    /\ desk[w].at # "closed" /\ troubles < MaxTroubles
    /\ desk' = [desk EXCEPT ![w] = Closed]
    /\ half' = (half \/ (Writing(w) /\ CutOff(w)))
    /\ troubles' = troubles + 1
    /\ UNCHANGED <<registry, listing, saved, offered, calm, edits>>

\* The window's state is saved now and then, and at its end.
Saves(w) ==
    /\ desk[w].at = "open" /\ ~Writing(w)
    /\ saved' = [menu |-> desk[w].menu, ticked |-> desk[w].ticked]
    /\ \/ desk' = [desk EXCEPT ![w] = Closed]
       \/ UNCHANGED desk
    /\ UNCHANGED <<registry, listing, offered, half, calm, edits, troubles>>

-----------------------------------------------------------------------------
Acts(w) ==
    /\ desk[w].at = "open" /\ ~Writing(w) /\ MayWrite(w)
    /\ edits < MaxEdits /\ edits' = edits + 1
    /\ UNCHANGED <<registry, saved, offered, half, calm, troubles>>

\* The drawer saved, renamed or deleted a preset.
DrawerChanges(w) ==
    /\ Acts(w)
    /\ listing' \in PresetLists \ {listing}
    /\ desk' = [desk EXCEPT ![w].todo = RewriteMenu(registry, desk[w].ticked, listing')]

\* The box in Settings, which shows what the registry says; the choice stands
\* even where the write fails.
SetContextMenu(w) ==
    /\ Acts(w)
    /\ desk' = [desk EXCEPT ![w] =
          IF IsRegistered(registry) THEN [@ EXCEPT !.menu = "no", !.todo = Uninstall]
          ELSE [@ EXCEPT !.menu = "yes", !.todo = Build(ShellMenu(desk[w].ticked, listing))]]
    /\ UNCHANGED listing

\* Entries ticked and unticked; the last one cannot be.
TickEntries(w) ==
    /\ Acts(w) /\ IsRegistered(registry)
    /\ \E m \in Menus :
          /\ m # desk[w].ticked
          /\ m.fixed # {} \/ (m.presets /\ listing # <<>>)
          /\ desk' = [desk EXCEPT ![w].ticked = m, ![w].todo = Build(ShellMenu(m, listing))]
    /\ UNCHANGED listing

\* Another program adds or removes a preset; nobody rewrites the menu for it.
PresetsChange ==
    /\ edits < MaxEdits /\ edits' = edits + 1
    /\ listing' \in PresetLists \ {listing}
    /\ UNCHANGED <<registry, saved, offered, desk, half, calm, troubles>>

\* A run of the program that only writes the menu, and is over.
Tool(w, steps) ==
    /\ desk[w].at = "closed" /\ MayWrite(w)
    /\ edits < MaxEdits /\ edits' = edits + 1
    /\ desk' = [desk EXCEPT ![w].at = "tool", ![w].todo = steps]
    /\ UNCHANGED <<registry, listing, saved, offered, half, calm, troubles>>

InstallMenu(w) == Tool(w, Build(ShellMenu(Everything, listing)))

\* The uninstaller knows which copy the menu starts by the root's icon.
ReleaseContextMenu(w) ==
    /\ Has(registry, "files", "label") \/ Has(registry, Hoisted("files"), "label")
    /\ Tool(w, Uninstall)

MenuNext ==
    \/ \E w \in Desks :
          \/ StartFrom(w) \/ Writes(w) \/ Refused(w) \/ Killed(w) \/ Saves(w)
          \/ DrawerChanges(w) \/ SetContextMenu(w) \/ TickEntries(w)
          \/ InstallMenu(w) \/ ReleaseContextMenu(w)
    \/ PresetsChange

MenuSpec == MenuInit /\ [][MenuNext]_menuVars
-----------------------------------------------------------------------------
\* A root that is marked as whole is one entry, or leads to entries that start.
Works(values, key) ==
    LET inside == {v \in values : v.key = Container(key)}
    IN  Has(values, key, "marker") =>
            IF Has(values, key, "submenu")
            THEN /\ ~Has(values, key, "command")
                 /\ inside # {}
                 /\ \A v \in inside : \E c \in inside : c.item = v.item /\ c.name = "command"
            ELSE Has(values, key, "command")

(* What a right-click must never find: a root marked as whole whose submenu   *)
(* is empty, or holds an entry that does nothing, or that is a command and a  *)
(* submenu at once, whatever was cut off half way and written over later.     *)
MarkedWorks == \A key \in VerbRoots : Works(registry, key)

(* The comment of is_registered: a menu cut off half way reads as not          *)
(* installed and is repaired.  After a start that nothing refused, a user who  *)
(* asked for the menu is not left with a part of it.                           *)
InterruptedIsRepaired ==
    \A w \in Desks :
        (desk[w].at = "open" /\ ~Writing(w) /\ w \in calm /\ desk[w].menu = "yes") =>
            ~(half /\ registry # {})

\* The registry after each of some steps.
Ahead(values, steps) ==
    LET after[k \in 0..Len(steps)] ==
            IF k = 0 THEN values ELSE Perform(after[k - 1], steps[k])
    IN  after

WorksThrough(values, steps) ==
    \A k \in 0..Len(steps) : \A key \in VerbRoots : Works(Ahead(values, steps)[k], key)

IsList(s) == s \in Seq({s[i] : i \in 1..Len(s)})

\* Of a desk, what the plans it may yet make are made from.
DeskOK(d) ==
    /\ d = [at |-> d.at, menu |-> d.menu, ticked |-> d.ticked, todo |-> d.todo]
    /\ d.ticked \in Menus \cup {Everything} /\ IsList(d.todo)

\* What every step keeps: the plan in hand can go on, or stop, wherever it is.
MenuInv ==
    /\ MarkedWorks
    /\ listing \in PresetLists /\ saved.ticked \in Menus \cup {Everything}
    /\ desk = [w \in Desks |-> desk[w]]
    /\ \A w \in Desks : DeskOK(desk[w]) /\ WorksThrough(registry, desk[w].todo)
    /\ \A v, w \in Desks : Writing(v) /\ Writing(w) => v = w
=============================================================================
