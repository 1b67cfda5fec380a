----------------------------- MODULE Workspace -----------------------------
(***************************************************************************)
(* The workspace of a page: its tabs, the tables and charts of each, the   *)
(* variables they show, and what every gesture on them does to the         *)
(* subscriptions, to the destination of the top bar and to the saving of   *)
(* the session (src/web/js/app.js, and the series of chart.js).            *)
(*                                                                         *)
(* Where a tile lies is Mosaic's matter, what a drag between two windows   *)
(* risks is Move's: here a drop and the removal it orders are one step.    *)
(***************************************************************************)
EXTENDS Naturals, Sequences, FiniteSets
LOCAL INSTANCE SequencesExt

CONSTANTS
    Addrs,      \* variables
    Names,      \* display names an operator may give
    Unnamed,    \* no display name: the label of the catalogue
    MaxCharts,  \* charts in a tab, CFG.maxCharts
    MaxSeries,  \* series in a chart, CFG.maxSeriesPerChart
    Layouts,    \* saved layouts: sequences of [kind, shows]
    MaxTabs,    \* bound: tabs open
    MaxTiles    \* bound: tiles open, all tabs together

Labels == Names \cup {Unnamed}
Contents == UNION {[S -> Labels] : S \in SUBSET Addrs}

VARIABLES
    tabs,       \* state.tabs: sequences of tiles [kind, n, shows]
    active,     \* position of state.active
    target,     \* the destination selected in the top bar
    refs,       \* what the source counts for each variable
    armed,      \* the timer that saves the session is running
    lost        \* history: what the last step lost of a variable it was not
                \* to remove: nothing, its curve, or the variable itself

vars == <<tabs, active, target, refs, armed, lost>>

(* The number of a tile names it in the list of destinations: the code     *)
(* numbers tables per tab and charts per page and never uses a number      *)
(* again; the smallest free one stands for it, a number being nowhere but  *)
(* in its tile and in the destination.                                     *)
Id(tile) == <<tile.kind, tile.n>>
First(S) == CHOOSE k \in S : \A l \in S : k <= l
OfKind(tab, kind) == {k \in DOMAIN tab : tab[k].kind = kind}
NumbersIn(tab, kind) == {tab[k].n : k \in OfKind(tab, kind)}
Numbers(ts, i, kind) ==
    IF kind = "table" THEN NumbersIn(ts[i], kind)
    ELSE UNION {NumbersIn(ts[j], kind) : j \in DOMAIN ts}
FreeNumber(ts, i, kind) ==
    LET used == Numbers(ts, i, kind) IN First((1..(MaxTiles + 1)) \ used)

Places(ts) == UNION {{<<i, k>> : k \in DOMAIN ts[i]} : i \in DOMAIN ts}
ShownIn(tab, a) == \E k \in DOMAIN tab : a \in DOMAIN tab[k].shows
Shown(ts) == {a \in Addrs : \E i \in DOMAIN ts : ShownIn(ts[i], a)}
RoomForTile(ts) == Cardinality(Places(ts)) < MaxTiles

(***************************************************************************)
(* Changes of a page p: its tabs, the counts, and the channels it let go.  *)
(***************************************************************************)
Page == [tabs |-> tabs, refs |-> refs, cut |-> {}]

Acquired(p, S) == [p EXCEPT !.refs = [a \in Addrs |-> @[a] + IF a \in S THEN 1 ELSE 0]]
Released(p, S) ==
    [p EXCEPT !.refs = [a \in Addrs |-> IF a \in S /\ @[a] > 0 THEN @[a] - 1 ELSE @[a]],
              !.cut = @ \cup {a \in S : p.refs[a] = 1}]

Put(f, g) == [a \in DOMAIN f \cup DOMAIN g |-> IF a \in DOMAIN g THEN g[a] ELSE f[a]]
Without(f, S) == [a \in DOMAIN f \ S |-> f[a]]

(* addToTable, addSeries: a tile shows a variable once, a chart so many.   *)
Takes(tile, a) ==
    /\ a \notin DOMAIN tile.shows
    /\ tile.kind = "chart" => Cardinality(DOMAIN tile.shows) < MaxSeries
Added(p, i, k, f) ==
    Acquired([p EXCEPT !.tabs[i][k].shows = Put(@, f)], DOMAIN f)
Removed(p, i, k, S) ==
    Released([p EXCEPT !.tabs[i][k].shows = Without(@, S)], S)

(* createTable, createChart: the new tile is the last of its tab.          *)
Created(p, i, kind) ==
    [p EXCEPT !.tabs[i] = Append(@, [kind |-> kind, n |-> FreeNumber(p.tabs, i, kind),
                                     shows |-> [a \in {} |-> Unnamed]])]
Filled(p, i, kind, f) ==
    LET q == Created(p, i, kind) IN Added(q, i, Len(q.tabs[i]), f)

(* Variant: the tile goes, its subscriptions stay.                         *)
ClosedHeld(p, i, k) ==
    [p EXCEPT !.tabs[i] = [l \in 1..(Len(@) - 1) |-> IF l < k THEN @[l] ELSE @[l + 1]]]
(* removeTable, removeChart: the subscriptions are released first.         *)
Closed(p, i, k) ==
    LET q == Removed(p, i, k, DOMAIN p.tabs[i][k].shows)
    IN  [q EXCEPT !.tabs[i] = [l \in 1..(Len(@) - 1) |-> IF l < k THEN @[l] ELSE @[l + 1]]]

RoomForKind(tab, kind) == kind = "chart" => Cardinality(OfKind(tab, "chart")) < MaxCharts

(* defaultTable: the first table of the tab, made when there is none.      *)
WithTable(p, i) == IF OfKind(p.tabs[i], "table") = {} THEN Created(p, i, "table") ELSE p
DefaultTable(p, i) == First(OfKind(p.tabs[i], "table"))

(***************************************************************************)
(* The destination of the top bar.                                         *)
(***************************************************************************)
NewTableOption == <<"newtable", 0>>
NewChartOption == <<"new", 0>>
Options(tab) == {Id(tab[k]) : k \in DOMAIN tab}
DefaultTarget(tab) ==
    IF tab = <<>> THEN NewTableOption
    ELSE LET tables == OfKind(tab, "table")
         IN  Id(tab[First(IF tables # {} THEN tables ELSE DOMAIN tab)])
refreshTargets(tab) == IF target \in Options(tab) THEN target ELSE DefaultTarget(tab)

LastId(p, i) == Id(p.tabs[i][Len(p.tabs[i])])

(* What a step leaves: the page p, the tab in view, the destination.  A    *)
(* variable shown before and after, whose channel was let go in between,   *)
(* has lost its curve.                                                     *)
Restarted(p) == \E a \in p.cut : a \in Shown(tabs) /\ a \in Shown(p.tabs)
Become(p, who, aim) ==
    /\ tabs' = p.tabs /\ refs' = p.refs
    /\ active' = who /\ target' = aim
Leave(p, who, aim) ==
    /\ Become(p, who, aim)
    /\ lost' = IF ~(Shown(tabs) \subseteq Shown(p.tabs)) THEN "variable"
               ELSE IF Restarted(p) THEN "curve" ELSE "nothing"
LeaveRemoving(p, who, aim) ==
    /\ Become(p, who, aim)
    /\ lost' = IF Restarted(p) THEN "curve" ELSE "nothing"

onChange == armed' = TRUE
Refreshing(p) == Leave(p, active, refreshTargets(p.tabs[active]))

Init ==
    /\ tabs = <<<<>>>> /\ active = 1 /\ target = NewTableOption
    /\ refs = [a \in Addrs |-> 0] /\ armed = TRUE /\ lost = "nothing"

Here == tabs[active]

(***************************************************************************)
(* Tabs.                                                                   *)
(***************************************************************************)
NewTab ==
    /\ Len(tabs) < MaxTabs
    /\ Leave([Page EXCEPT !.tabs = Append(@, <<>>)], Len(tabs) + 1, NewTableOption)
    /\ onChange

(* createTab with a saved layout: a tab of its own, tile after tile; the    *)
(* charts beyond the limit are left out.                                   *)
Opened(p, i, lay) ==
    FoldLeft(LAMBDA q, tile : IF RoomForKind(q.tabs[i], tile.kind)
                              THEN Filled(q, i, tile.kind, tile.shows) ELSE q,
             p, lay)
OpenLayout(lay) ==
    LET p == Opened([Page EXCEPT !.tabs = Append(@, <<>>)], Len(tabs) + 1, lay)
    IN  /\ Len(tabs) < MaxTabs /\ Cardinality(Places(p.tabs)) <= MaxTiles
        /\ Leave(p, Len(p.tabs), DefaultTarget(p.tabs[Len(p.tabs)]))
        /\ onChange

switchTab(i) ==
    /\ i # active
    /\ Leave(Page, i, refreshTargets(tabs[i]))
    /\ UNCHANGED armed

(* closeTab: the last tab is replaced by an empty one, the tab before the  *)
(* closed one comes into view.  Only the removal of a table rebuilds the   *)
(* destinations when another tab is in view.                               *)
Emptied(p, i) ==
    LET uses(a) == Cardinality({k \in DOMAIN p.tabs[i] : a \in DOMAIN p.tabs[i][k].shows})
    IN  [tabs |-> [p.tabs EXCEPT ![i] = <<>>],
         refs |-> [a \in Addrs |-> p.refs[a] - uses(a)],
         cut  |-> p.cut \cup {a \in Addrs : uses(a) > 0 /\ p.refs[a] = uses(a)}]
closeTab(i) ==
    LET p == Emptied(Page, i)
        left == [j \in 1..(Len(tabs) - 1) |-> p.tabs[IF j < i THEN j ELSE j + 1]]
        rest == [p EXCEPT !.tabs = IF left = <<>> THEN <<<<>>>> ELSE left]
    IN  /\ IF i = active
           THEN LET next == IF i = 1 THEN 1 ELSE i - 1
                IN  LeaveRemoving(rest, next, DefaultTarget(rest.tabs[next]))
           ELSE LeaveRemoving(rest, IF i < active THEN active - 1 ELSE active,
                      IF OfKind(tabs[i], "table") # {} THEN refreshTargets(Here) ELSE target)
        /\ onChange

(***************************************************************************)
(* The top bar: destinations, additions, forcing.                          *)
(***************************************************************************)
(* Choosing "new table" or "new chart" in the list makes the tile at once; *)
(* at the limit of charts nothing is made and the choice stays.            *)
NewTable ==
    LET p == Created(Page, active, "table")
    IN  /\ RoomForTile(tabs)
        /\ Leave(p, active, LastId(p, active))
        /\ onChange
NewChart ==
    LET p == Created(Page, active, "chart")
    IN  IF RoomForKind(Here, "chart")
        THEN RoomForTile(tabs) /\ Leave(p, active, LastId(p, active)) /\ onChange
        ELSE Leave(Page, active, NewChartOption) /\ UNCHANGED armed

setCible(k) ==
    /\ Leave(Page, active, Id(Here[k]))
    /\ UNCHANGED armed

(* addVariable: in the tile that is the destination, in a new table when   *)
(* the tab has no tile.  ("new" stays selected at the limit of charts      *)
(* only, where it adds nothing.)                                           *)
addVariable(a) ==
    /\ \/ \E k \in DOMAIN Here :
            /\ target = Id(Here[k]) /\ Takes(Here[k], a)
            /\ Leave(Added(Page, active, k, [x \in {a} |-> Unnamed]), active, target)
       \/ LET p == Filled(Page, active, "table", [x \in {a} |-> Unnamed])
          IN  /\ target = NewTableOption /\ RoomForTile(tabs)
              /\ Leave(p, active, LastId(p, active))
    /\ onChange

(* forceVariable: a variable the tab does not show enters its first table; *)
(* the list of destinations is built again only if that table is new.      *)
forceVariable(a) ==
    LET p == WithTable(Page, active)
    IN  /\ ~ShownIn(Here, a)
        /\ Cardinality(Places(p.tabs)) <= MaxTiles
        /\ Leave(Added(p, active, DefaultTable(p, active), [x \in {a} |-> Unnamed]), active,
                 IF p = Page THEN target ELSE refreshTargets(p.tabs[active]))
        /\ UNCHANGED armed

(* openVarPicker, "Ajouter": the variables checked, as far as there is room. *)
AddPicked(k, S) ==
    /\ S # {} /\ S \cap DOMAIN Here[k].shows = {}
    /\ Here[k].kind = "chart" => Cardinality(S \cup DOMAIN Here[k].shows) <= MaxSeries
    /\ Refreshing(Added(Page, active, k, [x \in S |-> Unnamed]))
    /\ onChange

(***************************************************************************)
(* Removals.  A tile opened in a new window, or accepted by another one,   *)
(* leaves this page by the same calls.                                     *)
(***************************************************************************)
removeEntry(k, a) ==
    /\ a \in DOMAIN Here[k].shows
    /\ LeaveRemoving(Removed(Page, active, k, {a}), active, target)
    /\ onChange
(* Variant: the emptied table is not saved.                                *)
ClearTableUnsaved(k) ==
    /\ Here[k].kind = "table" /\ Here[k].shows # <<>>
    /\ LeaveRemoving(Removed(Page, active, k, DOMAIN Here[k].shows), active, target)
    /\ UNCHANGED armed
ClearTable(k) ==
    /\ Here[k].kind = "table" /\ Here[k].shows # <<>>
    /\ LeaveRemoving(Removed(Page, active, k, DOMAIN Here[k].shows), active, target)
    /\ onChange
CloseTile(k) ==
    /\ LET p == Closed(Page, active, k)
       IN  LeaveRemoving(p, active, refreshTargets(p.tabs[active]))
    /\ onChange

(***************************************************************************)
(* Moves and copies within the page.                                       *)
(***************************************************************************)
(* moveTableToTab removes the table, then makes it again in the other tab; *)
(* moveChartToTab makes the chart first, and keeps it when it cannot.      *)
moveTableToTab(k, j) ==
    /\ Here[k].kind = "table" /\ j # active
    /\ Refreshing(Filled(Closed(Page, active, k), j, "table", Here[k].shows))
    /\ onChange
moveChartToTab(k, j) ==
    /\ Here[k].kind = "chart" /\ j # active /\ RoomForKind(tabs[j], "chart")
    /\ Refreshing(Closed(Filled(Page, j, "chart", Here[k].shows), active, k))
    /\ onChange

(* The copy of a table becomes the destination, the copy of a chart not.   *)
Duplicate(k) ==
    LET p == Filled(Page, active, Here[k].kind, Here[k].shows)
    IN  /\ RoomForTile(tabs) /\ RoomForKind(Here, Here[k].kind)
        /\ Leave(p, active,
                 IF Here[k].kind = "table" THEN LastId(p, active)
                 ELSE refreshTargets(p.tabs[active]))
        /\ onChange

(* "Copier vers" of the menu of a series: nothing arms the saving.         *)
CopySeries(k, a, l) ==
    /\ Here[k].kind = "chart" /\ Here[l].kind = "chart" /\ k # l
    /\ a \in DOMAIN Here[k].shows /\ Takes(Here[l], a)
    /\ Leave(Added(Page, active, l, [x \in {a} |-> Here[k].shows[a]]), active, target)
    /\ UNCHANGED armed

(***************************************************************************)
(* Drops: receiveWidget, then the removal its acceptance orders, unless    *)
(* the control key makes it a copy.                                        *)
(***************************************************************************)
(* A tile dropped on another tab: a chart leaves its tab, a table stays    *)
(* there empty.  An empty table cannot be dragged.                         *)
DropTile(k, j, copy) ==
    LET tile == Here[k]
        p == Filled(Page, j, tile.kind, tile.shows)
        gone == IF tile.kind = "chart" THEN Closed(p, active, k)
                ELSE Removed(p, active, k, DOMAIN tile.shows)
    IN  /\ j # active /\ RoomForTile(tabs) /\ RoomForKind(tabs[j], tile.kind)
        /\ tile.kind = "table" => tile.shows # <<>>
        /\ Refreshing(IF copy THEN p ELSE gone)
        /\ onChange

(* A variable dropped on tile l of the tab in view, or (l = 0) on tab j,   *)
(* whose first table takes it.                                             *)
Lands(p, j, l, a, name) ==
    LET q == IF l = 0 THEN WithTable(p, j) ELSE p
        m == IF l = 0 THEN DefaultTable(q, j) ELSE l
    IN  [page |-> Added(q, j, m, [x \in {a} |-> name]),
         taken |-> Takes(q.tabs[j][m], a) /\ Cardinality(Places(q.tabs)) <= MaxTiles]
Spots == {<<j, 0>> : j \in DOMAIN tabs} \cup {<<active, l>> : l \in DOMAIN Here}

(* What travels with a row of a table has no name, with a series it has.   *)
NameCarried(tile, a) == IF tile.kind = "table" THEN Unnamed ELSE tile.shows[a]
DropVariable(k, a, spot, copy) ==
    LET landed == Lands(Page, spot[1], spot[2], a, NameCarried(Here[k], a))
    IN  /\ a \in DOMAIN Here[k].shows /\ landed.taken
        /\ Refreshing(IF copy THEN landed.page ELSE Removed(landed.page, active, k, {a}))
        /\ onChange

(* The same from another window, which removes on its side.                *)
ReceiveVariable(a, name, spot) ==
    LET landed == Lands(Page, spot[1], spot[2], a, name)
    IN  /\ landed.taken
        /\ Refreshing(landed.page)
        /\ onChange
ReceiveTile(kind, shows, j) ==
    /\ RoomForTile(tabs) /\ RoomForKind(tabs[j], kind)
    /\ kind = "table" => shows # <<>>
    /\ kind = "chart" => Cardinality(DOMAIN shows) <= MaxSeries
    /\ Refreshing(Filled(Page, j, kind, shows))
    /\ onChange

(***************************************************************************)
(* Names, and the saving of the session.                                   *)
(***************************************************************************)
(* From this window or announced by another one: every tab takes the name. *)
Renamed(ts, a, name) ==
    [i \in DOMAIN ts |-> [k \in DOMAIN ts[i] |->
        [ts[i][k] EXCEPT !.shows = [x \in DOMAIN @ |-> IF x = a THEN name ELSE @[x]]]]]
renameVariable(a, name) ==
    /\ Refreshing([Page EXCEPT !.tabs = Renamed(@, a, name)])
    /\ onChange

SaveSession ==
    /\ armed /\ armed' = FALSE /\ lost' = "nothing"
    /\ UNCHANGED <<tabs, active, target, refs>>

Gesture(k) ==
    \/ setCible(k) \/ CloseTile(k) \/ ClearTable(k) \/ Duplicate(k)
    \/ \E S \in SUBSET Addrs : AddPicked(k, S)
    \/ \E a \in Addrs : removeEntry(k, a)
    \/ \E a \in Addrs, l \in DOMAIN Here : CopySeries(k, a, l)
    \/ \E j \in DOMAIN tabs : moveTableToTab(k, j) \/ moveChartToTab(k, j)
    \/ \E j \in DOMAIN tabs, copy \in BOOLEAN : DropTile(k, j, copy)
    \/ \E a \in Addrs, spot \in Spots, copy \in BOOLEAN : DropVariable(k, a, spot, copy)

Next ==
    \/ NewTab \/ NewTable \/ NewChart \/ SaveSession
    \/ \E lay \in Layouts : OpenLayout(lay)
    \/ \E i \in DOMAIN tabs : switchTab(i) \/ closeTab(i)
    \/ \E k \in DOMAIN Here : Gesture(k)
    \/ \E a \in Addrs : addVariable(a) \/ forceVariable(a)
    \/ \E a \in Addrs, name \in Labels : renameVariable(a, name)
    \/ \E a \in Addrs, name \in Labels, spot \in Spots : ReceiveVariable(a, name, spot)
    \/ \E kind \in {"table", "chart"}, shows \in Contents, j \in DOMAIN tabs :
          ReceiveTile(kind, shows, j)

Spec == Init /\ [][Next]_vars

(***************************************************************************)
(* Properties.                                                             *)
(***************************************************************************)
Tiles == [kind : {"table", "chart"}, n : 1..(MaxTiles + 1), shows : Contents]
(* Every tab holds well-formed tiles within the limits of charts and       *)
(* series, and the counts are numbers.                                     *)
TypeOK ==
    /\ \A i \in DOMAIN tabs :
          /\ \A k \in DOMAIN tabs[i] :
                /\ tabs[i][k] \in Tiles
                /\ tabs[i][k].kind = "chart" =>
                      Cardinality(DOMAIN tabs[i][k].shows) <= MaxSeries
          /\ Cardinality(OfKind(tabs[i], "chart")) <= MaxCharts
    /\ active \in DOMAIN tabs /\ refs \in [Addrs -> Nat]
    /\ armed \in BOOLEAN /\ lost \in {"nothing", "curve", "variable"}

(* The source counts exactly the tiles that show a variable, in all tabs:  *)
(* no gesture leaves a subscription behind, none takes one from another    *)
(* tile.  (acquire and release of app.js:60-64)                            *)
RefsAreUses ==
    \A a \in Addrs :
        refs[a] = Cardinality({p \in Places(tabs) : a \in DOMAIN tabs[p[1]][p[2]].shows})

(* The destination of the top bar is always a tile of the tab in view, or  *)
(* one of the two actions; "new chart" stays selected only where no chart  *)
(* can be made, "new table" where there is no tile.                        *)
TargetShown ==
    \/ target \in Options(Here)
    \/ target = NewChartOption /\ ~RoomForKind(Here, "chart")
    \/ target = NewTableOption /\ Here = <<>>

(* A variable leaves the page by a removal, or by closing its tab: a move, *)
(* a copy, a drop, a renaming keeps every variable in view, also when the  *)
(* destination is full. (app.js:1237 "jamais de perte")                    *)
NothingDropped == lost # "variable"

(* Every gesture that changes what is shown arms the saving of the         *)
(* session, but two: "Copier vers", and the variable that forcing brings   *)
(* into a table.  What they add is missing after a reload if nothing else  *)
(* is done. (docs/SPECS.md:451 "sauvegardé en continu")                    *)
EveryGestureSaved ==
    [][tabs' # tabs =>
        \/ armed'
        \/ \E a \in Addrs : forceVariable(a)
        \/ \E k, l \in DOMAIN Here, a \in Addrs : CopySeries(k, a, l)]_vars

(* A variable shown before and after a step keeps its curve, unless the    *)
(* step moves a table to another tab: this one closes the table before it  *)
(* makes it again, and the source forgets the curves that no other tile    *)
(* shows. (docs/SPECS.md:81-83 "rien n'est perdu en changeant d'onglet")   *)
KeepsHistory ==
    [][lost' = "curve" => \E k \in DOMAIN Here, j \in DOMAIN tabs : moveTableToTab(k, j)]_vars

Removal ==
    \/ \E i \in DOMAIN tabs : closeTab(i)
    \/ \E k \in DOMAIN Here :
          CloseTile(k) \/ ClearTable(k) \/ \E a \in Addrs : removeEntry(k, a)

(* A name given to a variable stays on the page until the variable is      *)
(* renamed or removed, but for the row of a table moved elsewhere: what    *)
(* travels with it has no name. (docs/SPECS.md:92-94 "avec sa              *)
(* configuration")                                                         *)
NamesOf(ts, a) == {tile.shows[a] : tile \in
    {t \in UNION {{ts[i][k] : k \in DOMAIN ts[i]} : i \in DOMAIN ts} : a \in DOMAIN t.shows}}
    \ {Unnamed}
RowMoved ==
    \E k \in DOMAIN Here, a \in Addrs, spot \in Spots :
        Here[k].kind = "table" /\ DropVariable(k, a, spot, FALSE)
NamesKept ==
    [][tabs' # tabs =>
        \/ \A a \in Addrs : NamesOf(tabs, a) \subseteq NamesOf(tabs', a)
        \/ Removal \/ RowMoved
        \/ \E a \in Addrs, name \in Labels : renameVariable(a, name)]_vars

(* One name for a variable, everywhere on the page. (app.js:525-531)       *)
OneName ==
    \A p, q \in Places(tabs) :
        \A a \in DOMAIN tabs[p[1]][p[2]].shows \cap DOMAIN tabs[q[1]][q[2]].shows :
            tabs[p[1]][p[2]].shows[a] = tabs[q[1]][q[2]].shows[a]
=============================================================================
