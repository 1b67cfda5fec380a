------------------------------- MODULE MCPage -------------------------------
(***************************************************************************)
(* The modules of one page for TLC, which explores them side by side: a    *)
(* behaviour is one of the mosaic, of the tabs, of the views or of the     *)
(* scales, chosen at the start (`part`), and the other parts stay in their *)
(* initial state.                                                          *)
(***************************************************************************)
EXTENDS Scale, Sequences, TLC

CONSTANTS
  a, b, c, name1, tile1, None, Unnamed,
  ViewCharts, ViewTables, ViewTabs, TabOf, Windows,              \* View
  Horizon, HoldMax, Slack, Lag, MaxT, Live, Running, Nothing

VARIABLES
  part,
  tables, charts, rect, grip, ghost,                             \* Mosaic
  tabs, active, target, refs, armed, lost,                       \* Workspace
  clock, halted, record, kept, hold, front, view, window,
  measuring, told                                                \* View

Layout == <<[kind |-> "table", shows |-> [x \in {a} |-> name1]],
            [kind |-> "chart", shows |-> [x \in {a} |-> name1]]>>

\* One table and two charts on a grid of two columns.
Mo == INSTANCE Mosaic WITH
  Tables <- {a}, Charts <- {b, c}, Cols <- 2, MinW <- 1, MinH <- 1, MaxH <- 2,
  DefaultSize <- [table |-> [w |-> 2, h |-> 1], chart |-> [w |-> 1, h |-> 2]],
  Passes <- 6, Rows <- 7, Aims <- {0, 1, 2}

\* Two variables, two tabs, two tiles, which may both be charts.
Wo == INSTANCE Workspace WITH
  Addrs <- {a, b}, Names <- {name1}, MaxCharts <- 2, MaxSeries <- 1,
  Layouts <- {Layout}, MaxTabs <- 2, MaxTiles <- 2

\* A chart and a table in one tab, another tab beside.
ViewTabOf == [x \in {c, tile1} |-> 1]
Vi == INSTANCE View WITH
  Charts <- ViewCharts, Tables <- ViewTables, Tabs <- ViewTabs, active <- front

\* A sample arrives before the source has forgotten its instant.
ASSUME ViewAssumption ==
  /\ Windows \subseteq Nat /\ {Horizon, HoldMax, Slack, Lag, MaxT} \subseteq Nat
  /\ Lag <= Horizon
  /\ IsFiniteSet(ViewCharts) /\ IsFiniteSet(ViewTables) /\ ViewCharts \cap ViewTables = {}
  /\ Live \notin Int /\ Running \notin Int /\ Nothing \notin Int

\* Two curves, one of them a bit (Scale, extended).
PageUnit == [s \in {a, b} |-> IF s = a THEN "u" ELSE "bool"]
PageShows == {<<0, 0>>, <<1, 1>>}
PageHand == {<<0, 2>>}

mosaicVars == <<tables, charts, rect, grip, ghost>>
workspaceVars == <<tabs, active, target, refs, armed, lost>>
viewVars == <<clock, halted, record, kept, hold, front, view, window, measuring, told>>
scaleVars == <<series, axisMode, visible, data, axisState, byHand>>

PageInit ==
  /\ part \in {"mosaic", "workspace", "view", "scale"}
  /\ Mo!Init /\ Wo!Init /\ Vi!Init /\ Init
  /\ part # "view" => front = 1 /\ window[c] = 1

\* The bit follows its own scale, or is put on that of the other curve.
BitBeside == axisMode'[b] \in {AutoAxis, "u"}

PageNext ==
  /\ part' = part
  /\ \/ part = "mosaic" /\ Mo!Next /\ UNCHANGED <<workspaceVars, viewVars, scaleVars>>
     \/ part = "workspace" /\ Wo!Next /\ UNCHANGED <<mosaicVars, viewVars, scaleVars>>
     \/ part = "view" /\ Vi!Next /\ UNCHANGED <<mosaicVars, workspaceVars, scaleVars>>
     \/ part = "scale" /\ Next /\ BitBeside /\ UNCHANGED <<mosaicVars, workspaceVars, viewVars>>

PageSpec == PageInit /\ [][PageNext]_<<part, mosaicVars, workspaceVars, viewVars, scaleVars>>

\* A mosaic at rest has neither overlap nor hole, and a layout read back
\* settles at once (agencer, mosaic.js).
MosaicSettled == part = "mosaic" => Mo!TypeOK /\ Mo!Settled /\ Mo!ReadBack
\* No push moves the tile under the hand; it rises only as gravity makes it.
MosaicSteady == Mo!Steady
\* Subscriptions are counted as they are used, the destination is one of
\* those shown, and no move loses a variable.
WorkspaceSound ==
  part = "workspace" => Wo!TypeOK /\ Wo!RefsAreUses /\ Wo!TargetShown /\ Wo!NothingDropped
\* No gesture is forgotten by the session, and what is moved keeps its curve and
\* its name but in the named cases.
GesturesKept == Wo!EveryGestureSaved /\ Wo!KeepsHistory /\ Wo!NamesKept
\* A value shown is the value of its instant; a measure stands on its view.
ValuesOfTheirInstant ==
  part = "view" => Vi!TypeOK /\ Vi!NeverAnother /\ Vi!MeasureStands
\* What is frozen stays.
FrozenStands == Vi!FrozenStands
\* A scale covers what its curves show, unless it was set by hand; what was
\* set by hand stays.
ScalesRight == part = "scale" => TypeOK /\ AutoCovers /\ ManualKept
=============================================================================
