-------------------------------- MODULE View --------------------------------
(***************************************************************************)
(* What the tiles of a page show, live or frozen: the instant each one     *)
(* shows (the gestures of chart.js, the buttons of app.js), the history of *)
(* a variable that the source keeps for the frozen ones (trim and setHold, *)
(* source-ws.js) and the two clocks of the loop of app.js, one that draws  *)
(* the active tab and one that tells the source what is still shown.       *)
(*                                                                         *)
(* One variable is shown by every tile; a sample is named by its instant,  *)
(* so that two samples never pass for one another.                         *)
(***************************************************************************)
EXTENDS Integers, FiniteSets

CONSTANTS
    Charts,     \* graphiques
    Tables,     \* tableaux
    Tabs,       \* tabs of the page
    TabOf,      \* the tab of each tile
    Windows,    \* durations a chart may show, windowS
    Horizon,    \* horizonS
    HoldMax,    \* CFG.holdMaxS
    Slack,      \* samples past the horizon that trim lets be
    Lag,        \* bound: how late a sample may arrive
    MaxT,       \* bound: the clock
    Live,       \* viewEnd, frozen: null
    Running,    \* the acquisition is not stopped
    Nothing     \* no value, no instant held

Instants == 0..MaxT
Tiles == Charts \cup Tables

VARIABLES
    clock,      \* brut(): the clock of the server
    halted,     \* arreteA: the instant the acquisition was stopped
    record,     \* history: every sample of this capture
    kept,       \* the samples the source still has
    hold,       \* holdT: the instant the source was told to keep
    active,     \* state.active
    view,       \* viewEnd of each chart, frozen of each table
    window,     \* windowS
    measuring,  \* a mode of measure is armed, or a measure placed
    told        \* history: since the source was told of the chart, frozen, no
                \* gesture moved it and no clock went back under its view

vars == <<clock, halted, record, kept, hold, active, view, window, measuring, told>>
source == <<clock, halted, record, kept, hold>>

Greatest(S) == CHOOSE x \in S : \A y \in S : y <= x
Least(S) == CHOOSE x \in S : \A y \in S : x <= y

running == halted = Running
now == IF running THEN clock ELSE halted

(***************************************************************************)
(* Reading the history.                                                    *)
(***************************************************************************)
InForce(samples, t) ==
    LET before == {s \in samples : s <= t} IN IF before = {} THEN Nothing ELSE Greatest(before)
Latest == InForce(kept, MaxT)
(* Variant: before the first sample kept, that sample.                     *)
valeurAOldest(t) ==
    IF kept # {} /\ InForce(kept, t) = Nothing THEN Least(kept) ELSE InForce(kept, t)
valeurA(t) == InForce(kept, t)

(* updateLive, majValeurs: what a tile writes for the variable.            *)
Reading(x) == IF view[x] # Live /\ now > view[x] THEN valeurA(view[x]) ELSE Latest

Start(c) == view[c] - window[c]
Plot(c) == {s \in kept : Start(c) <= s /\ s <= view[c]}

(***************************************************************************)
(* Keeping it.                                                             *)
(***************************************************************************)
Shown(x) == IF x \in Charts THEN Start(x) ELSE view[x]
(* Variant: only the tiles of the active tab are asked for.                *)
HoldActive ==
    LET frozen == {x \in Tiles : view[x] # Live /\ TabOf[x] = active}
    IN  IF frozen = {} THEN Nothing ELSE Least({Shown(x) : x \in frozen})
majRetenue ==
    LET frozen == {x \in Tiles : view[x] # Live}
    IN  IF frozen = {} THEN Nothing ELSE Least({Shown(x) : x \in frozen})

minT ==
    IF hold = Nothing THEN now - Horizon
    ELSE Least({now - Horizon, Greatest({hold, now - HoldMax})})
(* trim, after samples came.                                               *)
Trimmed(samples) ==
    LET cut == {t \in samples : t < minT}
    IN  IF Cardinality(cut) > Slack THEN samples \ cut ELSE samples

(***************************************************************************)
(* The source.                                                             *)
(***************************************************************************)
(* Nothing reads the clock of a stopped acquisition: bound, it stands.     *)
Tick ==
    /\ running
    /\ clock < MaxT
    /\ clock' = clock + 1
    /\ UNCHANGED <<halted, record, kept, hold, active, view, window, measuring, told>>

(* A stopped acquisition takes no sample.                                  *)
Sample ==
    /\ running
    /\ \E t \in (clock - Lag)..clock \cap Instants :
          /\ \A s \in kept : s < t
          /\ record' = record \cup {t}
          /\ kept' = Trimmed(kept \cup {t})
    /\ UNCHANGED <<clock, halted, hold, active, view, window, measuring, told>>

(* hello from a server that restarted: its clock is behind the samples.    *)
Restart ==
    /\ clock > 0
    /\ clock' = 0
    /\ IF \E s \in kept : s > clock' THEN record' = {} /\ kept' = {} ELSE UNCHANGED <<record, kept>>
    /\ UNCHANGED <<halted, hold, active, view, window, measuring, told>>

(***************************************************************************)
(* A chart goes live, or is moved.                                         *)
(***************************************************************************)
Measurable(v, h) == v # Live \/ h # Running
(* syncPauseUi: what is measured on a trace that moves again goes.         *)
Synced(v, h, m) == m /\ Measurable(v, h)

(* clampView: the end of the view, moved when it must be; the badge that   *)
(* says so (horizonAtteint) is left out.                                   *)
Reach == Greatest({Horizon, HoldMax})
Clamped(v, w) == Least({now, Greatest({v, Least({now - Reach + w, now})})})

Turned(c, v) ==
    /\ view' = [view EXCEPT ![c] = v]
    /\ measuring' = [measuring EXCEPT ![c] = Synced(v, halted, @)]
    /\ told' = [told EXCEPT ![c] = FALSE]

SetPaused(c) ==
    /\ Turned(c, IF view[c] = Live THEN now ELSE Live)
    /\ UNCHANGED <<source, active, window>>
GoLive(c) ==
    /\ Turned(c, Live)
    /\ UNCHANGED <<source, active, window>>

(* Dragging the trace: a view dragged to the present is live again.        *)
Pan(c) ==
    /\ TabOf[c] = active
    /\ \E v \in {Clamped(t, window[c]) : t \in Instants} : Turned(c, IF v = now THEN Live ELSE v)
    /\ UNCHANGED <<source, active, window>>

(* The wheel and the pinch keep the instant under the hand where it is.    *)
Zoom(c) ==
    /\ TabOf[c] = active
    /\ \E w \in Windows \ {window[c]} :
          /\ window' = [window EXCEPT ![c] = w]
          /\ IF view[c] = Live THEN UNCHANGED view
             ELSE LET end == view[c] + w - window[c]
                  IN  \E v \in Least({view[c], end})..Greatest({view[c], end}) :
                         view' = [view EXCEPT ![c] = Clamped(v, w)]
    /\ told' = [told EXCEPT ![c] = FALSE]
    /\ UNCHANGED <<source, active, measuring>>

(* The list of durations: the view is clamped when it is drawn.            *)
SelectWindow(c) ==
    /\ \E w \in Windows \ {window[c]} : window' = [window EXCEPT ![c] = w]
    /\ told' = [told EXCEPT ![c] = FALSE]
    /\ UNCHANGED <<source, active, view, measuring>>

(***************************************************************************)
(* Measures: a mode is armed, and given up with what it measured.          *)
(***************************************************************************)
SetMeasureMode(c) ==
    /\ Measurable(view[c], halted)
    /\ measuring' = [measuring EXCEPT ![c] = ~@]
    /\ UNCHANGED <<source, active, view, window, told>>

(***************************************************************************)
(* The bar, the tables, and the loop.                                      *)
(***************************************************************************)
SetTableFrozen(x) ==
    /\ view' = [view EXCEPT ![x] = IF @ = Live THEN now ELSE Live]
    /\ UNCHANGED <<source, active, window, measuring, told>>

(* pauseAllBtn: the tiles of the active tab, all the same way.             *)
PauseAll ==
    LET here == {x \in Tiles : TabOf[x] = active}
        v == IF \E x \in here : view[x] = Live THEN now ELSE Live
    IN  /\ here # {}
        /\ view' = [x \in Tiles |-> IF x \in here THEN v ELSE view[x]]
        /\ measuring' = [c \in Charts |-> IF c \in here THEN Synced(v, halted, measuring[c]) ELSE measuring[c]]
        /\ told' = [c \in Charts |-> told[c] /\ c \notin here]
        /\ UNCHANGED <<source, active, window>>

Stop ==
    /\ running
    /\ halted' = clock
    /\ UNCHANGED <<clock, record, kept, hold, active, view, window, measuring, told>>

(* A new capture: the history goes, every tile is live, measures go.       *)
StartCapture ==
    /\ ~running
    /\ halted' = Running
    /\ record' = {} /\ kept' = {}
    /\ view' = [x \in Tiles |-> Live]
    /\ measuring' = [c \in Charts |-> Synced(Live, Running, measuring[c])]
    /\ told' = [c \in Charts |-> FALSE]
    /\ UNCHANGED <<clock, hold, active, window>>

SwitchTab ==
    /\ active' \in Tabs \ {active}
    /\ UNCHANGED <<source, view, window, measuring, told>>

(* loop, 20 times a second: the charts of the active tab are drawn.        *)
Render ==
    LET drawn == {c \in Charts : TabOf[c] = active /\ view[c] # Live}
        end == [c \in drawn |-> Clamped(view[c], window[c])]
    IN  /\ view' = [x \in Tiles |-> IF x \in drawn THEN end[x] ELSE view[x]]
        /\ told' = [c \in Charts |-> told[c] /\ (c \in drawn => view[c] <= now)]
        /\ UNCHANGED <<source, active, window, measuring>>

(* loop, 5 times a second: the source is told, the values are written.     *)
LiveTick ==
    /\ hold' = majRetenue
    /\ told' = [c \in Charts |-> view[c] # Live]
    /\ UNCHANGED <<clock, halted, record, kept, active, view, window, measuring>>

Init ==
    /\ clock = 0 /\ halted = Running
    /\ record = {} /\ kept = {} /\ hold = Nothing
    /\ active \in Tabs
    /\ view = [x \in Tiles |-> Live]
    /\ window \in [Charts -> Windows]
    /\ measuring = [c \in Charts |-> FALSE]
    /\ told = [c \in Charts |-> FALSE]

Next ==
    \/ Tick \/ Sample \/ Restart
    \/ \E c \in Charts : \/ SetPaused(c) \/ GoLive(c) \/ Pan(c) \/ Zoom(c) \/ SelectWindow(c)
                         \/ SetMeasureMode(c)
    \/ \E x \in Tables : SetTableFrozen(x)
    \/ PauseAll \/ Stop \/ StartCapture \/ SwitchTab \/ Render \/ LiveTick

Spec == Init /\ [][Next]_vars

(***************************************************************************)
(* Properties                                                              *)
(***************************************************************************)
TypeOK ==
    /\ clock \in Instants /\ halted \in Instants \cup {Running}
    /\ record \subseteq Instants /\ kept \subseteq record /\ hold \in Int \cup {Nothing}
    /\ active \in Tabs
    /\ \A x \in Tiles : view[x] \in Int \cup {Live}
    /\ \A c \in Charts : /\ window[c] \in Windows
                         /\ measuring[c] \in BOOLEAN /\ told[c] \in BOOLEAN

(* Whatever was recorded or dropped since, a frozen tile writes the value  *)
(* that was in force at its instant in this capture, or no value at all,   *)
(* never that of another instant (DW.valeurA, chart.js; SPECS.md: values   *)
(* are read at an absolute time).                                          *)
NeverAnother ==
    \A x \in Tiles :
        view[x] # Live => Reading(x) \in {InForce(record, view[x]), Nothing}

(* Once the source was told of a frozen chart, the chart stands: until a   *)
(* gesture on it, and while what it shows is younger than the longest hold *)
(* and not ahead of the clock of a server that restarted, it shows the     *)
(* same instants and loses no sample of them, in whatever tab it is and    *)
(* whatever the other tiles, the clock and the source do (majRetenue and   *)
(* clampView against trim).                                                *)
Stands(c) ==
    /\ told[c] /\ told'[c]
    /\ clock' >= clock /\ view[c] <= now'
    /\ now' - Start(c) <= HoldMax
    => view'[c] = view[c] /\ Plot(c) \subseteq Plot(c)'
AllStand == \A c \in Charts : Stands(c)
FrozenStands == [][AllStand]_vars

(* A measure is on a trace that does not move: a frozen chart, or any      *)
(* chart while the acquisition is stopped (syncPauseUi, majMesurable).     *)
MeasureStands ==
    \A c \in Charts : measuring[c] => Measurable(view[c], halted)
=============================================================================
