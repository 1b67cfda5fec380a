------------------------------- MODULE Scale -------------------------------
(***************************************************************************)
(* The vertical scales of a chart: which curves share one, how an          *)
(* automatic scale follows what its curves show, and what a scale set by   *)
(* hand survives (computeGroups and the scale menus of chart.js).          *)
(*                                                                         *)
(* The values a curve shows, its offset included, are an interval of small *)
(* numbers, any at each drawing: samples came, the window moved, the curve *)
(* was shifted. A range <<l, h>> covers the values from l to h - 1, the    *)
(* margin of the code included.                                            *)
(***************************************************************************)
EXTENDS Integers, FiniteSets

CONSTANTS
    Curves,     \* the variables of the chart
    Bits,       \* those that are bits
    UnitOf,     \* the scale a curve takes by itself: its unit, or "bool"
    Top,        \* bound: values
    Shows,      \* bound: ranges of values a curve may show
    HandRanges, \* bound: ranges set by hand
    AutoAxis,   \* axisMode 'auto'
    Empty       \* a curve that shows no sample

Ranges == {r \in (0..(Top + 1)) \X (0..(Top + 1)) : r[1] < r[2]}
(* A curve's own scale, 'solo:<addr>', is named by the curve.              *)
Keys == Curves \cup {UnitOf[s] : s \in Curves}

ASSUME ScaleAssumption ==
    /\ Top \in Nat /\ IsFiniteSet(Curves)
    /\ Shows \subseteq {d \in (0..Top) \X (0..Top) : d[1] <= d[2]}
    /\ HandRanges \subseteq Ranges /\ Empty \notin Int \X Int
    /\ AutoAxis \notin Keys

VARIABLES
    series,     \* the curves of the chart
    axisMode,   \* AutoAxis, or the scale chosen: its own, or another
    visible,    \* the curves that are drawn
    data,       \* what each curve showed when it was drawn, nothing done since
    axisState,  \* the scales: mode, cur, snap, shrinking
    byHand      \* history: the ranges set by hand and not given up since

vars == <<series, axisMode, visible, data, axisState, byHand>>

Least(S) == CHOOSE x \in S : \A y \in S : x <= y
Greatest(S) == CHOOSE x \in S : \A y \in S : y <= x
Put(f, k, x) == [l \in DOMAIN f \cup {k} |-> IF l = k THEN x ELSE f[l]]
Only(f, S) == [k \in DOMAIN f \cap S |-> f[k]]

axisKey(s) == IF axisMode[s] = AutoAxis THEN UnitOf[s] ELSE axisMode[s]
Group(k) == {s \in series \cap visible : axisKey(s) = k}
Hull(S, f) ==
    LET full == {s \in S : f[s] # Empty}
    IN  IF full = {} THEN Empty
        ELSE <<Least({f[s][1] : s \in full}), Greatest({f[s][2] : s \in full})>>
Covers(r, d) == d = Empty \/ (r[1] <= d[1] /\ d[2] < r[2])

fitRange(d) == IF d = Empty THEN <<0, 1>> ELSE <<d[1], d[2] + 1>>
Union(q, r) == <<Least({q[1], r[1]}), Greatest({q[2], r[2]})>>
(* Ranges on the way from q to the narrower r.                             *)
Between(q, r) == {x \in Ranges : q[1] <= x[1] /\ x[1] <= r[1] /\ r[2] <= x[2] /\ x[2] <= q[2]}
(* Occupancy below the threshold: half the scale at most.                  *)
Sparse(r, d) == d # Empty /\ 2 * (1 + d[2] - d[1]) <= r[2] - r[1]

(***************************************************************************)
(* computeGroups.                                                          *)
(***************************************************************************)
NewAxis == [mode |-> "auto", cur |-> Empty, snap |-> TRUE, shrinking |-> FALSE]
At(k) == IF k \in DOMAIN axisState THEN axisState[k] ELSE NewAxis
Fitted(st, d) == [st EXCEPT !.cur = fitRange(d), !.snap = FALSE, !.shrinking = FALSE]
Out(r, d) == ~Covers(r, d)
(* The states an automatic scale may take when it is drawn over d; how     *)
(* long it has been sparse is any length.                                  *)
Followed(st, d) ==
    IF st.cur = Empty \/ st.snap THEN {Fitted(st, d)}
    ELSE IF Out(st.cur, d)
    THEN {[st EXCEPT !.cur = Union(@, fitRange(d)), !.shrinking = FALSE]}
    ELSE IF st.shrinking
    THEN {[st EXCEPT !.cur = r] : r \in Between(st.cur, fitRange(d))}
            \cup {[st EXCEPT !.cur = fitRange(d), !.shrinking = FALSE]}
    ELSE IF Sparse(st.cur, d)
    THEN {st, [st EXCEPT !.shrinking = TRUE]}
    ELSE {st}
(* A scale of bits is as high as its bits; one set by hand stays.          *)
Drawn(k, f) ==
    LET st == At(k)
        d == Hull(Group(k), f)
    IN  IF st.mode = "manual" THEN {st}
        ELSE IF Group(k) \subseteq Bits THEN {[st EXCEPT !.cur = fitRange(d), !.shrinking = FALSE]}
        ELSE Followed(st, d)

(* Variant: the scales of hidden curves go.                                *)
validKeysVisible == {axisKey(s) : s \in series \cap visible}
(* The scales that are kept: those of the curves, hidden ones included.    *)
validKeys == {axisKey(s) : s \in series}

Render ==
    \E f \in [series \cap visible -> Shows \cup {Empty}] :
        LET groups == {axisKey(s) : s \in series \cap visible}
            next == [k \in groups |-> Drawn(k, f)]
        IN  /\ \E g \in [groups -> UNION {next[k] : k \in groups}] :
                  /\ \A k \in groups : g[k] \in next[k]
                  /\ axisState' = [k \in (groups \cup DOMAIN axisState) \cap validKeys |->
                                      IF k \in groups THEN g[k] ELSE axisState[k]]
            /\ data' = [s \in Curves |-> IF s \in DOMAIN f THEN f[s] ELSE Empty]
            /\ byHand' = Only(byHand, {axisKey(s) : s \in series})
            /\ UNCHANGED <<series, axisMode, visible>>

(***************************************************************************)
(* What the operator and the values do.                                    *)
(***************************************************************************)
NothingDrawn == [s \in Curves |-> Empty]

(* By hand from now on, in the window of a scale, for it or for all, or by *)
(* a drag or the wheel on it.                                              *)
setAxisRange(S, r) ==
    /\ S # {}
    /\ axisState' = [k \in DOMAIN axisState |->
                        IF k \in S THEN [axisState[k] EXCEPT !.mode = "manual", !.cur = r] ELSE axisState[k]]
    /\ byHand' = [k \in DOMAIN byHand \cup S |-> IF k \in S THEN r ELSE byHand[k]]
    /\ data' = NothingDrawn
    /\ UNCHANGED <<series, axisMode, visible>>

(* The automatic range again, of one scale or of all.                      *)
resetAxes(S) ==
    /\ S # {}
    /\ axisState' = [k \in DOMAIN axisState |->
                        IF k \in S THEN [axisState[k] EXCEPT !.mode = "auto", !.snap = TRUE] ELSE axisState[k]]
    /\ byHand' = Only(byHand, Keys \ S)
    /\ data' = NothingDrawn
    /\ UNCHANGED <<series, axisMode, visible>>

setSeriesVisible(s) ==
    /\ s \in series
    /\ visible' = IF s \in visible THEN visible \ {s} ELSE visible \cup {s}
    /\ data' = NothingDrawn
    /\ UNCHANGED <<series, axisMode, axisState, byHand>>
setToutesVisibles ==
    /\ visible' = (visible \ series) \cup IF series \cap visible = {} THEN series ELSE {}
    /\ data' = NothingDrawn
    /\ UNCHANGED <<series, axisMode, axisState, byHand>>

(* The menu of a curve: its unit's scale, its own, that of a visible one.  *)
ChooseAxis(s) ==
    /\ s \in series
    /\ axisMode' \in {[axisMode EXCEPT ![s] = m] :
                         m \in {AutoAxis, s} \cup {axisKey(o) : o \in (series \cap visible) \ {s}}}
    /\ data' = NothingDrawn
    /\ UNCHANGED <<series, visible, axisState, byHand>>

addSeries(s) ==
    /\ s \notin series
    /\ series' = series \cup {s}
    /\ visible' = visible \cup {s}
    /\ data' = NothingDrawn
    /\ UNCHANGED <<axisMode, axisState, byHand>>
removeSeries(s) ==
    /\ s \in series
    /\ series' = series \ {s}
    /\ visible' = visible \ {s}
    /\ axisMode' = [axisMode EXCEPT ![s] = AutoAxis]
    /\ data' = NothingDrawn
    /\ UNCHANGED <<axisState, byHand>>

Init ==
    /\ series = {} /\ visible = {}
    /\ axisMode = [s \in Curves |-> AutoAxis]
    /\ data = NothingDrawn
    /\ axisState = [k \in {} |-> NewAxis]
    /\ byHand = [k \in {} |-> <<0, 1>>]

Next ==
    \/ Render \/ setToutesVisibles
    \/ \E S \in {{k} : k \in DOMAIN axisState} \cup {DOMAIN axisState} :
          \/ \E r \in HandRanges : setAxisRange(S, r)
          \/ resetAxes(S)
    \/ \E s \in Curves : \/ setSeriesVisible(s) \/ ChooseAxis(s)
                         \/ addSeries(s) \/ removeSeries(s)

Spec == Init /\ [][Next]_vars

(***************************************************************************)
(* Properties                                                              *)
(***************************************************************************)
TypeOK ==
    /\ series \subseteq Curves /\ visible \subseteq Curves
    /\ axisMode \in [Curves -> Keys \cup {AutoAxis}]
    /\ data \in [Curves -> Shows \cup {Empty}]
    /\ DOMAIN axisState \subseteq Keys /\ DOMAIN byHand \subseteq Keys
    /\ \A k \in DOMAIN axisState : axisState[k].cur \in Ranges \cup {Empty}

(* Once drawn, a curve is inside its scale unless that scale was set by    *)
(* hand, whatever curves joined or left it, were hidden or shifted, and    *)
(* however far it was in narrowing (computeGroups: a scale widens at once  *)
(* and narrows late).                                                      *)
AutoCovers ==
    \A s \in Curves :
        data[s] # Empty /\ axisState[axisKey(s)].mode = "auto"
            => Covers(axisState[axisKey(s)].cur, data[s])

(* A scale set by hand keeps its range until it is set again or given back *)
(* to the automatic, or until a drawing that finds no curve on it: hiding  *)
(* its curves does not lose it (computeGroups: the scales really gone).    *)
ManualKept ==
    \A k \in DOMAIN byHand :
        /\ k \in DOMAIN axisState
        /\ axisState[k].mode = "manual" /\ axisState[k].cur = byHand[k]
=============================================================================
