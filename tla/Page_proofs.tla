----------------------------- MODULE Page_proofs -----------------------------
(***************************************************************************)
(* Proofs about a page, for any tiles, tabs, windows, horizons, curves and *)
(* values: what a chart or a table shows of the past is right (View), and  *)
(* its scales fit what they carry (Scale).                                 *)
(*                                                                         *)
(* Both rest on the least and the greatest of a finite set, which exist by *)
(* induction on the set: FiniteInduction says it of a set F of sets, where *)
(* the theorems of the library say it of a predicate.                      *)
(*                                                                         *)
(* FrozenStands is not inductive, and is about two states: what makes it   *)
(* so is that the source holds what a frozen chart it was told of still    *)
(* shows (ViewHeldSince), and that it keeps the end of what was recorded   *)
(* (ViewEndKept), so that no sample is missing in the middle of a view.    *)
(* The scales keep theirs by AutoCovers and ManualKept themselves, once    *)
(* what is drawn is known to be on a scale that exists (ScaleOnScale).     *)
(***************************************************************************)
EXTENDS MCPage, FunctionTheorems, FiniteSetTheorems, WellFoundedInduction, TLAPS

(***************************************************************************)
(* The least and the greatest number of a finite set.                      *)
(***************************************************************************)
(* Finite sets are built one element at a time.                            *)
LEMMA FiniteInduction ==
  ASSUME NEW S, IsFiniteSet(S), NEW F,
         {} \in F,
         \A T \in SUBSET S : \A x \in S \ T : T \in F => T \cup {x} \in F
  PROVE  S \in F
<1> DEFINE Missing == {T \in SUBSET S : T \notin F}
<1>1. SUFFICES ASSUME S \notin F PROVE FALSE
  OBVIOUS
<1>2. Missing \subseteq FiniteSubsetsOf(S) /\ Missing # {}
  BY <1>1, FS_FiniteSubsetsOfFinite
<1>3. PICK T \in Missing : \A U \in Missing : ~ (<<U, T>> \in StrictSubsetOrdering(S))
  <2> HIDE DEF Missing
  <2> QED BY <1>2, FS_StrictSubsetOrderingWellFounded, WFMin
<1>4. \A U \in Missing : ~ (U \subseteq T /\ U # T)
  BY <1>3 DEF StrictSubsetOrdering
<1>5. PICK x \in T : TRUE
  OBVIOUS
<1>6. T \ {x} \in F
  BY <1>4
<1>7. (T \ {x}) \cup {x} = T
  OBVIOUS
<1>8. QED
  BY <1>6, <1>7

(* A finite set of integers has a least and a greatest element.            *)
LEMMA Extremes ==
  ASSUME NEW S \in SUBSET Int, IsFiniteSet(S), S # {}
  PROVE  /\ Least(S) \in S /\ \A y \in S : Least(S) <= y
         /\ Greatest(S) \in S /\ \A y \in S : y <= Greatest(S)
<1> DEFINE Bounded(T) ==
      T # {} => /\ \E x \in T : \A y \in T : x <= y
                /\ \E x \in T : \A y \in T : y <= x
           F == {T \in SUBSET S : Bounded(T)}
<1>1. {} \in F
  OBVIOUS
<1>2. ASSUME NEW T \in SUBSET S, NEW x \in S \ T, T \in F
      PROVE  T \cup {x} \in F
  <2>1. CASE T = {}
    BY <2>1
  <2>2. CASE T # {}
    <3>1. PICK l \in T : \A y \in T : l <= y
      BY <1>2, <2>2
    <3>2. PICK g \in T : \A y \in T : y <= g
      BY <1>2, <2>2
    <3>3. \E z \in T \cup {x} : \A y \in T \cup {x} : z <= y
      <4>1. CASE l <= x
        BY <3>1, <4>1
      <4>2. CASE x <= l
        BY <3>1, <4>2
      <4>3. QED
        BY <4>1, <4>2
    <3>4. \E z \in T \cup {x} : \A y \in T \cup {x} : y <= z
      <4>1. CASE x <= g
        BY <3>2, <4>1
      <4>2. CASE g <= x
        BY <3>2, <4>2
      <4>3. QED
        BY <4>1, <4>2
    <3>5. QED
      BY <3>3, <3>4
  <2>3. QED
    BY <2>1, <2>2
<1>3. S \in F
  <2> HIDE DEF F
  <2> QED
    BY <1>1, <1>2, FiniteInduction
<1>4. QED
  BY <1>3 DEF Least, Greatest

(* Of two numbers.                                                         *)
LEMMA OfTwo ==
  ASSUME NEW x \in Int, NEW y \in Int
  PROVE  /\ Least({x, y}) = IF x <= y THEN x ELSE y
         /\ Greatest({x, y}) = IF x <= y THEN y ELSE x
<1>1. IsFiniteSet({x, y})
  <2>1. IsFiniteSet({x}) /\ {x} \cup {y} = {x, y}
    BY FS_Singleton
  <2>2. QED
    BY <2>1, FS_AddElement
<1>2. QED
  BY <1>1, Extremes

(***************************************************************************)
(* View: what a chart or a table shows of the past.                        *)
(***************************************************************************)
LEMMA ViewLeast == \A S : Vi!Least(S) = Least(S) /\ Vi!Greatest(S) = Greatest(S)
  BY DEF Least, Greatest, Vi!Least, Vi!Greatest

LEMMA ViewExtremes ==
  ASSUME NEW S \in SUBSET Int, IsFiniteSet(S), S # {}
  PROVE  /\ Vi!Least(S) \in S /\ \A y \in S : Vi!Least(S) <= y
         /\ Vi!Greatest(S) \in S /\ \A y \in S : y <= Vi!Greatest(S)
  BY Extremes, ViewLeast

LEMMA ViewOfTwo ==
  ASSUME NEW x \in Int, NEW y \in Int
  PROVE  /\ Vi!Least({x, y}) = IF x <= y THEN x ELSE y
         /\ Vi!Greatest({x, y}) = IF x <= y THEN y ELSE x
  BY OfTwo, ViewLeast

LEMMA ViewInstantsFinite == ASSUME NEW S \in SUBSET Vi!Instants PROVE IsFiniteSet(S) /\ S \in SUBSET Int
<1>1. MaxT \in Nat
  BY ViewAssumption
<1>2. IsFiniteSet(0..MaxT)
  BY <1>1, FS_Interval
<1>3. S \in SUBSET (0..MaxT) /\ S \in SUBSET Int
  BY <1>1 DEF Vi!Instants
<1>4. QED
  BY <1>2, <1>3, FS_Subset

(* What is in force at an instant.                                         *)
LEMMA ViewForces ==
  ASSUME NEW S \in SUBSET Vi!Instants, NEW t \in Int
  PROVE  \/ Vi!InForce(S, t) = Nothing /\ \A s \in S : t < s
         \/ Vi!InForce(S, t) \in S /\ Vi!InForce(S, t) <= t /\ \A s \in S : s <= t => s <= Vi!InForce(S, t)
<1> DEFINE before == {s \in S : s <= t}
<1>1. before \in SUBSET Vi!Instants
  OBVIOUS
<1>2. IsFiniteSet(before) /\ before \in SUBSET Int
  BY <1>1, ViewInstantsFinite
<1>3. S \subseteq Int
  BY ViewInstantsFinite
<1>4. CASE before = {}
  BY <1>3, <1>4 DEF Vi!InForce
<1>5. CASE before # {}
  BY <1>2, <1>5, ViewExtremes DEF Vi!InForce
<1>6. QED
  BY <1>4, <1>5

(***************************************************************************)
(* The inductive invariant.                                                *)
(***************************************************************************)
(* The types, as functions.                                                *)
ViewTyped ==
  /\ clock \in Vi!Instants /\ halted \in Vi!Instants \cup {Running}
  /\ record \subseteq Vi!Instants /\ hold \in Int \cup {Nothing}
  /\ front \in ViewTabs
  /\ view \in [Vi!Tiles -> Int \cup {Live}] /\ window \in [ViewCharts -> Windows]
  /\ measuring \in [ViewCharts -> BOOLEAN] /\ told \in [ViewCharts -> BOOLEAN]

(* What the source keeps is the end of what was recorded, of which nothing *)
(* is ahead of what the page calls now.                                    *)
ViewEndKept ==
  /\ kept \subseteq record
  /\ record # {} => kept # {}
  /\ \A r \in record \ kept, s \in kept : r < s
  /\ \A r \in record : r <= clock /\ r <= Vi!now

(* The source keeps from before the start of every chart it was told of.   *)
ViewHeldSince ==
  \A ch \in ViewCharts : told[ch] => view[ch] # Live /\ hold # Nothing /\ hold <= Vi!Start(ch)

ViewInv == ViewTyped /\ ViewEndKept /\ ViewHeldSince /\ Vi!MeasureStands

LEMMA ViewNow == ASSUME ViewTyped PROVE Vi!now \in Vi!Instants /\ Vi!now \in Nat /\ Vi!now <= MaxT /\ clock \in Nat
BY ViewAssumption DEF ViewTyped, Vi!now, Vi!running, Vi!Instants

LEMMA ViewInitInv == Vi!Init => ViewInv
BY ViewAssumption DEF Vi!Init, ViewInv, ViewTyped, ViewEndKept, ViewHeldSince, Vi!MeasureStands, Vi!Instants, Vi!Tiles

(* Where a clamped view ends.                                              *)
LEMMA ViewClamping ==
  ASSUME ViewTyped, NEW v \in Int, NEW w \in Windows
  PROVE  /\ Vi!Clamped(v, w) \in Int
         /\ v <= Vi!now => v <= Vi!Clamped(v, w) /\ Vi!Clamped(v, w) <= Vi!now
         /\ v <= Vi!now /\ Vi!now - (v - w) <= HoldMax => Vi!Clamped(v, w) = v
<1>1. Vi!now \in Int /\ w \in Nat /\ Horizon \in Nat /\ HoldMax \in Nat
  BY ViewNow, ViewAssumption
<1>2. Vi!Reach = IF Horizon <= HoldMax THEN HoldMax ELSE Horizon
  <2>1. Vi!Greatest({Horizon, HoldMax}) = IF Horizon <= HoldMax THEN HoldMax ELSE Horizon
    <3>1. Horizon \in Int /\ HoldMax \in Int
      BY <1>1
    <3>2. QED
      BY ONLY <3>1, ViewOfTwo
  <2>2. QED
    BY <2>1 DEF Vi!Reach
<1> DEFINE l == Vi!Least({Vi!now - Vi!Reach + w, Vi!now})
           g == Vi!Greatest({v, l})
<1>3. l = IF Vi!now - Vi!Reach + w <= Vi!now THEN Vi!now - Vi!Reach + w ELSE Vi!now
  BY <1>1, <1>2, ViewOfTwo
<1>4. l \in Int
  BY <1>1, <1>2, <1>3
<1>5. g = IF v <= l THEN l ELSE v
  BY <1>4, ViewOfTwo
<1>6. Vi!Clamped(v, w) = IF Vi!now <= g THEN Vi!now ELSE g
  <2>1. g \in Int
    BY <1>4, <1>5
  <2>2. Vi!Clamped(v, w) = Vi!Least({Vi!now, g})
    BY DEF Vi!Clamped
  <2> HIDE DEF g
  <2>3. QED
    BY <1>1, <2>1, <2>2, ViewOfTwo
<1>7. QED
  BY <1>1, <1>2, <1>3, <1>5, <1>6

(* What trim may drop: nothing as young as the horizon, nor anything that  *)
(* is held.                                                                *)
LEMMA ViewTrimming ==
  ASSUME ViewTyped
  PROVE  /\ Vi!minT \in Int /\ Vi!minT <= Vi!now - Horizon
         /\ \A h \in Int : hold # Nothing /\ hold <= h /\ Vi!now - h <= HoldMax => Vi!minT <= h
<1>1. Vi!now \in Int /\ Horizon \in Nat /\ HoldMax \in Nat
  BY ViewNow, ViewAssumption
<1>2. CASE hold = Nothing
  BY <1>1, <1>2 DEF Vi!minT
<1>3. CASE hold # Nothing
  <2>1. hold \in Int
    BY <1>3 DEF ViewTyped
  <2> DEFINE g == Vi!Greatest({hold, Vi!now - HoldMax})
  <2>2. g = IF hold <= Vi!now - HoldMax THEN Vi!now - HoldMax ELSE hold
    <3>1. Vi!now - HoldMax \in Int
      BY <1>1
    <3>2. QED
      BY <3>1, <2>1, ViewOfTwo
  <2>3. g \in Int
    BY <1>1, <2>1, <2>2
  <2>4. Vi!minT = Vi!Least({Vi!now - Horizon, g})
    BY <1>3 DEF Vi!minT
  <2> HIDE DEF g
  <2>5. Vi!minT = IF Vi!now - Horizon <= g THEN Vi!now - Horizon ELSE g
    BY <1>1, <2>3, <2>4, ViewOfTwo
  <2>6. QED
    BY <1>1, <2>1, <2>2, <2>3, <2>5
<1>4. QED
  BY <1>2, <1>3

LEMMA ViewTrimmedIs ==
  ASSUME NEW S PROVE Vi!Trimmed(S) = S \/ Vi!Trimmed(S) = {s \in S : ~(s < Vi!minT)}
BY DEF Vi!Trimmed

(* The start of a frozen chart.                                            *)
LEMMA ViewStarts ==
  ASSUME ViewTyped, NEW ch \in ViewCharts, view[ch] # Live
  PROVE  view[ch] \in Int /\ window[ch] \in Windows /\ window[ch] \in Nat /\ Vi!Start(ch) = view[ch] - window[ch] /\ Vi!Start(ch) \in Int
<1>1. ch \in Vi!Tiles /\ view[ch] \in Int /\ window[ch] \in Windows
  BY DEF ViewTyped, Vi!Tiles
<1>2. window[ch] \in Nat
  BY <1>1, ViewAssumption
<1>3. QED
  BY <1>1, <1>2 DEF Vi!Start

(* What the source is told covers every frozen tile.                       *)
LEMMA ViewToldCovers ==
  ASSUME ViewTyped
  PROVE  /\ Vi!majRetenue \in Int \cup {Nothing}
         /\ \A ch \in ViewCharts : view[ch] # Live => Vi!majRetenue # Nothing /\ Vi!majRetenue <= Vi!Start(ch)
<1> DEFINE frozen == {x \in Vi!Tiles : view[x] # Live}
           S == {Vi!Shown(x) : x \in frozen}
<1>1. CASE frozen = {}
  BY <1>1 DEF Vi!majRetenue, Vi!Tiles
<1>2. CASE frozen # {}
  <2>1. IsFiniteSet(Vi!Tiles)
    BY ViewAssumption, FS_Union DEF Vi!Tiles
  <2>2. IsFiniteSet(frozen)
    BY <2>1, FS_Subset
  <2>3. IsFiniteSet(S)
    <3> HIDE DEF frozen
    <3>1. [x \in frozen |-> Vi!Shown(x)] \in Surjection(frozen, S)
      BY DEF Surjection
    <3>2. QED
      BY <2>2, <3>1, FS_Surjection
  <2>4. S \subseteq Int
    BY ViewStarts DEF Vi!Shown, ViewTyped, Vi!Tiles
  <2>5. S # {}
    BY <1>2
  <2>6. Vi!majRetenue = Vi!Least(S)
    BY <1>2 DEF Vi!majRetenue
  <2>7. \A ch \in ViewCharts : view[ch] # Live => Vi!Start(ch) \in S
    BY DEF Vi!Shown, Vi!Tiles
  <2> HIDE DEF S
  <2>8. Vi!Least(S) \in Int /\ \A y \in S : Vi!Least(S) <= y
    BY <2>3, <2>4, <2>5, ViewExtremes
  <2>9. QED
    BY <2>6, <2>7, <2>8, ViewAssumption
<1>3. QED
  BY <1>1, <1>2

-----------------------------------------------------------------------------
(* What a tile writes.                                                     *)
LEMMA ViewReadingsTrue == ViewTyped /\ ViewEndKept => Vi!NeverAnother
<1> SUFFICES ASSUME ViewTyped, ViewEndKept, NEW x \in Vi!Tiles, view[x] # Live
             PROVE  Vi!Reading(x) \in {Vi!InForce(record, view[x]), Nothing}
  BY DEF Vi!NeverAnother
<1> DEFINE v == view[x]
<1>0. v \in Int /\ kept \in SUBSET Vi!Instants /\ record \in SUBSET Vi!Instants /\ Vi!now \in Int /\ MaxT \in Int
  BY ViewNow, ViewAssumption DEF ViewTyped, ViewEndKept
<1>1. \A s \in record : s \in Int /\ s <= Vi!now /\ s <= MaxT
  <2>1. \A s \in record : s <= Vi!now
    BY DEF ViewEndKept
  <2>2. QED
    BY <1>0, <2>1 DEF Vi!Instants
<1>2. CASE Vi!now > v
  <2>1. Vi!Reading(x) = Vi!InForce(kept, v)
    BY <1>2 DEF Vi!Reading, Vi!valeurA
  <2>2. Vi!InForce(kept, v) \in kept => Vi!InForce(kept, v) = Vi!InForce(record, v)
    <3> HAVE Vi!InForce(kept, v) \in kept
    <3> DEFINE k == Vi!InForce(kept, v)
               r == Vi!InForce(record, v)
    <3>1. k \in Int /\ k <= v /\ \A s \in kept : s <= v => s <= k
      BY <1>0, <1>1, ViewForces, ViewAssumption DEF ViewEndKept
    <3>2. k \in record
      BY DEF ViewEndKept
    <3>3. r \in record /\ r <= v /\ \A s \in record : s <= v => s <= r
      <4>1. ~ \A s \in record : v < s
        BY <1>0, <1>1, <3>1, <3>2
      <4>2. QED
        BY <1>0, <4>1, ViewForces
    <3>4. r \in kept
      BY <1>1, <3>1, <3>2, <3>3 DEF ViewEndKept
    <3>5. k <= r /\ r <= k
      BY <3>1, <3>2, <3>3, <3>4
    <3>6. QED
      BY <1>1, <3>1, <3>3, <3>5
  <2>3. QED
    BY <1>0, <2>1, <2>2, ViewForces
<1>3. CASE ~(Vi!now > v)
  <2>1. Vi!Reading(x) = Vi!InForce(kept, MaxT)
    BY <1>3 DEF Vi!Reading, Vi!Latest
  <2> DEFINE k == Vi!InForce(kept, MaxT)
             r == Vi!InForce(record, v)
  <2>2. k \in kept => k = r
    <3> HAVE k \in kept
    <3>1. k \in Int /\ \A s \in kept : s <= k
      BY <1>0, <1>1, ViewForces, ViewAssumption DEF ViewEndKept
    <3>2. k \in record /\ k <= v
      BY <1>0, <1>1, <1>3 DEF ViewEndKept
    <3>3. r \in record /\ r <= v /\ \A s \in record : s <= v => s <= r
      <4>1. ~ \A s \in record : v < s
        BY <1>0, <1>1, <3>1, <3>2
      <4>2. QED
        BY <1>0, <4>1, ViewForces
    <3>4. r \in kept
      BY <1>1, <3>1, <3>2, <3>3 DEF ViewEndKept
    <3>5. QED
      BY <1>1, <3>1, <3>2, <3>3, <3>4
  <2>3. QED
    BY <1>0, <2>1, <2>2, ViewForces
<1>4. QED
  BY <1>2, <1>3

-----------------------------------------------------------------------------
(***************************************************************************)
(* The invariant is kept by each action.                                   *)
(***************************************************************************)
LEMMA ViewTickStep == ViewInv /\ Vi!Tick => ViewInv'
<1> SUFFICES ASSUME ViewInv, Vi!Tick PROVE ViewInv'
  OBVIOUS
<1>1. clock \in Nat /\ MaxT \in Nat
  BY ViewNow, ViewAssumption DEF ViewInv
<1>2. Vi!running /\ Vi!now = clock /\ Vi!now' = clock' /\ clock' = clock + 1 /\ clock < MaxT
  BY DEF Vi!Tick, Vi!now, Vi!running
<1>3. ViewTyped'
  BY <1>1 DEF ViewInv, ViewTyped, Vi!Tick, Vi!Instants
<1>4. ViewEndKept'
  <2>1. \A r \in record : r \in Int
    BY <1>1 DEF ViewInv, ViewTyped, Vi!Instants
  <2>2. QED
    BY <1>1, <1>2, <2>1 DEF ViewInv, ViewEndKept, Vi!Tick
<1>5. QED
  BY <1>3, <1>4 DEF ViewInv, ViewHeldSince, Vi!MeasureStands, Vi!Measurable, Vi!Tick, Vi!Start

LEMMA ViewSampleStep == ViewInv /\ Vi!Sample => ViewInv'
<1> SUFFICES ASSUME ViewInv, Vi!Sample PROVE ViewInv'
  OBVIOUS
<1>0. ViewTyped /\ ViewEndKept
  BY DEF ViewInv
<1>1. PICK t \in (clock - Lag)..clock \cap Vi!Instants :
        /\ \A s \in kept : s < t
        /\ record' = record \cup {t}
        /\ kept' = Vi!Trimmed(kept \cup {t})
  BY DEF Vi!Sample
<1>2. clock \in Nat /\ Vi!now = clock /\ Vi!now' = clock /\ Lag \in Nat /\ Horizon \in Nat /\ Lag <= Horizon
  BY <1>0, ViewNow, ViewAssumption DEF Vi!Sample, Vi!now, Vi!running
<1>3. t \in Vi!Instants /\ t \in Int /\ clock - Lag <= t /\ t <= clock
  BY <1>1, <1>2, ViewAssumption DEF Vi!Instants
<1>4. Vi!minT \in Int /\ Vi!minT <= t
  BY <1>0, <1>2, <1>3, ViewTrimming
<1>5. \A r \in record : r \in Int /\ r <= clock
  BY <1>0 DEF ViewTyped, Vi!Instants, ViewEndKept
<1>6. ViewTyped'
  BY <1>0, <1>1, <1>3 DEF ViewTyped, Vi!Sample
<1>7. ViewEndKept'
  <2>1. kept' \subseteq kept \cup {t} /\ t \in kept'
    BY <1>1, <1>3, <1>4, ViewTrimmedIs
  <2>2. ASSUME NEW r \in (kept \cup {t}) \ kept', NEW s \in kept' PROVE r < s
    <3>1. kept' = {u \in kept \cup {t} : ~(u < Vi!minT)}
      BY <1>1, <2>2, ViewTrimmedIs
    <3>2. r < Vi!minT /\ ~(s < Vi!minT) /\ r \in Int /\ s \in Int
      BY <1>0, <1>3, <1>5, <2>2, <3>1 DEF ViewEndKept
    <3>3. QED
      BY <1>4, <3>2
  <2>3. ASSUME NEW r \in record \ kept, NEW s \in kept', r # t PROVE r < s
    <3>1. CASE s \in kept
      BY <1>0, <3>1, <2>3 DEF ViewEndKept
    <3>2. CASE s = t
      <4>1. PICK u \in kept : TRUE
        BY <1>0, <2>3 DEF ViewEndKept
      <4>2. r < u /\ u < t /\ u \in Int /\ r \in Int
        BY <1>0, <1>1, <1>5, <2>3, <4>1 DEF ViewEndKept
      <4>3. QED
        BY <1>3, <3>2, <4>2
    <3>3. QED
      BY <2>1, <3>1, <3>2
  <2>4. \A r \in record' \ kept', s \in kept' : r < s
    BY <1>1, <2>1, <2>2, <2>3
  <2>5. \A r \in record' : r <= clock
    BY <1>1, <1>3, <1>5
  <2>6. clock' = clock
    BY DEF Vi!Sample
  <2>7. kept' \subseteq record'
    BY <1>0, <1>1, <2>1 DEF ViewEndKept
  <2>8. QED
    BY <1>2, <2>1, <2>4, <2>5, <2>6, <2>7 DEF ViewEndKept
<1>8. QED
  BY <1>6, <1>7 DEF ViewInv, ViewHeldSince, Vi!MeasureStands, Vi!Measurable, Vi!Sample, Vi!Start

LEMMA ViewRestartStep == ViewInv /\ Vi!Restart => ViewInv'
<1> SUFFICES ASSUME ViewInv, Vi!Restart PROVE ViewInv'
  OBVIOUS
<1>0. ViewTyped /\ ViewEndKept
  BY DEF ViewInv
<1>1. clock' = 0 /\ clock \in Nat /\ Vi!now \in Nat /\ 0 \in Vi!Instants
  BY <1>0, ViewNow, ViewAssumption DEF Vi!Restart, Vi!Instants
<1>2. Vi!now' \in Nat /\ (halted # Running => Vi!now' = Vi!now)
  BY <1>0, <1>1, ViewNow, ViewAssumption DEF Vi!Restart, Vi!now, Vi!running, ViewTyped, Vi!Instants
<1>3. ViewTyped'
  BY <1>0, <1>1 DEF ViewTyped, Vi!Restart
<1>4. ViewEndKept'
  <2>1. CASE \E s \in kept : s > 0
    BY <1>1, <2>1 DEF Vi!Restart, ViewEndKept
  <2>2. CASE ~ \E s \in kept : s > 0
    <3>1. record' = record /\ kept' = kept
      BY <1>1, <2>2 DEF Vi!Restart
    <3>2. ASSUME NEW r \in record PROVE r <= 0
      <4>1. PICK s \in kept : TRUE
        BY <1>0, <3>2 DEF ViewEndKept
      <4>2. r \in Nat /\ s \in Nat /\ s <= 0
        BY <1>0, <2>2, <4>1 DEF ViewEndKept, ViewTyped, Vi!Instants
      <4>3. r \in kept \/ r < s
        BY <1>0, <4>1, <3>2 DEF ViewEndKept
      <4>4. QED
        BY <2>2, <4>2, <4>3
    <3>3. \A r \in record : r \in Nat
      BY <1>0 DEF ViewTyped, Vi!Instants
    <3>4. QED
      BY <1>0, <1>1, <1>2, <3>1, <3>2, <3>3 DEF ViewEndKept
  <2>3. QED
    BY <2>1, <2>2
<1>5. QED
  BY <1>3, <1>4 DEF ViewInv, ViewHeldSince, Vi!MeasureStands, Vi!Measurable, Vi!Restart, Vi!Start

(* The steps of the page leave the source alone.                           *)
LEMMA ViewSourceStands == ASSUME ViewEndKept, UNCHANGED Vi!source PROVE ViewEndKept'
BY DEF ViewEndKept, Vi!source, Vi!now, Vi!running

(* A gesture on one chart.                                                 *)
LEMMA ViewTurnedStep ==
  ASSUME ViewInv, NEW ch \in ViewCharts, NEW v \in Int \cup {Live},
         Vi!Turned(ch, v), UNCHANGED <<Vi!source, front, window>>
  PROVE  ViewInv'
<1>1. ViewTyped'
  BY DEF ViewInv, ViewTyped, Vi!Turned, Vi!Tiles, Vi!source, Vi!Synced
<1>2. ViewEndKept'
  BY ViewSourceStands DEF ViewInv
<1>3. ViewHeldSince'
  <2> SUFFICES ASSUME NEW d \in ViewCharts, told'[d]
               PROVE  (view[d] # Live /\ hold # Nothing /\ hold <= Vi!Start(d))'
    BY DEF ViewHeldSince
  <2>1. d # ch /\ told[d]
    BY DEF Vi!Turned, ViewInv, ViewTyped
  <2>2. view'[d] = view[d] /\ hold' = hold /\ window' = window
    BY <2>1 DEF Vi!Turned, ViewInv, ViewTyped, Vi!Tiles, Vi!source
  <2>3. QED
    BY <2>1, <2>2 DEF ViewInv, ViewHeldSince, Vi!Start
<1>4. Vi!MeasureStands'
  <2> SUFFICES ASSUME NEW d \in ViewCharts, measuring'[d]
               PROVE  Vi!Measurable(view'[d], halted')
    BY DEF Vi!MeasureStands, Vi!Measurable
  <2>1. halted' = halted
    BY DEF Vi!source
  <2>2. CASE d = ch
    <3>1. view'[ch] = v /\ measuring'[ch] = Vi!Synced(v, halted, measuring[ch])
      BY DEF Vi!Turned, ViewInv, ViewTyped, Vi!Tiles
    <3>2. QED
      BY <2>1, <2>2, <3>1 DEF Vi!Synced
  <2>3. CASE d # ch
    BY <2>1, <2>3 DEF Vi!Turned, ViewInv, ViewTyped, Vi!Tiles, Vi!MeasureStands
  <2>4. QED
    BY <2>2, <2>3
<1>5. QED
  BY <1>1, <1>2, <1>3, <1>4 DEF ViewInv

LEMMA ViewSetPausedStep == ASSUME ViewInv, NEW ch \in ViewCharts, Vi!SetPaused(ch) PROVE ViewInv'
<1>1. Vi!now \in Int
  BY ViewNow DEF ViewInv, Vi!Instants
<1>2. QED
  BY <1>1, ViewTurnedStep DEF Vi!SetPaused

LEMMA ViewGoLiveStep == ASSUME ViewInv, NEW ch \in ViewCharts, Vi!GoLive(ch) PROVE ViewInv'
BY ViewTurnedStep DEF Vi!GoLive

LEMMA ViewPanStep == ASSUME ViewInv, NEW ch \in ViewCharts, Vi!Pan(ch) PROVE ViewInv'
<1>1. PICK t \in Vi!Instants : LET v == Vi!Clamped(t, window[ch])
                          IN  Vi!Turned(ch, IF v = Vi!now THEN Live ELSE v)
  BY DEF Vi!Pan
<1>2. t \in Int /\ window[ch] \in Windows
  BY ViewAssumption DEF ViewInv, ViewTyped, Vi!Instants
<1>3. Vi!Clamped(t, window[ch]) \in Int
  BY <1>2, ViewClamping DEF ViewInv
<1>4. QED
  BY <1>1, <1>3, ViewTurnedStep DEF Vi!Pan

LEMMA ViewZoomStep == ASSUME ViewInv, NEW ch \in ViewCharts, Vi!Zoom(ch) PROVE ViewInv'
<1>0. ViewTyped /\ ViewEndKept
  BY DEF ViewInv
<1>1. PICK w \in Windows \ {window[ch]} :
        /\ window' = [window EXCEPT ![ch] = w]
        /\ IF view[ch] = Live THEN UNCHANGED view
           ELSE LET end == view[ch] + w - window[ch]
                IN  \E v \in Vi!Least({view[ch], end})..Vi!Greatest({view[ch], end}) :
                       view' = [view EXCEPT ![ch] = Vi!Clamped(v, w)]
  BY DEF Vi!Zoom
<1>2. \/ view' = view
      \/ view[ch] # Live /\ \E v \in Int : view' = [view EXCEPT ![ch] = v]
  <2>1. CASE view[ch] = Live
    BY <1>1, <2>1
  <2>2. CASE view[ch] # Live
    <3>1. PICK v \in Int : view' = [view EXCEPT ![ch] = Vi!Clamped(v, w)]
      BY <1>1, <2>2
    <3>2. Vi!Clamped(v, w) \in Int
      BY <1>0, ViewClamping
    <3>3. QED
      BY <2>2, <3>1, <3>2
  <2>3. QED
    BY <2>1, <2>2
<1>3. ViewTyped'
  <2>1. view' \in [Vi!Tiles -> Int \cup {Live}]
    BY <1>0, <1>2 DEF ViewTyped
  <2>2. QED
    BY <1>0, <1>1, <2>1 DEF ViewTyped, Vi!Zoom, Vi!source
<1>4. ViewEndKept'
  BY <1>0, ViewSourceStands DEF Vi!Zoom
<1>5. ViewHeldSince'
  <2> SUFFICES ASSUME NEW d \in ViewCharts, told'[d]
               PROVE  (view[d] # Live /\ hold # Nothing /\ hold <= Vi!Start(d))'
    BY DEF ViewHeldSince
  <2>1. d # ch /\ told[d]
    BY <1>0 DEF Vi!Zoom, ViewTyped
  <2>2. view'[d] = view[d] /\ hold' = hold /\ window'[d] = window[d]
    BY <1>0, <1>1, <1>2, <2>1 DEF Vi!Zoom, ViewTyped, Vi!Tiles, Vi!source
  <2>3. QED
    BY <2>1, <2>2 DEF ViewInv, ViewHeldSince, Vi!Start
<1>6. Vi!MeasureStands'
  <2> SUFFICES ASSUME NEW d \in ViewCharts, measuring'[d]
               PROVE  Vi!Measurable(view'[d], halted')
    BY DEF Vi!MeasureStands, Vi!Measurable
  <2>1. halted' = halted /\ measuring[d]
    BY DEF Vi!Zoom, Vi!source
  <2>2. view[d] # Live => view'[d] # Live
    BY <1>0, <1>2, ViewAssumption DEF ViewTyped, Vi!Tiles
  <2>3. QED
    BY <2>1, <2>2 DEF ViewInv, Vi!MeasureStands, Vi!Measurable
<1>7. QED
  BY <1>3, <1>4, <1>5, <1>6 DEF ViewInv

LEMMA ViewSelectWindowStep == ASSUME ViewInv, NEW ch \in ViewCharts, Vi!SelectWindow(ch) PROVE ViewInv'
<1>0. ViewTyped /\ ViewEndKept
  BY DEF ViewInv
<1>1. ViewTyped'
  BY <1>0 DEF ViewTyped, Vi!SelectWindow, Vi!source
<1>2. ViewEndKept'
  BY <1>0, ViewSourceStands DEF Vi!SelectWindow
<1>3. ViewHeldSince'
  <2> SUFFICES ASSUME NEW d \in ViewCharts, told'[d]
               PROVE  (view[d] # Live /\ hold # Nothing /\ hold <= Vi!Start(d))'
    BY DEF ViewHeldSince
  <2>1. d # ch /\ told[d]
    BY <1>0 DEF Vi!SelectWindow, ViewTyped
  <2>2. view' = view /\ hold' = hold /\ window'[d] = window[d]
    BY <1>0, <2>1 DEF Vi!SelectWindow, ViewTyped, Vi!source
  <2>3. QED
    BY <2>1, <2>2 DEF ViewInv, ViewHeldSince, Vi!Start
<1>4. QED
  BY <1>1, <1>2, <1>3 DEF ViewInv, Vi!MeasureStands, Vi!Measurable, Vi!SelectWindow, Vi!source

LEMMA ViewSetMeasureModeStep == ASSUME ViewInv, NEW ch \in ViewCharts, Vi!SetMeasureMode(ch) PROVE ViewInv'
<1>1. ViewTyped'
  BY DEF ViewInv, ViewTyped, Vi!SetMeasureMode, Vi!source
<1>2. ViewEndKept'
  BY ViewSourceStands DEF ViewInv, Vi!SetMeasureMode
<1>3. ViewHeldSince'
  BY DEF ViewInv, ViewHeldSince, Vi!SetMeasureMode, Vi!source, Vi!Start
<1>4. Vi!MeasureStands'
  BY DEF ViewInv, Vi!MeasureStands, Vi!SetMeasureMode, Vi!source, Vi!Measurable
<1>5. QED
  BY <1>1, <1>2, <1>3, <1>4 DEF ViewInv

LEMMA ViewSetTableFrozenStep == ASSUME ViewInv, NEW x \in ViewTables, Vi!SetTableFrozen(x) PROVE ViewInv'
<1>0. ViewTyped /\ ViewEndKept /\ Vi!now \in Int
  BY ViewNow DEF ViewInv, Vi!Instants
<1>1. view' \in [Vi!Tiles -> Int \cup {Live}] /\ \A ch \in ViewCharts : view'[ch] = view[ch]
  BY <1>0, ViewAssumption DEF ViewTyped, Vi!SetTableFrozen, Vi!Tiles
<1>2. ViewTyped'
  BY <1>0, <1>1 DEF ViewTyped, Vi!SetTableFrozen, Vi!source
<1>3. ViewEndKept'
  BY <1>0, ViewSourceStands DEF Vi!SetTableFrozen
<1>4. QED
  BY <1>1, <1>2, <1>3 DEF ViewInv, ViewHeldSince, Vi!MeasureStands, Vi!Measurable, Vi!SetTableFrozen, Vi!source, Vi!Start

LEMMA ViewPauseAllStep == ViewInv /\ Vi!PauseAll => ViewInv'
<1> SUFFICES ASSUME ViewInv, Vi!PauseAll PROVE ViewInv'
  OBVIOUS
<1> DEFINE here == {x \in Vi!Tiles : TabOf[x] = front}
<1>0. ViewTyped /\ ViewEndKept /\ Vi!now \in Int
  BY ViewNow DEF ViewInv, Vi!Instants
<1>1. PICK v \in Int \cup {Live} :
        /\ view' = [x \in Vi!Tiles |-> IF x \in here THEN v ELSE view[x]]
        /\ measuring' = [ch \in ViewCharts |-> IF ch \in here THEN Vi!Synced(v, halted, measuring[ch]) ELSE measuring[ch]]
  BY <1>0 DEF Vi!PauseAll
<1>2. told' = [ch \in ViewCharts |-> told[ch] /\ ch \notin here] /\ UNCHANGED <<Vi!source, front, window>>
  BY DEF Vi!PauseAll
<1> HIDE DEF here
<1>3. ViewTyped'
  <2>1. view' \in [Vi!Tiles -> Int \cup {Live}]
    BY <1>0, <1>1 DEF ViewTyped
  <2>2. measuring' \in [ViewCharts -> BOOLEAN] /\ told' \in [ViewCharts -> BOOLEAN]
    BY <1>0, <1>1, <1>2 DEF ViewTyped, Vi!Synced
  <2>3. QED
    BY <1>0, <1>2, <2>1, <2>2 DEF ViewTyped, Vi!source
<1>4. ViewEndKept'
  BY <1>0, <1>2, ViewSourceStands
<1>5. ViewHeldSince'
  <2> SUFFICES ASSUME NEW d \in ViewCharts, told'[d]
               PROVE  (view[d] # Live /\ hold # Nothing /\ hold <= Vi!Start(d))'
    BY DEF ViewHeldSince
  <2>1. d \notin here /\ told[d]
    BY <1>2
  <2>2. view'[d] = view[d] /\ hold' = hold /\ window' = window
    BY <1>1, <1>2, <2>1 DEF Vi!Tiles, Vi!source
  <2>3. QED
    BY <2>1, <2>2 DEF ViewInv, ViewHeldSince, Vi!Start
<1>6. Vi!MeasureStands'
  <2> SUFFICES ASSUME NEW d \in ViewCharts, measuring'[d]
               PROVE  Vi!Measurable(view'[d], halted')
    BY DEF Vi!MeasureStands, Vi!Measurable
  <2>1. halted' = halted
    BY <1>2 DEF Vi!source
  <2>2. CASE d \in here
    BY <1>1, <2>1, <2>2 DEF Vi!Tiles, Vi!Synced
  <2>3. CASE d \notin here
    BY <1>1, <2>1, <2>3 DEF Vi!Tiles, ViewInv, Vi!MeasureStands
  <2>4. QED
    BY <2>2, <2>3
<1>7. QED
  BY <1>3, <1>4, <1>5, <1>6 DEF ViewInv

LEMMA ViewStopStep == ViewInv /\ Vi!Stop => ViewInv'
<1> SUFFICES ASSUME ViewInv, Vi!Stop PROVE ViewInv'
  OBVIOUS
<1>1. ViewTyped'
  BY DEF ViewInv, ViewTyped, Vi!Stop
<1>2. Vi!now = clock /\ clock \in Int /\ Vi!now' = clock
  BY ViewNow, ViewAssumption DEF ViewInv, ViewTyped, Vi!Stop, Vi!now, Vi!running, Vi!Instants
<1>3. ViewEndKept'
  BY <1>2 DEF ViewInv, ViewEndKept, Vi!Stop
<1>4. halted' # Running
  BY ViewAssumption DEF Vi!Stop, ViewInv, ViewTyped, Vi!Instants
<1>5. QED
  BY <1>1, <1>3, <1>4 DEF ViewInv, ViewHeldSince, Vi!MeasureStands, Vi!Measurable, Vi!Stop, Vi!Start

LEMMA ViewStartCaptureStep == ViewInv /\ Vi!StartCapture => ViewInv'
<1> SUFFICES ASSUME ViewInv, Vi!StartCapture PROVE ViewInv'
  OBVIOUS
<1>1. ViewTyped'
  BY DEF ViewInv, ViewTyped, Vi!StartCapture, Vi!Synced
<1>2. ViewEndKept'
  BY DEF ViewEndKept, Vi!StartCapture
<1>3. ViewHeldSince' /\ Vi!MeasureStands'
  BY DEF ViewHeldSince, Vi!MeasureStands, Vi!StartCapture, Vi!Synced, Vi!Measurable
<1>4. QED
  BY <1>1, <1>2, <1>3 DEF ViewInv

LEMMA ViewSwitchTabStep == ViewInv /\ Vi!SwitchTab => ViewInv'
<1> SUFFICES ASSUME ViewInv, Vi!SwitchTab PROVE ViewInv'
  OBVIOUS
<1>1. ViewEndKept'
  BY ViewSourceStands DEF ViewInv, Vi!SwitchTab
<1>2. QED
  BY <1>1 DEF ViewInv, ViewTyped, ViewHeldSince, Vi!MeasureStands, Vi!Measurable, Vi!SwitchTab, Vi!source, Vi!Start

(* Drawing: what each chart shows then.                                    *)
LEMMA ViewRendering ==
  ASSUME ViewInv, Vi!Render
  PROVE  /\ view' \in [Vi!Tiles -> Int \cup {Live}]
         /\ \A ch \in ViewCharts : \/ view'[ch] = view[ch]
                                   \/ /\ view[ch] # Live /\ TabOf[ch] = front
                                      /\ view'[ch] = Vi!Clamped(view[ch], window[ch])
         /\ \A ch \in ViewCharts : told'[ch] <=> told[ch] /\ (TabOf[ch] = front /\ view[ch] # Live => view[ch] <= Vi!now)
<1> DEFINE drawn == {ch \in ViewCharts : TabOf[ch] = front /\ view[ch] # Live}
<1>1. ViewTyped
  BY DEF ViewInv
<1>2. \A ch \in drawn : Vi!Clamped(view[ch], window[ch]) \in Int
  <2> TAKE ch \in drawn
  <2>1. view[ch] \in Int /\ window[ch] \in Windows
    BY <1>1, ViewStarts
  <2>2. QED
    BY <1>1, <2>1, ViewClamping
<1>3. view' = [x \in Vi!Tiles |-> IF x \in drawn THEN Vi!Clamped(view[x], window[x]) ELSE view[x]]
  BY DEF Vi!Render
<1>4. \A x \in Vi!Tiles : view'[x] \in Int \cup {Live}
  <2> TAKE x \in Vi!Tiles
  <2>1. view[x] \in Int \cup {Live}
    BY <1>1 DEF ViewTyped
  <2> HIDE DEF drawn
  <2>2. QED
    BY <1>2, <1>3, <2>1
<1>5. view' \in [Vi!Tiles -> Int \cup {Live}]
  <2> HIDE DEF drawn
  <2> QED
    BY <1>3, <1>4
<1>6. QED
  BY <1>3, <1>5 DEF Vi!Render, Vi!Tiles

LEMMA ViewRenderStep == ViewInv /\ Vi!Render => ViewInv'
<1> SUFFICES ASSUME ViewInv, Vi!Render PROVE ViewInv'
  OBVIOUS
<1>0. ViewTyped
  BY DEF ViewInv
<1>1. UNCHANGED <<Vi!source, front, window, measuring>>
  BY DEF Vi!Render
<1>2. ViewTyped'
  <2>1. told' \in [ViewCharts -> BOOLEAN]
    BY <1>0 DEF Vi!Render, ViewTyped
  <2>2. QED
    BY <1>0, <1>1, <2>1, ViewRendering DEF ViewTyped, Vi!source
<1>3. ViewEndKept'
  BY <1>1, ViewSourceStands DEF ViewInv
<1>4. ViewHeldSince'
  <2> SUFFICES ASSUME NEW d \in ViewCharts, told'[d]
               PROVE  (view[d] # Live /\ hold # Nothing /\ hold <= Vi!Start(d))'
    BY DEF ViewHeldSince
  <2>1. told[d] /\ view[d] # Live /\ hold # Nothing /\ hold <= Vi!Start(d)
    BY ViewRendering DEF ViewInv, ViewHeldSince
  <2>2. view[d] \in Int /\ window[d] \in Windows /\ window[d] \in Nat /\ Vi!Start(d) = view[d] - window[d]
    BY <1>0, <2>1, ViewStarts
  <2>3. hold \in Int /\ hold' = hold /\ window' = window
    BY <1>0, <1>1, <2>1 DEF ViewTyped, Vi!source
  <2>4. view'[d] \in Int /\ view[d] <= view'[d]
    <3>1. CASE view'[d] = view[d]
      BY <2>2, <3>1
    <3>2. CASE view'[d] # view[d]
      <4>1. view'[d] = Vi!Clamped(view[d], window[d]) /\ view[d] <= Vi!now
        BY <3>2, ViewRendering
      <4>2. QED
        BY <1>0, <2>2, <4>1, ViewClamping
    <3>3. QED
      BY <3>1, <3>2
  <2>5. Vi!Start(d)' = view'[d] - window[d]
    BY <2>3 DEF Vi!Start
  <2>6. view'[d] # Live
    BY <2>4, ViewAssumption
  <2>7. QED
    BY <2>1, <2>2, <2>3, <2>4, <2>5, <2>6
<1>5. Vi!MeasureStands'
  <2> SUFFICES ASSUME NEW d \in ViewCharts, measuring'[d]
               PROVE  Vi!Measurable(view'[d], halted')
    BY DEF Vi!MeasureStands, Vi!Measurable
  <2>1. halted' = halted /\ measuring[d] /\ d \in Vi!Tiles
    BY <1>1 DEF Vi!source, Vi!Tiles
  <2>2. view[d] # Live => view'[d] # Live
    <3> HAVE view[d] # Live
    <3>1. view[d] \in Int /\ window[d] \in Windows
      BY <1>0, ViewStarts
    <3>2. view'[d] \in Int
      BY <1>0, <3>1, ViewRendering, ViewClamping
    <3>3. QED
      BY <3>2, ViewAssumption
  <2>3. QED
    BY <2>1, <2>2 DEF ViewInv, Vi!MeasureStands, Vi!Measurable
<1>6. QED
  BY <1>2, <1>3, <1>4, <1>5 DEF ViewInv

LEMMA ViewLiveTickStep == ViewInv /\ Vi!LiveTick => ViewInv'
<1> SUFFICES ASSUME ViewInv, Vi!LiveTick PROVE ViewInv'
  OBVIOUS
<1>0. ViewTyped /\ ViewEndKept
  BY DEF ViewInv
<1>1. ViewTyped'
  BY <1>0, ViewToldCovers DEF ViewTyped, Vi!LiveTick
<1>2. ViewEndKept'
  BY <1>0 DEF ViewEndKept, Vi!LiveTick, Vi!now, Vi!running
<1>3. ViewHeldSince'
  BY <1>0, ViewToldCovers DEF ViewHeldSince, Vi!LiveTick, Vi!Start
<1>4. QED
  BY <1>1, <1>2, <1>3 DEF ViewInv, Vi!MeasureStands, Vi!LiveTick, Vi!Measurable

LEMMA ViewStepInv == ViewInv /\ [Vi!Next]_(Vi!vars) => ViewInv'
<1> SUFFICES ASSUME ViewInv, [Vi!Next]_(Vi!vars) PROVE ViewInv'
  OBVIOUS
<1>1. CASE UNCHANGED Vi!vars
  <2>1. ViewEndKept'
    BY <1>1, ViewSourceStands DEF ViewInv, Vi!vars, Vi!source
  <2>2. QED
    BY <1>1, <2>1 DEF Vi!vars, ViewInv, ViewTyped, ViewHeldSince, Vi!MeasureStands, Vi!Measurable, Vi!Start
<1>2. CASE Vi!Next
  BY <1>2, ViewTickStep, ViewSampleStep, ViewRestartStep, ViewSetPausedStep, ViewGoLiveStep, ViewPanStep, ViewZoomStep,
     ViewSelectWindowStep, ViewSetMeasureModeStep, ViewSetTableFrozenStep, ViewPauseAllStep, ViewStopStep,
     ViewStartCaptureStep, ViewSwitchTabStep, ViewRenderStep, ViewLiveTickStep DEF Vi!Next
<1>3. QED
  BY <1>1, <1>2

-----------------------------------------------------------------------------
LEMMA ViewPlotGrows ==
  ASSUME NEW ch \in ViewCharts, view'[ch] = view[ch], window'[ch] = window[ch],
         \A s \in kept : Vi!Start(ch) <= s => s \in kept'
  PROVE  view'[ch] = view[ch] /\ Vi!Plot(ch) \subseteq Vi!Plot(ch)'
BY DEF Vi!Plot, Vi!Start

(* Only three actions touch the view or the samples of a chart that the    *)
(* source was told of, and remains so.                                     *)
LEMMA ViewFewTouch ==
  ASSUME ViewInv, [Vi!Next]_(Vi!vars), NEW ch \in ViewCharts, told[ch], told'[ch]
  PROVE  \/ view'[ch] = view[ch] /\ window'[ch] = window[ch] /\ kept' = kept
         \/ Vi!Sample \/ Vi!Restart \/ Vi!Render
<1>0. ViewTyped /\ ch \in Vi!Tiles
  BY DEF ViewInv, Vi!Tiles
<1>1. CASE UNCHANGED Vi!vars
  BY <1>1 DEF Vi!vars
<1>2. CASE \E d \in ViewCharts : Vi!SetPaused(d) \/ Vi!GoLive(d) \/ Vi!Pan(d)
  <2>1. PICK d \in ViewCharts : \E v : Vi!Turned(d, v) /\ UNCHANGED <<Vi!source, front, window>>
    BY <1>2 DEF Vi!SetPaused, Vi!GoLive, Vi!Pan
  <2>2. d # ch
    BY <1>0, <2>1 DEF Vi!Turned, ViewTyped
  <2>3. QED
    BY <1>0, <2>1, <2>2 DEF Vi!Turned, ViewTyped, Vi!source
<1>3. CASE \E d \in ViewCharts : Vi!Zoom(d)
  <2>1. PICK d \in ViewCharts : Vi!Zoom(d)
    BY <1>3
  <2>2. d # ch
    BY <1>0, <2>1 DEF Vi!Zoom, ViewTyped
  <2>3. \E v : view' = view \/ view' = [view EXCEPT ![d] = v]
    BY <2>1 DEF Vi!Zoom
  <2>4. QED
    BY <1>0, <2>1, <2>2, <2>3 DEF Vi!Zoom, ViewTyped, Vi!source
<1>4. CASE \E d \in ViewCharts : Vi!SelectWindow(d)
  <2>1. PICK d \in ViewCharts : Vi!SelectWindow(d)
    BY <1>4
  <2>2. d # ch
    BY <1>0, <2>1 DEF Vi!SelectWindow, ViewTyped
  <2>3. QED
    BY <1>0, <2>1, <2>2 DEF Vi!SelectWindow, ViewTyped, Vi!source
<1>5. CASE \E d \in ViewCharts : Vi!SetMeasureMode(d)
  BY <1>5 DEF Vi!SetMeasureMode, Vi!source
<1>6. CASE \E x \in ViewTables : Vi!SetTableFrozen(x)
  BY <1>0, <1>6, ViewAssumption DEF Vi!SetTableFrozen, Vi!source, ViewTyped, Vi!Tiles
<1>7. CASE Vi!PauseAll
  <2> DEFINE here == {x \in Vi!Tiles : TabOf[x] = front}
  <2>1. \E v : view' = [x \in Vi!Tiles |-> IF x \in here THEN v ELSE view[x]]
    BY <1>7 DEF Vi!PauseAll
  <2>2. ch \notin here
    BY <1>7 DEF Vi!PauseAll
  <2> HIDE DEF here
  <2>3. QED
    BY <1>0, <1>7, <2>1, <2>2 DEF Vi!PauseAll, Vi!source
<1>8. CASE Vi!StartCapture
  BY <1>8 DEF Vi!StartCapture
<1>9. CASE Vi!Tick \/ Vi!Stop \/ Vi!SwitchTab \/ Vi!LiveTick
  BY <1>9 DEF Vi!Tick, Vi!Stop, Vi!SwitchTab, Vi!LiveTick, Vi!source
<1>10. QED
  BY <1>1, <1>2, <1>3, <1>4, <1>5, <1>6, <1>7, <1>8, <1>9 DEF Vi!Next

LEMMA ViewEachStands == ASSUME ViewInv, [Vi!Next]_(Vi!vars), NEW ch \in ViewCharts PROVE Vi!Stands(ch)
<1> SUFFICES ASSUME told[ch], told'[ch], clock' >= clock, view[ch] <= Vi!now', Vi!now' - Vi!Start(ch) <= HoldMax
             PROVE  view'[ch] = view[ch] /\ Vi!Plot(ch) \subseteq Vi!Plot(ch)'
  BY DEF Vi!Stands
<1>0. ViewTyped /\ ViewEndKept
  BY DEF ViewInv
<1>1. view[ch] # Live /\ hold # Nothing /\ hold <= Vi!Start(ch)
  BY DEF ViewInv, ViewHeldSince
<1>2. view[ch] \in Int /\ window[ch] \in Windows /\ Vi!Start(ch) = view[ch] - window[ch] /\ Vi!Start(ch) \in Int
  BY <1>0, <1>1, ViewStarts
<1>3. CASE view'[ch] = view[ch] /\ window'[ch] = window[ch] /\ kept' = kept
  BY <1>3, ViewPlotGrows
<1>4. CASE Vi!Sample
  <2>1. Vi!now' = Vi!now /\ view' = view /\ window' = window
    BY <1>4 DEF Vi!Sample, Vi!now, Vi!running
  <2>2. Vi!minT \in Int /\ Vi!minT <= Vi!Start(ch)
    BY <1>0, <1>1, <1>2, <2>1, ViewTrimming
  <2>3. PICK t \in Vi!Instants : kept' = Vi!Trimmed(kept \cup {t})
    BY <1>4 DEF Vi!Sample
  <2>4. \A s \in kept : s \in Int
    BY <1>0, ViewAssumption DEF ViewTyped, ViewEndKept, Vi!Instants
  <2>5. \A s \in kept : Vi!Start(ch) <= s => s \in kept'
    BY <1>2, <2>2, <2>3, <2>4, ViewTrimmedIs
  <2>6. QED
    BY <2>1, <2>5, ViewPlotGrows
<1>5. CASE Vi!Restart
  <2>1. clock' = 0 /\ clock > 0 /\ clock \in Nat
    BY <1>0, <1>5, ViewNow DEF Vi!Restart
  <2>2. QED
    BY <2>1
<1>6. CASE Vi!Render
  <2>1. Vi!now' = Vi!now /\ kept' = kept /\ window' = window
    BY <1>6 DEF Vi!Render, Vi!source, Vi!now, Vi!running
  <2>2. view'[ch] = view[ch]
    <3>1. Vi!Clamped(view[ch], window[ch]) = view[ch]
      BY <1>0, <1>2, <2>1, ViewClamping
    <3>2. QED
      BY <1>6, <3>1, ViewRendering
  <2>3. QED
    BY <2>1, <2>2, ViewPlotGrows
<1>7. QED
  BY <1>3, <1>4, <1>5, <1>6, ViewFewTouch

(***************************************************************************)
(* Scale: the vertical scales of a chart.                                  *)
(***************************************************************************)
(***************************************************************************)
(* The inductive invariant.                                                *)
(***************************************************************************)
ScaleModes == {"auto", "manual"}
(* The types, as functions.                                                *)
ScaleTyped ==
  /\ series \subseteq Curves /\ visible \subseteq Curves
  /\ axisMode \in [Curves -> Keys \cup {AutoAxis}]
  /\ data \in [Curves -> Shows \cup {Empty}]
  /\ DOMAIN axisState \subseteq Keys /\ DOMAIN byHand \subseteq Keys
  /\ axisState \in [DOMAIN axisState ->
                      [mode : ScaleModes, cur : Ranges \cup {Empty}, snap : BOOLEAN, shrinking : BOOLEAN]]
  /\ byHand \in [DOMAIN byHand -> Ranges]

(* What was drawn is on a scale that is there.                             *)
ScaleOnScale == \A s \in Curves : data[s] # Empty => axisKey(s) \in DOMAIN axisState

ScaleInv == ScaleTyped /\ ScaleOnScale /\ AutoCovers /\ ManualKept

ScaleStates == [mode : ScaleModes, cur : Ranges \cup {Empty}, snap : BOOLEAN, shrinking : BOOLEAN]

LEMMA ScaleShowsAre ==
  ASSUME NEW d \in Shows
  PROVE  /\ d[1] \in 0..Top /\ d[2] \in 0..Top /\ d[1] <= d[2] /\ d = <<d[1], d[2]>>
         /\ d[1] \in Int /\ d[2] \in Int /\ d # Empty
BY ScaleAssumption

LEMMA ScaleRangesAre ==
  ASSUME NEW r \in Ranges
  PROVE  r[1] \in 0..(Top + 1) /\ r[2] \in 0..(Top + 1) /\ r[1] < r[2] /\ r[1] \in Int /\ r[2] \in Int /\ r # Empty
BY ScaleAssumption DEF Ranges

LEMMA ScaleKeysTyped ==
  ASSUME ScaleTyped, NEW s \in Curves
  PROVE  axisKey(s) \in Keys
<1>1. axisMode[s] \in Keys \cup {AutoAxis}
  BY DEF ScaleTyped
<1>2. UnitOf[s] \in Keys
  BY DEF Keys
<1>3. CASE axisMode[s] = AutoAxis
  BY <1>2, <1>3 DEF axisKey
<1>4. CASE axisMode[s] # AutoAxis
  BY <1>1, <1>4 DEF axisKey
<1>5. QED
  BY <1>3, <1>4

LEMMA ScaleInitInv == Init => ScaleInv
<1> SUFFICES ASSUME Init PROVE ScaleInv
  OBVIOUS
<1>1. DOMAIN axisState = {} /\ DOMAIN byHand = {}
  BY DEF Init
<1>2. \A s \in Curves : data[s] = Empty
  BY DEF Init, NothingDrawn
<1>3. ScaleTyped
  <2>1. axisState \in [DOMAIN axisState ->
                      [mode : ScaleModes, cur : Ranges \cup {Empty}, snap : BOOLEAN, shrinking : BOOLEAN]]
    BY <1>1 DEF Init
  <2>2. byHand \in [DOMAIN byHand -> Ranges]
    BY <1>1 DEF Init
  <2>3. QED
    <3>1. /\ series \subseteq Curves /\ visible \subseteq Curves
          /\ axisMode \in [Curves -> Keys \cup {AutoAxis}] /\ data \in [Curves -> Shows \cup {Empty}]
      BY DEF Init, NothingDrawn
    <3>2. QED
      BY <1>1, <2>1, <2>2, <3>1 DEF ScaleTyped
<1>4. QED
  BY <1>1, <1>2, <1>3 DEF ScaleInv, ScaleOnScale, AutoCovers, ManualKept

(* What a group of curves shows together covers what each shows.           *)
ScaleHulls == {d \in (0..Top) \X (0..Top) : d[1] <= d[2]}
LEMMA ScaleHullCovers ==
  ASSUME NEW S \in SUBSET Curves, NEW f, \A s \in S : f[s] \in Shows \cup {Empty}
  PROVE  /\ Hull(S, f) = Empty => \A s \in S : f[s] = Empty
         /\ Hull(S, f) # Empty => /\ Hull(S, f) \in ScaleHulls
                                  /\ \A s \in S : f[s] # Empty => Hull(S, f)[1] <= f[s][1] /\ f[s][2] <= Hull(S, f)[2]
<1> DEFINE full == {s \in S : f[s] # Empty}
           L == {f[s][1] : s \in full}
           G == {f[s][2] : s \in full}
<1>1. CASE full = {}
  BY <1>1 DEF Hull
<1>2. CASE full # {}
  <2>1. IsFiniteSet(full)
    BY ScaleAssumption, FS_Subset
  <2>2. \A s \in full : f[s] \in Shows
    OBVIOUS
  <2>3. L \subseteq 0..Top /\ G \subseteq 0..Top /\ L # {} /\ G # {}
    BY <1>2, <2>2, ScaleShowsAre
  <2> HIDE DEF full
  <2>4. IsFiniteSet(L)
    <3>1. [s \in full |-> f[s][1]] \in Surjection(full, L)
      BY DEF Surjection
    <3>2. QED
      BY <2>1, <3>1, FS_Surjection
  <2>5. IsFiniteSet(G)
    <3>1. [s \in full |-> f[s][2]] \in Surjection(full, G)
      BY DEF Surjection
    <3>2. QED
      BY <2>1, <3>1, FS_Surjection
  <2>6. L \subseteq Int /\ G \subseteq Int
    BY <2>3, ScaleAssumption
  <2>7. Hull(S, f) = <<Least(L), Greatest(G)>>
    BY <1>2 DEF Hull, full
  <2>8. \A s \in full : f[s][1] \in L /\ f[s][2] \in G
    OBVIOUS
  <2> HIDE DEF L, G
  <2>9. /\ Least(L) \in L /\ \A y \in L : Least(L) <= y
        /\ Greatest(G) \in G /\ \A y \in G : y <= Greatest(G)
    BY <2>3, <2>4, <2>5, <2>6, Extremes
  <2>10. PICK s \in full : TRUE
    BY <1>2
  <2>11. Least(L) <= f[s][1] /\ f[s][2] <= Greatest(G) /\ f[s][1] <= f[s][2] /\ f[s][1] \in Int /\ f[s][2] \in Int
    BY <2>2, <2>8, <2>9, <2>10, ScaleShowsAre
  <2>12. Least(L) \in 0..Top /\ Greatest(G) \in 0..Top /\ Least(L) <= Greatest(G)
    <3>1. Least(L) \in 0..Top /\ Greatest(G) \in 0..Top
      BY <2>3, <2>9
    <3>2. QED
      BY <2>11, <3>1, ScaleAssumption
  <2>13. Hull(S, f) \in ScaleHulls
    BY <2>7, <2>12 DEF ScaleHulls
  <2>14. Hull(S, f) # Empty => \A t \in S : f[t] # Empty => Hull(S, f)[1] <= f[t][1] /\ f[t][2] <= Hull(S, f)[2]
    BY <2>7, <2>8, <2>9 DEF full
  <2>15. Hull(S, f) # Empty
    <3>1. Hull(S, f) \in Int \X Int
      BY <2>13, ScaleAssumption DEF ScaleHulls
    <3>2. QED
      BY <3>1, ScaleAssumption
  <2>16. QED
    BY <2>13, <2>14, <2>15
<1>3. QED
  BY <1>1, <1>2

LEMMA ScaleFittedRange ==
  ASSUME NEW d, d \in ScaleHulls \/ d = Empty
  PROVE  fitRange(d) \in Ranges /\ Covers(fitRange(d), d)
BY ScaleAssumption DEF fitRange, Ranges, Covers, ScaleHulls

(* An automatic scale that is drawn covers what its curves show.           *)
LEMMA ScaleFollowedCovers ==
  ASSUME NEW st \in ScaleStates, NEW d, d \in ScaleHulls \/ d = Empty,
         NEW x \in Followed(st, d)
  PROVE  x \in ScaleStates /\ x.mode = st.mode /\ Covers(x.cur, d) /\ x.cur \in Ranges
<1>0. fitRange(d) \in Ranges /\ Covers(fitRange(d), d)
  BY ScaleFittedRange
<1>1. CASE st.cur = Empty \/ st.snap
  BY <1>0, <1>1 DEF Followed, Fitted, ScaleStates
<1>2. CASE ~(st.cur = Empty \/ st.snap) /\ Out(st.cur, d)
  <2> DEFINE u == Union(st.cur, fitRange(d))
  <2>1. x = [st EXCEPT !.cur = u, !.shrinking = FALSE]
    BY <1>2 DEF Followed
  <2>2. st.cur \in Ranges
    BY <1>2 DEF ScaleStates
  <2>3. u \in Ranges /\ Covers(u, d)
    <3> DEFINE q == st.cur
               r == fitRange(d)
    <3>1. /\ q[1] \in 0..(Top+1) /\ q[2] \in 0..(Top+1) /\ q[1] < q[2]
          /\ r[1] \in 0..(Top+1) /\ r[2] \in 0..(Top+1) /\ r[1] < r[2]
          /\ Top \in Nat
      BY <1>0, <2>2, ScaleRangesAre, ScaleAssumption
    <3> HIDE DEF q, r
    <3>2. /\ Least({q[1], r[1]}) = IF q[1] <= r[1] THEN q[1] ELSE r[1]
          /\ Greatest({q[2], r[2]}) = IF q[2] <= r[2] THEN r[2] ELSE q[2]
      <4>1. {q[1], q[2], r[1], r[2]} \subseteq Int
        BY <3>1
      <4>2. QED
        BY <4>1, OfTwo
    <3>3. u = <<IF q[1] <= r[1] THEN q[1] ELSE r[1], IF q[2] <= r[2] THEN r[2] ELSE q[2]>>
      BY <3>2 DEF Union, q, r
    <3>4. u \in Ranges /\ u[1] <= r[1] /\ r[2] <= u[2]
      BY <3>1, <3>3 DEF Ranges
    <3>5. d # Empty => d[1] \in Int /\ d[2] \in Int /\ r[1] = d[1] /\ r[2] = d[2] + 1
      BY ScaleAssumption DEF r, fitRange, ScaleHulls
    <3> HIDE DEF u
    <3>6. u[1] \in Int /\ u[2] \in Int
      BY <3>4, ScaleRangesAre
    <3>7. QED
      BY <3>1, <3>4, <3>5, <3>6 DEF Covers
  <2> HIDE DEF u
  <2>4. QED
    BY <2>1, <2>3 DEF ScaleStates
<1>3. CASE ~(st.cur = Empty \/ st.snap) /\ ~Out(st.cur, d) /\ st.shrinking
  <2>1. CASE x = [st EXCEPT !.cur = fitRange(d), !.shrinking = FALSE]
    BY <1>0, <2>1 DEF ScaleStates
  <2>2. CASE \E r \in Between(st.cur, fitRange(d)) : x = [st EXCEPT !.cur = r]
    <3>1. PICK r \in Between(st.cur, fitRange(d)) : x = [st EXCEPT !.cur = r]
      BY <2>2
    <3>2. r \in Ranges /\ r[1] <= fitRange(d)[1] /\ fitRange(d)[2] <= r[2]
      BY <3>1 DEF Between
    <3>3. r[1] \in Int /\ r[2] \in Int
      BY <3>2, ScaleRangesAre
    <3>4. Covers(r, d)
      BY <3>2, <3>3, ScaleAssumption DEF Covers, fitRange, ScaleHulls
    <3>5. QED
      BY <3>1, <3>2, <3>4 DEF ScaleStates
  <2>3. QED
    BY <1>3, <2>1, <2>2 DEF Followed
<1>4. CASE ~(st.cur = Empty \/ st.snap) /\ ~Out(st.cur, d) /\ ~st.shrinking
  BY <1>4 DEF Followed, ScaleStates, Out
<1>5. QED
  BY <1>1, <1>2, <1>3, <1>4

(* As does a scale that is drawn, whatever its mode.                       *)
LEMMA ScaleDrawnCovers ==
  ASSUME ScaleTyped, NEW k \in Keys, NEW f, \A s \in series \cap visible : f[s] \in Shows \cup {Empty},
         NEW x \in Drawn(k, f)
  PROVE  /\ x \in ScaleStates
         /\ k \in DOMAIN axisState /\ axisState[k].mode = "manual" => x = axisState[k]
         /\ x.mode = "auto" => \A s \in Group(k) : f[s] # Empty => Covers(x.cur, f[s])
<1> DEFINE d == Hull(Group(k), f)
           st == At(k)
<1>1. st \in ScaleStates /\ (k \in DOMAIN axisState => st = axisState[k])
  BY DEF At, ScaleStates, ScaleTyped, NewAxis, ScaleModes
<1>2. /\ Group(k) \in SUBSET Curves
      /\ \A s \in Group(k) : f[s] \in Shows \cup {Empty}
  BY DEF Group, ScaleTyped
<1>3. d \in ScaleHulls \/ d = Empty
  BY <1>2, ScaleHullCovers
<1> HIDE DEF st
<1>4. CASE st.mode = "manual"
  BY <1>1, <1>4 DEF Drawn, st
<1>5. CASE st.mode # "manual"
  <2>1. x \in ScaleStates /\ x.mode = st.mode /\ Covers(x.cur, d) /\ x.cur \in Ranges
    <3>1. CASE Group(k) \subseteq Bits
      <4>1. x = [st EXCEPT !.cur = fitRange(d), !.shrinking = FALSE]
        BY <1>5, <3>1 DEF Drawn, st
      <4>2. fitRange(d) \in Ranges /\ Covers(fitRange(d), d)
        BY <1>3, ScaleFittedRange
      <4> HIDE DEF d
      <4>3. QED
        BY <1>1, <4>1, <4>2 DEF ScaleStates
    <3>2. CASE ~(Group(k) \subseteq Bits)
      <4>1. x \in Followed(st, d)
        BY <1>5, <3>2 DEF Drawn, st
      <4> HIDE DEF d
      <4>2. QED
        BY <1>1, <1>3, <4>1, ScaleFollowedCovers
    <3>3. QED
      BY <3>1, <3>2
  <2>2. ASSUME NEW s \in Group(k), f[s] # Empty PROVE Covers(x.cur, f[s])
    <3>1. d # Empty /\ d \in ScaleHulls /\ d[1] <= f[s][1] /\ f[s][2] <= d[2]
      BY <1>2, <2>2, ScaleHullCovers
    <3> HIDE DEF d
    <3>2. x.cur[1] <= d[1] /\ d[2] < x.cur[2]
      BY <2>1, <3>1 DEF Covers
    <3>4. x.cur \in Ranges
      BY <2>1
    <3>5. f[s] \in Shows
      BY <1>2, <2>2
    <3>6. /\ x.cur[1] \in Int /\ x.cur[2] \in Int /\ f[s][1] \in Int /\ f[s][2] \in Int
          /\ d[1] \in Int /\ d[2] \in Int
      BY <3>1, <3>4, <3>5, ScaleRangesAre, ScaleShowsAre, ScaleAssumption DEF ScaleHulls
    <3>7. QED
      BY <3>1, <3>2, <3>6 DEF Covers
  <2>3. QED
    BY <1>1, <1>5, <2>1, <2>2
<1>6. QED
  BY <1>4, <1>5

-----------------------------------------------------------------------------
(* Drawing.                                                                *)
LEMMA ScaleRenderStep == ScaleInv /\ Render => ScaleInv'
<1> SUFFICES ASSUME ScaleInv, Render PROVE ScaleInv'
  OBVIOUS
<1>0. ScaleTyped
  BY DEF ScaleInv
<1> DEFINE groups == {axisKey(s) : s \in series \cap visible}
<1>1. PICK f \in [series \cap visible -> Shows \cup {Empty}] :
        LET next == [k \in groups |-> Drawn(k, f)]
        IN  /\ \E g \in [groups -> UNION {next[k] : k \in groups}] :
                  /\ \A k \in groups : g[k] \in next[k]
                  /\ axisState' = [k \in (groups \cup DOMAIN axisState) \cap validKeys |->
                                      IF k \in groups THEN g[k] ELSE axisState[k]]
            /\ data' = [s \in Curves |-> IF s \in DOMAIN f THEN f[s] ELSE Empty]
            /\ byHand' = Only(byHand, {axisKey(s) : s \in series})
            /\ UNCHANGED <<series, axisMode, visible>>
  BY DEF Render
<1>2. PICK g : /\ \A k \in groups : g[k] \in Drawn(k, f)
               /\ axisState' = [k \in (groups \cup DOMAIN axisState) \cap validKeys |->
                                   IF k \in groups THEN g[k] ELSE axisState[k]]
  BY <1>1
<1>3. /\ data' = [s \in Curves |-> IF s \in series \cap visible THEN f[s] ELSE Empty]
      /\ byHand' = Only(byHand, validKeys)
      /\ UNCHANGED <<series, axisMode, visible>>
  BY <1>1 DEF validKeys
<1>4. \A k \in groups : k \in validKeys /\ k \in Keys
  BY <1>0, ScaleKeysTyped DEF validKeys, ScaleTyped
<1>5. \A s \in series \cap visible : f[s] \in Shows \cup {Empty}
  BY <1>1
<1> HIDE DEF groups
<1>6. \A k \in groups : /\ g[k] \in ScaleStates
                        /\ k \in DOMAIN axisState /\ axisState[k].mode = "manual" => g[k] = axisState[k]
                        /\ g[k].mode = "auto" => \A s \in Group(k) : f[s] # Empty => Covers(g[k].cur, f[s])
  BY <1>0, <1>2, <1>4, <1>5, ScaleDrawnCovers
<1>7. ScaleTyped'
  <2>1. DOMAIN axisState' = (groups \cup DOMAIN axisState) \cap validKeys
    BY <1>2
  <2>2. \A k \in DOMAIN axisState' : axisState'[k] \in ScaleStates
    <3> TAKE k \in DOMAIN axisState'
    <3>1. CASE k \in groups
      BY <1>2, <1>6, <2>1, <3>1
    <3>2. CASE k \notin groups
      BY <1>0, <1>2, <2>1, <3>2 DEF ScaleTyped, ScaleStates
    <3>3. QED
      BY <3>1, <3>2
  <2>3. axisState' \in [DOMAIN axisState' -> ScaleStates]
    BY <1>2, <2>1, <2>2
  <2>4. DOMAIN axisState' \subseteq Keys
    BY <1>0, <1>4, <2>1 DEF ScaleTyped
  <2>5. byHand' \in [DOMAIN byHand' -> Ranges] /\ DOMAIN byHand' \subseteq Keys
    BY <1>0, <1>3 DEF Only, ScaleTyped
  <2>6. data' \in [Curves -> Shows \cup {Empty}]
    BY <1>3, <1>5
  <2>7. QED
    BY <1>0, <1>3, <2>3, <2>4, <2>5, <2>6 DEF ScaleTyped, ScaleStates
<1>8. \A s \in Curves : axisKey(s)' = axisKey(s)
  BY <1>3 DEF axisKey
<1>9. ASSUME NEW s \in Curves, data'[s] # Empty
      PROVE  /\ s \in series \cap visible /\ data'[s] = f[s]
             /\ axisKey(s) \in groups /\ s \in Group(axisKey(s))
             /\ axisKey(s) \in DOMAIN axisState' /\ axisState'[axisKey(s)] = g[axisKey(s)]
  <2>1. s \in series \cap visible /\ data'[s] = f[s]
    BY <1>3, <1>9
  <2>2. axisKey(s) \in groups /\ s \in Group(axisKey(s))
    BY <2>1 DEF groups, Group
  <2>3. QED
    BY <1>2, <1>4, <2>1, <2>2
<1>10. ScaleOnScale'
  BY <1>8, <1>9 DEF ScaleOnScale
<1>11. AutoCovers'
  <2> SUFFICES ASSUME NEW s \in Curves, data'[s] # Empty, axisState'[axisKey(s)].mode = "auto"
               PROVE  Covers(axisState'[axisKey(s)].cur, data'[s])
    BY <1>8 DEF AutoCovers, Covers
  <2>1. QED
    BY <1>6, <1>9
<1>12. ManualKept'
  <2> SUFFICES ASSUME NEW k \in DOMAIN byHand'
               PROVE  /\ k \in DOMAIN axisState'
                      /\ axisState'[k].mode = "manual" /\ axisState'[k].cur = byHand'[k]
    BY DEF ManualKept
  <2>1. k \in DOMAIN byHand /\ k \in validKeys /\ byHand'[k] = byHand[k]
    BY <1>3 DEF Only
  <2>2. k \in DOMAIN axisState /\ axisState[k].mode = "manual" /\ axisState[k].cur = byHand[k]
    BY <2>1 DEF ScaleInv, ManualKept
  <2>3. k \in DOMAIN axisState' /\ axisState'[k] = axisState[k]
    BY <1>2, <1>6, <2>1, <2>2
  <2>4. QED
    BY <2>1, <2>2, <2>3
<1>13. QED
  BY <1>7, <1>10, <1>11, <1>12 DEF ScaleInv

(* Every gesture forgets what was drawn.                                   *)
LEMMA ScaleForgotten ==
  ASSUME ScaleInv, data' = NothingDrawn, ScaleTyped', ManualKept'
  PROVE  ScaleInv'
BY DEF ScaleInv, ScaleOnScale, AutoCovers, NothingDrawn

LEMMA ScaleSetAxisRangeStep ==
  ASSUME ScaleInv, NEW S \in SUBSET DOMAIN axisState, NEW r \in HandRanges, setAxisRange(S, r)
  PROVE  ScaleInv'
<1>0. ScaleTyped /\ r \in Ranges
  BY ScaleAssumption DEF ScaleInv
<1>1. /\ axisState' = [k \in DOMAIN axisState |->
                        IF k \in S THEN [axisState[k] EXCEPT !.mode = "manual", !.cur = r] ELSE axisState[k]]
      /\ byHand' = [k \in DOMAIN byHand \cup S |-> IF k \in S THEN r ELSE byHand[k]]
      /\ data' = NothingDrawn
      /\ UNCHANGED <<series, axisMode, visible>>
  BY DEF setAxisRange
<1>2. \A k \in DOMAIN axisState : axisState[k] \in ScaleStates
  BY <1>0 DEF ScaleTyped, ScaleStates
<1>3. \A k \in DOMAIN axisState : axisState'[k] \in ScaleStates
  BY <1>0, <1>1, <1>2 DEF ScaleStates, ScaleModes
<1>4. ScaleTyped'
  <2>1. axisState' \in [DOMAIN axisState' -> ScaleStates] /\ DOMAIN axisState' = DOMAIN axisState
    BY <1>1, <1>3
  <2>2. byHand' \in [DOMAIN byHand' -> Ranges] /\ DOMAIN byHand' = DOMAIN byHand \cup S
    BY <1>0, <1>1 DEF ScaleTyped
  <2>3. data' \in [Curves -> Shows \cup {Empty}]
    BY <1>1 DEF NothingDrawn
  <2>4. QED
    BY <1>0, <1>1, <2>1, <2>2, <2>3 DEF ScaleTyped, ScaleStates
<1>5. ManualKept'
  <2> SUFFICES ASSUME NEW k \in DOMAIN byHand'
               PROVE  /\ k \in DOMAIN axisState'
                      /\ axisState'[k].mode = "manual" /\ axisState'[k].cur = byHand'[k]
    BY DEF ManualKept
  <2>1. CASE k \in S
    <3>1. axisState'[k] = [axisState[k] EXCEPT !.mode = "manual", !.cur = r] /\ byHand'[k] = r
      BY <1>1, <2>1
    <3>2. QED
      BY <1>1, <1>2, <2>1, <3>1 DEF ScaleStates
  <2>2. CASE k \notin S
    BY <1>1, <2>2 DEF ScaleInv, ManualKept
  <2>3. QED
    BY <2>1, <2>2
<1>6. QED
  BY <1>1, <1>4, <1>5, ScaleForgotten

LEMMA ScaleResetAxesStep ==
  ASSUME ScaleInv, NEW S \in SUBSET DOMAIN axisState, resetAxes(S)
  PROVE  ScaleInv'
<1>0. ScaleTyped
  BY DEF ScaleInv
<1>1. /\ axisState' = [k \in DOMAIN axisState |->
                        IF k \in S THEN [axisState[k] EXCEPT !.mode = "auto", !.snap = TRUE] ELSE axisState[k]]
      /\ byHand' = [k \in DOMAIN byHand \cap (Keys \ S) |-> byHand[k]]
      /\ data' = NothingDrawn
      /\ UNCHANGED <<series, axisMode, visible>>
  BY DEF resetAxes, Only
<1>2. \A k \in DOMAIN axisState : axisState[k] \in ScaleStates
  BY <1>0 DEF ScaleTyped, ScaleStates
<1>3. \A k \in DOMAIN axisState : axisState'[k] \in ScaleStates
  BY <1>1, <1>2 DEF ScaleStates, ScaleModes
<1>4. ScaleTyped'
  <2>1. axisState' \in [DOMAIN axisState' -> ScaleStates] /\ DOMAIN axisState' = DOMAIN axisState
    BY <1>1, <1>3
  <2>2. byHand' \in [DOMAIN byHand' -> Ranges] /\ DOMAIN byHand' \subseteq DOMAIN byHand
    BY <1>0, <1>1 DEF ScaleTyped
  <2>3. data' \in [Curves -> Shows \cup {Empty}]
    BY <1>1 DEF NothingDrawn
  <2>4. QED
    BY <1>0, <1>1, <2>1, <2>2, <2>3 DEF ScaleTyped, ScaleStates
<1>5. ManualKept'
  BY <1>1 DEF ScaleInv, ManualKept
<1>6. QED
  BY <1>1, <1>4, <1>5, ScaleForgotten

(* The gestures on curves leave the scales alone.                          *)
LEMMA ScaleCurvesStep ==
  ASSUME ScaleInv, UNCHANGED <<axisState, byHand>>, data' = NothingDrawn,
         series' \subseteq Curves, visible' \subseteq Curves,
         axisMode' \in [Curves -> Keys \cup {AutoAxis}]
  PROVE  ScaleInv'
<1>1. ScaleTyped'
  BY DEF ScaleInv, ScaleTyped, NothingDrawn
<1>2. ManualKept'
  BY DEF ScaleInv, ManualKept
<1>3. QED
  BY <1>1, <1>2, ScaleForgotten

LEMMA ScaleChooseAxisStep == ASSUME ScaleInv, NEW s \in Curves, ChooseAxis(s) PROVE ScaleInv'
<1>0. ScaleTyped
  BY DEF ScaleInv
<1>1. PICK m \in {AutoAxis, s} \cup {axisKey(o) : o \in (series \cap visible) \ {s}} :
        axisMode' = [axisMode EXCEPT ![s] = m]
  BY DEF ChooseAxis
<1>2. m \in Keys \cup {AutoAxis}
  <2>1. s \in Keys
    BY DEF Keys
  <2>2. \A o \in series : axisKey(o) \in Keys
    BY <1>0, ScaleKeysTyped DEF ScaleTyped
  <2>3. QED
    BY <2>1, <2>2
<1>3. axisMode' \in [Curves -> Keys \cup {AutoAxis}]
  BY <1>0, <1>1, <1>2 DEF ScaleTyped
<1>4. QED
  BY <1>0, <1>3, ScaleCurvesStep DEF ChooseAxis, ScaleTyped

LEMMA ScaleStepInv == ScaleInv /\ [Next]_vars => ScaleInv'
<1> SUFFICES ASSUME ScaleInv, [Next]_vars PROVE ScaleInv'
  OBVIOUS
<1>0. ScaleTyped
  BY DEF ScaleInv
<1>1. CASE UNCHANGED vars
  BY <1>1 DEF vars, ScaleInv, ScaleTyped, ScaleOnScale, AutoCovers, ManualKept, axisKey
<1>2. CASE Render
  BY <1>2, ScaleRenderStep
<1>3. CASE \E S \in {{k} : k \in DOMAIN axisState} \cup {DOMAIN axisState} :
             (\E r \in HandRanges : setAxisRange(S, r)) \/ resetAxes(S)
  BY <1>3, ScaleSetAxisRangeStep, ScaleResetAxesStep
<1>4. CASE setToutesVisibles \/ \E s \in Curves : setSeriesVisible(s) \/ addSeries(s)
  <2>1. visible' \subseteq Curves /\ series' \subseteq Curves /\ axisMode' = axisMode
    BY <1>0, <1>4 DEF setToutesVisibles, setSeriesVisible, addSeries, ScaleTyped
  <2>2. UNCHANGED <<axisState, byHand>> /\ data' = NothingDrawn
    BY <1>4 DEF setToutesVisibles, setSeriesVisible, addSeries
  <2>3. QED
    BY <1>0, <2>1, <2>2, ScaleCurvesStep DEF ScaleTyped
<1>5. CASE \E s \in Curves : removeSeries(s)
  <2>1. visible' \subseteq Curves /\ series' \subseteq Curves /\ axisMode' \in [Curves -> Keys \cup {AutoAxis}]
    BY <1>0, <1>5 DEF removeSeries, ScaleTyped
  <2>2. QED
    BY <1>5, <2>1, ScaleCurvesStep DEF removeSeries
<1>6. CASE \E s \in Curves : ChooseAxis(s)
  BY <1>6, ScaleChooseAxisStep
<1>7. QED
  BY <1>1, <1>2, <1>3, <1>4, <1>5, <1>6 DEF Next

-----------------------------------------------------------------------------
(* The theorems.                                                           *)

\* The inductive invariant of the views.
THEOREM ViewInvariant == Vi!Spec => []ViewInv
  BY ViewInitInv, ViewStepInv, PTL DEF Vi!Spec

\* A behaviour of the views of the page is one of View.
LEMMA ViewPart == PageSpec => Vi!Spec
<1>1. PageInit => Vi!Init
  BY DEF PageInit
<1>2. [PageNext]_<<part, mosaicVars, workspaceVars, viewVars, scaleVars>> => [Vi!Next]_(Vi!vars)
  BY DEF PageNext, viewVars, Vi!vars, Vi!source
<1>3. QED
  BY <1>1, <1>2, PTL DEF PageSpec, Vi!Spec

\* What a chart or a table shows at an instant is the value in force at that
\* instant, or nothing, and a measure is made on a view that stands still
\* (chart.js), for any tiles, windows, horizons and clocks, through restarts.
THEOREM ValuesRight == PageSpec => []ValuesOfTheirInstant
<1>1. ViewInv => Vi!TypeOK
  BY DEF ViewInv, ViewTyped, ViewEndKept, Vi!TypeOK, Vi!Tiles
<1>2. ViewInv => Vi!NeverAnother /\ Vi!MeasureStands
  BY ViewReadingsTrue DEF ViewInv
<1>3. ViewInv => ValuesOfTheirInstant
  BY <1>1, <1>2 DEF ValuesOfTheirInstant
<1>4. QED
  BY <1>3, ViewInvariant, ViewPart, PTL

\* What is frozen stays: neither the view nor what is drawn of it changes while
\* nobody touches it, as long as the source may hold its samples.
THEOREM Frozen == PageSpec => FrozenStands
<1>1. ViewInv /\ [Vi!Next]_(Vi!vars) => Vi!AllStand
  BY ViewEachStands DEF Vi!AllStand
<1>2. Vi!Spec => Vi!FrozenStands
  BY <1>1, ViewInvariant, PTL DEF Vi!FrozenStands, Vi!Spec
<1>3. QED
  BY <1>2, ViewPart DEF FrozenStands

\* The inductive invariant of the scales.
THEOREM ScaleInvariant == Spec => []ScaleInv
  BY ScaleInitInv, ScaleStepInv, PTL DEF Spec

\* A behaviour of the scales of the page is one of Scale.
LEMMA ScalePart == PageSpec => Spec
<1>1. PageInit => Init
  BY DEF PageInit
<1>2. [PageNext]_<<part, mosaicVars, workspaceVars, viewVars, scaleVars>> => [Next]_vars
  BY DEF PageNext, scaleVars, vars
<1>3. QED
  BY <1>1, <1>2, PTL DEF PageSpec, Spec

\* An automatic scale covers what its curves show, and one set by hand keeps its
\* range until it is given up (computeGroups of chart.js), for any curves, units
\* and ranges of values.
THEOREM Scales == PageSpec => []ScalesRight
<1>1. ScaleInv => ScalesRight
  BY DEF ScaleInv, ScaleTyped, TypeOK, ScalesRight
<1>2. QED
  BY <1>1, ScaleInvariant, ScalePart, PTL
=============================================================================
