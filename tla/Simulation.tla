----------------------------- MODULE Simulation -----------------------------
(***************************************************************************)
(* The source of a page that has no controller (src/web/js/sim.js): one    *)
(* variable, simulated in the page on the grid of its period, which the    *)
(* tiles subscribe to. It is made as the controller source is (Sampling)   *)
(* but for three things: the operator stops the acquisition and starts it  *)
(* again, a frozen tile holds the history beyond its horizon, and a forced *)
(* value is shown at once.                                                 *)
(*                                                                         *)
(* The timer of a hidden page is late by any time.                         *)
(***************************************************************************)
EXTENDS Sampling

CONSTANTS
  Periods,    \* periods asked for
  Forced,     \* values that operators force
  HoldMax,    \* holdMaxS: a frozen tile holds no more than that
  Slack,      \* samples beyond the horizon that are purged together, 400
  MaxRefs,    \* bound: subscriptions of the tiles
  MaxClock,   \* bound: ticks
  None

VARIABLES
  brut,       \* seconds since the page was loaded
  running,    \* enMarche
  haltedAt,   \* arreteA
  start,      \* captureT0
  hold,       \* holdT, or None
  net,        \* the variable is a point of a link, which nothing forces
  chan,       \* its entry of regs: period, next sample, history
  refs,       \* its references
  forced,     \* its forced value, or None
  order       \* history: the value asked for last, and when
vars == <<brut, running, haltedAt, start, hold, net, chan, refs, forced, order>>

NoChannel == [period |-> 0, next |-> 0, since |-> 0, born |-> 0, buf |-> <<>>]

\* The clock of the source stops with the acquisition.
now == IF running THEN brut ELSE haltedAt

TypeOK ==
  /\ brut \in 0..MaxClock /\ haltedAt \in 0..MaxClock /\ start \in Int
  /\ running \in BOOLEAN /\ net \in BOOLEAN /\ hold \in {None} \cup 0..MaxClock
  /\ refs \in 0..MaxRefs /\ (refs = 0 <=> chan = NoChannel)
  /\ forced \in Forced \cup {None}
  /\ chan.period \in 0..MaxPeriod /\ chan.next \in Int
  /\ \A i \in DOMAIN chan.buf : chan.buf[i] \in [t : Int, v : Forced \cup {Generated}]

Init ==
  /\ brut = 0 /\ running = TRUE /\ haltedAt = 0 /\ start = -Horizon /\ hold = None
  /\ net \in BOOLEAN
  /\ chan = NoChannel /\ refs = 0 /\ forced = None /\ order = [v |-> None, at |-> 0]

-----------------------------------------------------------------------------
\* The first subscription fills the whole horizon, the start of the capture
\* included; a further one may tighten the period.
subscribe(asked) ==
  /\ refs < MaxRefs
  /\ refs' = refs + 1
  /\ chan' = IF refs = 0
             THEN [NewChannel(PeriodOf(asked), now) EXCEPT !.since = now - Horizon - 1]
             ELSE Tightened(chan, PeriodOf(asked), now)
  /\ UNCHANGED <<brut, running, haltedAt, start, hold, net, forced, order>>

unsubscribe ==
  /\ refs > 0
  /\ refs' = refs - 1
  /\ chan' = IF refs = 1 THEN NoChannel ELSE chan
  /\ UNCHANGED <<brut, running, haltedAt, start, hold, net, forced, order>>

\* Variant: nothing is held for the frozen tiles.
OldestDropping == now - Horizon

\* The oldest instant that the history keeps.
Oldest ==
  LET horizon == now - Horizon
      held == IF hold = None THEN horizon
              ELSE IF hold > now - HoldMax THEN hold ELSE now - HoldMax
  IN IF held < horizon THEN held ELSE horizon

\* The purge waits until enough samples are too old.
Purged(buf) ==
  IF Len(buf) - Len(Trimmed(buf, Oldest)) > Slack THEN Trimmed(buf, Oldest) ELSE buf

tick ==
  /\ running /\ refs > 0
  /\ LET due == Due(chan, now, IF forced = None THEN Generated ELSE forced)
     IN chan' = [chan EXCEPT !.next = From(chan, now) + Len(due),
                             !.since = IF Late(chan, now) THEN now - 1 ELSE @,
                             !.buf = Purged(@ \o due)]
  /\ UNCHANGED <<brut, running, haltedAt, start, hold, net, refs, forced, order>>

\* A tile is frozen on an instant of the history, or on one already held.
InReach(t) == t <= now /\ (t >= now - Horizon \/ (hold # None /\ t >= hold))
setHold(t) ==
  /\ t # None => InReach(t)
  /\ hold' = t
  /\ UNCHANGED <<brut, running, haltedAt, start, net, chan, refs, forced, order>>

stop ==
  /\ running
  /\ running' = FALSE /\ haltedAt' = brut
  /\ UNCHANGED <<brut, start, hold, net, chan, refs, forced, order>>

\* A new capture: its origin is now, and the history of the other is erased.
startCapture ==
  /\ ~running
  /\ running' = TRUE /\ start' = brut
  /\ chan' = IF refs = 0 THEN chan
             ELSE [chan EXCEPT !.buf = <<>>, !.next = Ceil(brut, chan.period),
                               !.since = brut - 1]
  /\ UNCHANGED <<brut, haltedAt, hold, net, refs, forced, order>>

\* The last sample shows the forced value without waiting for the next.
Marked(buf, v) ==
  IF v = None \/ buf = <<>> THEN buf ELSE [buf EXCEPT ![Len(buf)].v = v]

write(v) ==
  /\ ~net
  /\ forced' = v
  /\ chan' = [chan EXCEPT !.buf = Marked(@, v)]
  /\ order' = IF v = order.v THEN order ELSE [v |-> v, at |-> now]
  /\ UNCHANGED <<brut, running, haltedAt, start, hold, net, refs>>

Time ==
  /\ brut < MaxClock
  /\ brut' = brut + 1
  /\ UNCHANGED <<running, haltedAt, start, hold, net, chan, refs, forced, order>>

Next ==
  \/ \E asked \in Periods : subscribe(asked)
  \/ unsubscribe \/ tick \/ stop \/ startCapture \/ Time
  \/ \E t \in {None} \cup 0..MaxClock : setHold(t)
  \/ \E v \in Forced \cup {None} : write(v)

Spec == Init /\ [][Next]_vars

-----------------------------------------------------------------------------
latest == IF chan.buf = <<>> THEN None ELSE chan.buf[Len(chan.buf)].v

\* The value `delta` before the last sample, or the oldest one (past).
past(delta) ==
  IF chan.buf = <<>> THEN None
  ELSE LET last == Len(chan.buf)
           before == {i \in 1..last : chan.buf[i].t <= chan.buf[last].t - delta}
       IN IF before = {} THEN chan.buf[1].v
          ELSE chan.buf[CHOOSE i \in before : \A j \in before : j <= i].v

(* The samples are in order, each once, none later than the clock of the   *)
(* source, however often it was stopped, hidden or asked for another       *)
(* period; those taken since are on the grid.                              *)
OnTheGrid ==
  LET buf == chan.buf IN
  /\ \A i \in 1..(Len(buf) - 1) : buf[i].t < buf[i + 1].t
  /\ \A i \in DOMAIN buf :
        /\ buf[i].t <= now
        /\ buf[i].t > chan.since => buf[i].t % chan.period = 0

(* What a tile is frozen on stays, as long as HoldMax: no date of the grid *)
(* is missing between the frozen instant, or the horizon, and now.         *)
FrozenKept ==
  \A k \in (-Horizon)..(chan.next - 1) :
     LET t == k * chan.period IN
     /\ t > chan.since
     /\ t >= now - Horizon \/ (hold # None /\ t >= hold /\ t >= now - HoldMax)
     => \E i \in DOMAIN chan.buf : chan.buf[i].t = t

(* A capture shows nothing from before its start, but of the variables     *)
(* that were added since, whose horizon is filled all the same.            *)
OfThisCapture ==
  chan.born < start => \A i \in DOMAIN chan.buf : chan.buf[i].t >= start

(* No sample later than the order shows anything but the value forced, or  *)
(* none once it is released, but for what fills a new channel; and the     *)
(* last one shows the value in force, whenever it was taken.               *)
ForceShown ==
  /\ \A i \in DOMAIN chan.buf :
        chan.buf[i].t > order.at /\ chan.buf[i].t > chan.born =>
           chan.buf[i].v = IF order.v = None THEN Generated ELSE order.v
  /\ net => \A i \in DOMAIN chan.buf : chan.buf[i].v = Generated
  /\ forced # None /\ chan.buf # <<>> /\ chan.buf[Len(chan.buf)].t > chan.born
        => latest = forced /\ past(0) = forced
=============================================================================
