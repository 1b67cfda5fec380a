------------------------------- MODULE NetSim -------------------------------
(***************************************************************************)
(* The captures that a page without a controller simulates                 *)
(* (src/web/js/netsim.js): it answers the routes of the server itself,     *)
(* with captures that grow at the rate of their interface. Nothing runs    *)
(* between two answers: durations, quota and trigger are looked at when    *)
(* something is asked (service).                                           *)
(*                                                                         *)
(* The settings survive the page in its storage; captures do not, nor do   *)
(* the subscriptions of the trigger.                                       *)
(***************************************************************************)
EXTENDS Naturals, FiniteSets, FiniteSetsExt

CONSTANTS
  Interfaces,  \* those simulated
  Unknown,     \* one that is not
  Watched,     \* those that a trigger is set to capture
  Rate,        \* debit: what a capture of an interface weighs per tick
  Quotas,      \* quotas that are set, in the same unit
  Durations,   \* durations asked for, 0 for none
  MaxClock, MaxRuns   \* bounds

VARIABLES
  clock,
  runs,        \* captures: interface, duration, whether at work, dates
  quota,
  trigger,     \* the setting of the trigger
  armed,       \* trigger.armed: its condition held when it was last looked at
  value,       \* the value of the variable the trigger observes
  held,        \* the trigger holds a reference on it, or several
  shown,       \* a tile of the page shows it
  answered,    \* history: the last step answered with the state of the captures
  reloaded,    \* history: the page was reloaded since the trigger was set
  charged      \* history: captures seen at work with the trigger armed, that still are
vars == <<clock, runs, quota, trigger, armed, value, held, shown, answered, reloaded, charged>>

Off == [enabled |-> FALSE, iface |-> Unknown, dur |-> 0]
\* A trigger always has a duration: none is a minute.
Conditions ==
  {Off} \cup [enabled : {TRUE}, iface : Watched, dur : Durations \ {0}]

TypeOK ==
  /\ clock \in 0..MaxClock /\ quota \in Quotas /\ trigger \in Conditions
  /\ armed \in BOOLEAN /\ value \in {0, 1} /\ held \in BOOLEAN /\ shown \in BOOLEAN
  /\ runs \subseteq [iface : Interfaces, dur : Durations, on : BOOLEAN,
                     from : 0..MaxClock, till : 0..MaxClock]

Init ==
  /\ clock = 0 /\ runs = {} /\ quota \in Quotas /\ trigger = Off /\ armed = FALSE
  /\ value = 0 /\ held = FALSE /\ shown = FALSE /\ answered = FALSE /\ reloaded = FALSE
  /\ charged = {}

-----------------------------------------------------------------------------
(* What the handlers are made of. A state of the captures is a record of    *)
(* the captures and of `armed`.                                            *)

tailleDe(r) == Rate[r.iface] * ((IF r.on THEN clock ELSE r.till) - r.from)
occupe(rs) == LET taille == [r \in rs |-> tailleDe(r)]
              IN MapThenSumSet(LAMBDA r : taille[r], rs)

\* demarrer: why a capture is refused, or none.
Refused(rs, iface, q) ==
  \/ iface \notin Interfaces
  \/ \E r \in rs : r.on /\ r.iface = iface
  \/ occupe(rs) >= q

\* Of two captures of an interface that weigh nothing one is enough.
demarrer(rs, iface, dur) ==
  rs \cup {[iface |-> iface, dur |-> dur, on |-> TRUE, from |-> clock, till |-> 0]}

terminer(r) == [r EXCEPT !.on = FALSE, !.till = clock]
Ended(rs, which(_)) == {IF r.on /\ which(r) THEN terminer(r) ELSE r : r \in rs}
Overdue(r) == r.dur > 0 /\ clock - r.from >= r.dur
Any(r) == TRUE

\* Variant: the end of the condition stops nothing.
TriggeredOnce(s, t, q, seen) ==
  IF ~t.enabled THEN [s EXCEPT !.armed = FALSE]
  ELSE IF ~seen THEN s
  ELSE IF value = 1 /\ ~s.armed
       THEN [armed |-> TRUE,
             runs |-> IF Refused(s.runs, t.iface, q) THEN s.runs
                      ELSE demarrer(s.runs, t.iface, t.dur)]
  ELSE [s EXCEPT !.armed = (value = 1)]

\* The trigger looks at the variable if something has subscribed to it. A
\* condition that is over ends every capture, those started by hand too.
Triggered(s, t, q, seen) ==
  IF ~t.enabled THEN [s EXCEPT !.armed = FALSE]
  ELSE IF ~seen THEN s
  ELSE IF value = 1 /\ ~s.armed
       THEN [armed |-> TRUE,
             runs |-> IF Refused(s.runs, t.iface, q) THEN s.runs
                      ELSE demarrer(s.runs, t.iface, t.dur)]
  ELSE IF value = 0 /\ s.armed THEN [armed |-> FALSE, runs |-> Ended(s.runs, Any)]
  ELSE s

service(rs, t, q, seen) ==
  LET timed == Ended(rs, Overdue)
      capped == IF occupe(timed) >= q THEN Ended(timed, Any) ELSE timed
  IN Triggered([runs |-> capped, armed |-> armed], t, q, seen)

\* captureJson: every answer looks at everything first.
Answer(rs, t, q, seen) ==
  LET s == service(rs, t, q, seen)
  IN /\ Cardinality(s.runs) <= MaxRuns
     /\ runs' = s.runs /\ armed' = s.armed /\ answered' = TRUE
     /\ charged' = {r \in s.runs : r.on /\ t.enabled /\ (s.armed \/ r \in charged)}

Seen == held \/ shown

-----------------------------------------------------------------------------
(* The routes.                                                             *)

Read ==
  /\ Answer(runs, trigger, quota, Seen)
  /\ UNCHANGED <<clock, quota, trigger, value, held, shown, reloaded>>

Start(iface, dur) ==
  /\ ~Refused(runs, iface, quota)
  /\ Answer(demarrer(runs, iface, dur), trigger, quota, Seen)
  /\ UNCHANGED <<clock, quota, trigger, value, held, shown, reloaded>>

Stop(r) ==
  /\ r.on
  /\ Answer((runs \ {r}) \cup {terminer(r)}, trigger, quota, Seen)
  /\ UNCHANGED <<clock, quota, trigger, value, held, shown, reloaded>>

Delete(r) ==
  /\ ~r.on
  /\ Answer(runs \ {r}, trigger, quota, Seen)
  /\ UNCHANGED <<clock, quota, trigger, value, held, shown, reloaded>>

\* Every setting of an enabled trigger subscribes once more, and nothing ever
\* gives a reference back. `armed` goes over to the new trigger.
Config(q, t) ==
  /\ quota' = q /\ trigger' = t
  /\ held' = (held \/ t.enabled)
  /\ Answer(runs, t, q, held' \/ shown)
  /\ reloaded' = FALSE
  /\ UNCHANGED <<clock, value, shown>>

\* The page is loaded again: quota and trigger come from its storage.
Reload ==
  /\ runs' = {} /\ armed' = FALSE /\ held' = FALSE /\ shown' = FALSE
  /\ answered' = FALSE /\ reloaded' = TRUE /\ charged' = {}
  /\ UNCHANGED <<clock, quota, trigger, value>>

-----------------------------------------------------------------------------
(* Around the page.                                                        *)

Time ==
  /\ clock < MaxClock
  /\ clock' = clock + 1 /\ answered' = FALSE
  /\ UNCHANGED <<runs, quota, trigger, armed, value, held, shown, reloaded, charged>>

Moves ==
  /\ value' = 1 - value /\ answered' = FALSE
  /\ UNCHANGED <<clock, runs, quota, trigger, armed, held, shown, reloaded, charged>>

Shown ==
  /\ shown' = ~shown /\ answered' = FALSE
  /\ UNCHANGED <<clock, runs, quota, trigger, armed, value, held, reloaded, charged>>

Next ==
  \/ Read
  \/ \E i \in Interfaces, d \in Durations : Start(i, d)
  \/ \E r \in runs : Stop(r) \/ Delete(r)
  \/ \E q \in Quotas, t \in Conditions : Config(q, t)
  \/ Reload \/ Time \/ Moves \/ Shown

Spec == Init /\ [][Next]_vars

-----------------------------------------------------------------------------
(* As on the controller, no interface is captured twice at a time, by hand *)
(* and by the trigger.                                                     *)
OnePerInterface == \A r, s \in runs : r.on /\ s.on /\ r.iface = s.iface => r = s

(* Whatever was asked, no answer shows a capture past its duration, or any *)
(* one at work on a full disk.                                             *)
AnswersInTime ==
  answered => \A r \in runs : r.on => ~Overdue(r) /\ occupe(runs) < quota

(* The trigger knows the variable it was set on, until the page is loaded  *)
(* again: then only a tile that shows it makes the trigger see.            *)
TriggerSees == trigger.enabled /\ ~reloaded => held

(* After an answer of a trigger that sees, `armed` is its condition, and   *)
(* with the condition gone no capture is at work that was while it held,   *)
(* so none that the trigger has started. A trigger that is disabled        *)
(* meanwhile leaves them to their durations and to the quota.              *)
ArmedIsCondition ==
  /\ answered /\ trigger.enabled /\ Seen =>
       (armed <=> value = 1) /\ (value = 0 => charged = {})
  /\ ~trigger.enabled /\ answered => ~armed
=============================================================================
