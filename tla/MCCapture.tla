----------------------------- MODULE MCCapture -----------------------------
(***************************************************************************)
(* The captures for TLC, on the controller (Capture), in the page that     *)
(* shows them (Pages), and those a page without a controller simulates     *)
(* (NetSim), explored side by side: a behaviour is one part, chosen at the *)
(* start, and the other modules stay in their initial state.               *)
(*                                                                         *)
(* Capture is bounded in two ways. "disk": two interfaces, three captures, *)
(* a quota that changes, no trigger. "trigger": one interface, two         *)
(* captures, a quota that stands, two variables of which the sources know  *)
(* one, triggers that differ in what they observe and in when they fire.   *)
(* NetSim has two interfaces, of which one weighs twice the other.         *)
(***************************************************************************)
EXTENDS Capture

CONSTANTS
  e0, e1, a, b, s1,
  PageRuns, PageSettings, MaxReadings, MaxIntervals,        \* of Pages
  SimIfaces, SimUnknown, SimWatched, SimRate, SimQuotas, SimDurations, SimMaxClock,
  SimMaxRuns                                                \* of NetSim

ASSUME PagesAssumption == MaxReadings \in Nat \ {0} /\ MaxIntervals \in Nat
ASSUME SimAssumption ==
  /\ SimDurations \subseteq Nat /\ SimQuotas \subseteq Nat
  /\ SimRate \in [SimIfaces -> Nat] /\ SimMaxClock \in Nat

VARIABLES part, run, setting, page, text, body, form, fields, list, calls, late, typed,
          simClock, simRuns, simQuota, simTrigger, simArmed, value, held, shown, answered,
          reloaded, charged

Pa == INSTANCE Pages WITH Runs <- PageRuns, Settings <- PageSettings, MaxCalls <- MaxReadings,
                         MaxLate <- MaxIntervals
pageVars == <<run, setting, page, text, body, form, fields, list, calls, late, typed>>

Ne == INSTANCE NetSim WITH
  Interfaces <- SimIfaces, Unknown <- SimUnknown, Watched <- SimWatched, Rate <- SimRate,
  Quotas <- SimQuotas, Durations <- SimDurations, MaxClock <- SimMaxClock,
  MaxRuns <- SimMaxRuns,
  clock <- simClock, runs <- simRuns, quota <- simQuota, trigger <- simTrigger,
  armed <- simArmed
simulatedVars == <<simClock, simRuns, simQuota, simTrigger, simArmed, value, held, shown,
                   answered, reloaded, charged>>

Observe(addr, on) == [enabled |-> TRUE, addr |-> addr, on |-> on, iface |-> e0, dur |-> 1]
TwiceOnE1 == [i \in SimIfaces |-> IF i = e1 THEN 2 ELSE 1]
MCNoTrigger == [enabled |-> FALSE, addr |-> None, on |-> {1}, iface |-> e0, dur |-> 1]
AllTriggers == {Observe(a, {1}), Observe(a, {0}), Observe(b, {1}), MCNoTrigger}

MCInit ==
  /\ part \in {"disk", "trigger", "page", "simulated"}
  /\ Init /\ Pa!Init /\ Ne!Init
  /\ part # "page" => setting = [p \in {"capture", "lldp"} |-> s1]
  /\ part \in {"page", "simulated"} => quota = 1
  /\ part # "simulated" => simQuota = 1

\* The last of the three captures starts at the last second.
NoTriggers ==
  /\ config'.trigger \in {config.trigger, NoTrigger} /\ current' = current
  /\ started' = MaxRuns /\ started < MaxRuns => clock = MaxSec
OneInterface == quota' = quota /\ started' <= 2 /\ ~ \E r \in runs' : r.iface # e0

\* The interface that weighs more is never captured until it is stopped.
BoundedOnHeavy == ~ \E r \in simRuns' : r.dur = 0 /\ r.iface = e1

MCNext ==
  /\ part' = part
  /\ \/ part = "disk" /\ Next /\ NoTriggers /\ UNCHANGED <<pageVars, simulatedVars>>
     \/ part = "trigger" /\ Next /\ OneInterface /\ UNCHANGED <<pageVars, simulatedVars>>
     \/ part = "page" /\ Pa!Next /\ UNCHANGED <<vars, simulatedVars>>
     \/ part = "simulated" /\ Ne!Next /\ BoundedOnHeavy /\ UNCHANGED <<vars, pageVars>>

MCSpec == MCInit /\ [][MCNext]_<<part, vars, pageVars, simulatedVars>>

\* What is typed stays and what runs is not deleted (pageCapture); and a page
\* that answers itself answers as the controller does: one capture per interface,
\* ended in time, and none that outlives the condition of the trigger (netsim.js).
PagesHold ==
  /\ part = "page" => Pa!TypeOK /\ Pa!FormsHold
  /\ part = "simulated" =>
       /\ Ne!TypeOK /\ Ne!OnePerInterface /\ Ne!AnswersInTime
       /\ Ne!TriggerSees /\ Ne!ArmedIsCondition
=============================================================================
