----------------------------- MODULE MCJournal -----------------------------
(***************************************************************************)
(* The two sources for TLC, explored side by side: that of the controller  *)
(* with a campaign that journals it (Journal), and that of a page without  *)
(* a controller (Simulation). A behaviour is one of the two, chosen at the *)
(* start, and the other stays in its initial state.                        *)
(*                                                                         *)
(* The periods asked for are below the shortest one and above the longest; *)
(* the server lives twice. The page keeps a shorter history, and holds a   *)
(* little more of it for a tile that is frozen.                            *)
(***************************************************************************)
EXTENDS Journal

CONSTANTS
  SimHorizon, HoldMax, Slack,   \* horizonS, holdMaxS and the slack of the purge (Simulation)
  MaxRefs, MaxClock             \* bounds (Simulation)

ASSUME SimulationAssumption ==
  {SimHorizon, HoldMax, Slack, MaxRefs, MaxClock} \subseteq Nat

VARIABLES
  part,
  brut, running, haltedAt, start, hold, net, simChan, refs, simForced, simOrder

Si == INSTANCE Simulation WITH
  Horizon <- SimHorizon,
  chan <- simChan, forced <- simForced, order <- simOrder
simulationVars == <<brut, running, haltedAt, start, hold, net, simChan, refs,
                    simForced, simOrder>>

MCInit ==
  /\ part \in {"journal", "simulation"}
  /\ Init /\ Si!Init
  /\ part # "journal" => file = NoFile
  /\ part # "simulation" => ~net

MCNext ==
  /\ part' = part
  /\ \/ part = "journal" /\ Next /\ UNCHANGED simulationVars
     \/ part = "simulation" /\ Si!Next /\ UNCHANGED vars

MCSpec == MCInit /\ [][MCNext]_<<part, vars, simulationVars>>

\* What a page simulates is dated, kept and forced as it says (sim.js).
SimulationSound ==
  part = "simulation" =>
    Si!TypeOK /\ Si!OnTheGrid /\ Si!FrozenKept /\ Si!OfThisCapture /\ Si!ForceShown
=============================================================================
