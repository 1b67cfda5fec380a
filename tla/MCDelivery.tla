----------------------------- MODULE MCDelivery -----------------------------
(***************************************************************************)
(* What campaigns are given, for TLC: their samples (Delivery), and what a *)
(* page believes of those it started (Campaign), explored side by side: a  *)
(* behaviour is one of them, chosen at the start, and the other stays in   *)
(* its initial state.                                                      *)
(*                                                                         *)
(* Delivery: a point of period 2 whose device may be late by one, two or   *)
(* (beyond the threshold) three ticks, or ahead by one. Campaign: two tabs *)
(* whose names, once cleaned, are the same.                                *)
(***************************************************************************)
EXTENDS Delivery, TLC

CONSTANTS
  t1, t2, n1, n2,
  None, Tabs, Names, Clean, MaxCalls   \* Campaign

VARIABLES part, running, tab, saved, online, modal, posts, sure

Ca == INSTANCE Campaign

\* A page has finitely many tabs, and none is the absence of one.
ASSUME CampaignAssumption ==
  /\ None \notin Tabs /\ None \notin Ca!TabStates
  /\ IsFiniteSet(Tabs) /\ MaxCalls \in Nat

campaignVars == <<running, tab, saved, online, modal, posts, sure>>

MCSkews == {-3, -2, 1}
ToTheSame == [n \in Names |-> n2]

\* The readers change nothing but themselves and no property relates them, so
\* that each is explored without the other.
OneReader == ~ (rec.on /\ ws.on)

\* One of the tabs at a time asks for a campaign of its own browser: what such a
\* campaign does concerns no other tab.
OneAtHome ==
  ~ \E t, u \in Tabs :
      /\ t # u /\ tab'[t] # None /\ tab'[u] # None
      /\ tab'[t].dest = "browser" /\ tab'[u].dest = "browser"

Symmetry == Permutations(Tabs)

MCInit ==
  /\ part \in {"delivery", "campaign"}
  /\ Init /\ Ca!Init
  /\ part = "delivery" => ~online /\ tab[t1] = Ca!Fresh(n1)
  /\ part = "campaign" => dated = "server"

MCNext ==
  /\ part' = part
  /\ \/ part = "delivery" /\ Next /\ UNCHANGED campaignVars
     \/ part = "campaign" /\ Ca!Next /\ OneAtHome /\ UNCHANGED vars

MCSpec == MCInit /\ [][MCNext]_<<part, vars, campaignVars>>

\* A dot tells whether its campaign runs (reconcileServerLogging, app.js).
DotTells == part = "campaign" => Ca!TypeOK /\ Ca!DotTells
=============================================================================
