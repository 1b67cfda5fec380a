------------------------------- MODULE Config -------------------------------
(***************************************************************************)
(* The window of the network links (src/web/js/protocols-ui.js) over the   *)
(* configuration the page holds (protocols.js): a list of links which the  *)
(* forms change in place, letter after letter, and which is sent whole     *)
(* whenever anything is saved. « Annuler » reads it again; while the       *)
(* server does not answer, the configuration is the browser's.             *)
(*                                                                         *)
(* A link is its identifier and those of its points; what else it holds    *)
(* (protocol, parameters, enabled) is changed and sent the same way. One   *)
(* call at a time is under way: what a reading and a save that cross do is *)
(* left out, what is typed during either is not. A window that shows the   *)
(* points of a link which is no longer in the configuration, or of none,   *)
(* is astray: nothing done there reaches the configuration.                *)
(***************************************************************************)
EXTENDS Naturals, SequencesExt

CONSTANTS
  Ids,         \* identifiers the form accepts for a link
  Points,      \* identifiers it accepts for a point
  Bad,         \* what the check of a form refuses
  Files,       \* configurations a file, the controller or the browser may hold
  Demo,        \* the simulated links of a page without server
  MaxLinks     \* bound on the links of the configuration

Nowhere == 0
Here == MaxLinks + 1       \* wherever the window is when the call ends

VARIABLES
  served,      \* configuration held by the controller
  mode,        \* P.mode
  config,      \* P.config.links
  view,        \* what the window shows
  at,          \* place of the link the window is about (`editing`)
  draft,       \* the new link of the form, not yet in the list (`_new`)
  point,       \* identifier in the form of a point
  new,         \* the point of the form is not yet in the list of its link
  saving,      \* the PUT under way, a sequence of at most one
  loading,     \* the GET under way, a sequence of at most one
  apart,       \* history: page and controller have a reason to differ
  since,       \* history: one that came after the last save was sent
  crossed      \* history: since it was opened the window has read the list again,
               \* or it was opened during a call
vars == <<served, mode, config, view, at, draft, point, new,
          saving, loading, apart, since, crossed>>
form == <<at, draft, point, new>>
calls == <<saving, loading>>
history == <<apart, since, crossed>>

Link(i) == [id |-> i, points |-> {}]
NoLink == Link(Bad)

TypeOK ==
  /\ mode \in {"server", "local"}
  /\ view \in {"closed", "astray", "links", "link", "points", "point"}
  /\ at \in 0..Len(config) /\ Len(config) <= MaxLinks
  /\ point \in Points \cup {Bad} /\ new \in BOOLEAN
  /\ draft # NoLink => view = "link" /\ at = Nowhere
  /\ Len(saving) <= 1 /\ Len(loading) <= 1

-----------------------------------------------------------------------------
(* What is sent: normalize(), a copy put in order.                         *)

FirstOfItsId(s, i) == \A j \in 1..(i - 1) : s[j].id # s[i].id

\* Variant: several links of one identifier.
KeptValid(s, i) == s[i].id # Bad

Kept(s, i) == s[i].id # Bad /\ FirstOfItsId(s, i)

normalize(s) ==
  LET keep(i) == IF Kept(s, i)
                 THEN <<[s[i] EXCEPT !.points = @ \ {Bad}]>> ELSE <<>>
  IN FlattenSeq([i \in DOMAIN s |-> keep(i)])

WrittenBare == config

\* A point that is being edited is in the list of its link, unless it is new.
Written ==
  IF view = "point" /\ ~new /\ at # Nowhere
  THEN [config EXCEPT ![at].points = @ \cup {point}] ELSE config

Init ==
  /\ served \in {normalize(f) : f \in Files}
  /\ mode = "server" /\ config = served
  /\ view = "closed" /\ at = Nowhere /\ draft = NoLink /\ point = Bad /\ new = FALSE
  /\ saving = <<>> /\ loading = <<>>
  /\ apart = FALSE /\ since = FALSE /\ crossed = FALSE

-----------------------------------------------------------------------------
(* The calls.                                                              *)

\* P.save(): the configuration as it is now leaves, for where P.mode says.
\* `then` is the view its end brings, `link` the place it gives `editing`.
Send(sent, then, link) ==
  /\ calls = <<<<>>, <<>>>>
  /\ saving' = <<[to |-> mode, config |-> normalize(sent), then |-> then, link |-> link]>>
  /\ since' = FALSE

\* P.load(): `link` is the link whose points are shown at its end.
Read(then, link) ==
  /\ calls = <<<<>>, <<>>>>
  /\ loading' = <<[answer |-> <<>>, stale |-> FALSE, then |-> then, link |-> link]>>

\* What leaving a form leaves behind it.
NoForm == draft' = NoLink /\ point' = Bad /\ new' = FALSE

\* The points of a link out of the list, or of none: an empty window.
Shown(v, place) == IF v = "points" /\ place = Nowhere THEN "astray" ELSE v

\* The end of persist(), whatever the outcome.
Saved(call) ==
  /\ saving' = <<>>
  /\ IF view = "closed" \/ call.then = "list" THEN UNCHANGED <<config, view, form>>
     ELSE LET place == IF call.link = Here THEN at ELSE call.link
          IN /\ config' = Written /\ NoForm
             /\ at' = IF call.then = "points" THEN place ELSE Nowhere
             /\ view' = Shown(call.then, place)

\* save() leaves the live list alone.
SaveDone ==
  /\ saving # <<>>
  /\ Saved(saving[1])
  /\ served' = IF saving[1].to = "server" THEN saving[1].config ELSE served
  /\ apart' = since
  /\ UNCHANGED <<mode, loading, since, crossed>>

\* Refused, or lost on its way there or back.
SaveFailed ==
  /\ saving # <<>> /\ saving[1].to = "server"
  /\ Saved(saving[1])
  /\ served' \in {served, saving[1].config}
  /\ apart' = TRUE /\ since' = TRUE
  /\ UNCHANGED <<mode, loading, crossed>>

LoadServed ==
  /\ loading # <<>> /\ loading[1].answer = <<>>
  /\ loading' = <<[loading[1] EXCEPT !.answer = <<served>>]>>
  /\ UNCHANGED <<served, mode, config, view, form, saving, history>>

\* The list read replaces the live one, and the forms lose their links.
Loaded(list) ==
  LET call == loading[1]
      place == SelectInSeq(list, LAMBDA l : l.id = call.link)
  IN /\ loading' = <<>> /\ config' = list /\ NoForm
     /\ IF view = "closed" THEN view' = view /\ at' = Nowhere
        ELSE /\ at' = IF call.then = "points" THEN place ELSE Nowhere
             /\ view' = Shown(call.then, place)
     /\ UNCHANGED <<served, saving>>

LoadDone ==
  /\ loading # <<>> /\ loading[1].answer # <<>>
  /\ Loaded(normalize(loading[1].answer[1]))
  /\ mode' = "server"
  /\ apart' = loading[1].stale /\ since' = apart' /\ crossed' = TRUE

\* Without an answer, the links the browser has stored, whatever they are,
\* else those of the page.
LoadFailed ==
  /\ loading # <<>>
  /\ \E kept \in {normalize(f) : f \in Files} \cup {Written} :
       Loaded(IF kept = <<>> THEN Demo ELSE kept)
  /\ mode' = "local"
  /\ apart' = TRUE /\ since' = TRUE /\ crossed' = TRUE

\* Another station saves.
Elsewhere ==
  /\ served' \in {normalize(f) : f \in Files} \ {served}
  /\ loading' = [i \in DOMAIN loading |->
       [loading[i] EXCEPT !.stale = loading[i].answer # <<>>]]
  /\ apart' = TRUE /\ since' = TRUE
  /\ UNCHANGED <<mode, config, view, form, saving, crossed>>

-----------------------------------------------------------------------------
(* The window. A change of the live list is a reason to differ until sent. *)

Typed == apart' = TRUE /\ since' = TRUE /\ UNCHANGED crossed
Still == UNCHANGED <<served, mode>>

Open ==
  /\ view = "closed"
  /\ view' = "links" /\ crossed' = (calls # <<<<>>, <<>>>>)
  /\ UNCHANGED <<served, mode, config, form, calls, apart, since>>

Close ==
  /\ view # "closed"
  /\ view' = "closed" /\ at' = Nowhere /\ config' = Written /\ NoForm
  /\ UNCHANGED <<served, mode, calls, history>>

NewLink ==
  /\ view = "links" /\ Len(config) < MaxLinks
  /\ \E i \in Ids \ {config[k].id : k \in DOMAIN config} :
       view' = "link" /\ at' = Nowhere /\ draft' = Link(i)
  /\ UNCHANGED <<served, mode, config, point, new, calls, history>>

Visit(v) ==
  /\ view = "links"
  /\ \E i \in DOMAIN config : view' = v /\ at' = i
  /\ UNCHANGED <<served, mode, config, draft, point, new, calls, history>>

TypeId ==
  /\ view = "link" /\ Still
  /\ \E v \in Ids \cup {Bad} :
       IF at = Nowhere
       THEN draft' = Link(v) /\ UNCHANGED <<config, history>>
       ELSE config' = [config EXCEPT ![at].id = v] /\ Typed /\ UNCHANGED draft
  /\ UNCHANGED <<view, at, point, new, calls>>

\* validateLink: an identifier of its own. Then the new link joins the list.
Joined ==
  LET link == IF at = Nowhere THEN draft ELSE config[at]
      others == {i \in DOMAIN config : i # at}
  IN /\ link.id # Bad /\ \A i \in others : config[i].id # link.id
     /\ IF at # Nowhere THEN UNCHANGED <<config, at>>
        ELSE config' = Append(config, draft) /\ at' = Len(config) + 1
     /\ draft' = NoLink

SaveLink(then) ==
  /\ view = "link" /\ Len(config) + (IF at = Nowhere THEN 1 ELSE 0) <= MaxLinks
  /\ Joined /\ Send(config', then, Here)
  /\ apart' = TRUE
  /\ UNCHANGED <<served, mode, view, point, new, loading, crossed>>

CancelLink ==
  /\ view = "link" /\ Read("links", Bad)
  /\ UNCHANGED <<served, mode, config, view, form, saving, history>>

\* Activer, Désactiver, Supprimer, Importer: the list changes and leaves.
Change(list) ==
  /\ config' = list /\ Send(list, "list", Here) /\ apart' = TRUE
  /\ UNCHANGED <<served, mode, view, form, loading, crossed>>

Toggle == view = "links" /\ config # <<>> /\ Change(config)

Delete ==
  /\ view = "links"
  /\ \E i \in DOMAIN config : Change(RemoveAt(config, i))

importConfig ==
  /\ view = "links"
  /\ \E f \in Files : Change(normalize(f))

Back ==
  /\ view \in {"points", "astray"}
  /\ view' = "links" /\ at' = Nowhere
  /\ UNCHANGED <<served, mode, config, draft, point, new, calls, history>>

PointsHere == config[at].points
WithPoints(set) == [config EXCEPT ![at].points = set]

NewPoint ==
  /\ view = "points"
  /\ \E p \in Points \ PointsHere : view' = "point" /\ point' = p /\ new' = TRUE
  /\ UNCHANGED <<served, mode, config, at, draft, calls, history>>

EditPoint ==
  /\ view = "points"
  /\ \E p \in PointsHere :
       /\ view' = "point" /\ point' = p /\ new' = FALSE
       /\ config' = WithPoints(PointsHere \ {p})
  /\ UNCHANGED <<served, mode, at, draft, calls, history>>

ChangePoints ==
  /\ view = "points"
  /\ \/ \E p \in PointsHere, q \in Points \ PointsHere :
          Change(WithPoints(PointsHere \cup {q}))           \* Dupliquer
     \/ \E p \in PointsHere : Change(WithPoints(PointsHere \ {p}))

TypePoint ==
  /\ view = "point" /\ Still
  /\ point' \in (Points \cup {Bad}) \ {point}
  /\ IF new THEN UNCHANGED history ELSE Typed
  /\ UNCHANGED <<config, view, at, draft, new, calls>>

\* validatePoint: an identifier of its own. Then the new point joins the list,
\* where the form goes on changing it.
SavePoint ==
  /\ view = "point" /\ point # Bad /\ point \notin PointsHere
  /\ new' = FALSE
  /\ Send(WithPoints(PointsHere \cup {point}), "points", at)
  /\ UNCHANGED <<served, mode, config, view, at, draft, point, loading, crossed>>
  /\ apart' = TRUE

CancelPoint ==
  /\ view = "point" /\ Read("points", config[at].id)
  /\ UNCHANGED <<served, mode, config, view, form, saving, history>>

-----------------------------------------------------------------------------
Calls == SaveDone \/ SaveFailed \/ LoadServed \/ LoadDone \/ LoadFailed

Window ==
  \/ Open \/ Close \/ NewLink \/ Visit("link") \/ Visit("points")
  \/ TypeId \/ SaveLink("links") \/ SaveLink("points") \/ CancelLink
  \/ Toggle \/ Delete \/ importConfig \/ Back
  \/ NewPoint \/ EditPoint \/ ChangePoints \/ TypePoint
  \/ SavePoint \/ CancelPoint

Next == Calls \/ Elsewhere \/ Window
Spec == Init /\ [][Next]_vars

-----------------------------------------------------------------------------
(* Properties.                                                             *)

\* An address @link.point names one variable: the configurations that are
\* sent, to the controller or to the browser's storage, have links with
\* distinct and well-formed identifiers, whatever the forms held when they were sent,
\* half typed or twice the same (protocols.js, normalize).
Unambiguous ==
  \A c \in {served} \cup {saving[i].config : i \in DOMAIN saving} :
    \A i \in DOMAIN c :
      /\ c[i].id # Bad /\ Bad \notin c[i].points
      /\ \A j \in DOMAIN c : c[i].id = c[j].id => i = j

\* Once the calls have ended, and when nothing was typed or changed since the
\* last save left, no call failed, no other station saved and no reading
\* crossed a save, what the page holds is what the controller holds: a point
\* or a link a form was about is not lost on the way, and a save does not
\* cut the forms from the list (protocols.js, save, its comment).
Agrees ==
  mode = "server" /\ saving = <<>> /\ ~apart => normalize(Written) = served

\* What is typed in a form reaches the configuration: saving never leaves the
\* window on a link, or on a point of a link, that is not in it, where changes
\* would be « écrites dans des objets orphelins » (protocols.js, save). Only a
\* reading of the list (« Annuler »), or a window closed and opened again
\* before the end of a call, may do it.
FormIsLive ==
  view = "astray" \/ (view = "point" /\ at = Nowhere) => crossed

\* What is edited is what is sent: forms are on the live list, and the list of
\* the controller is that of the page.
ListIsLive == Agrees /\ FormIsLive
=============================================================================
