------------------------------- MODULE Reset -------------------------------
(***************************************************************************)
(* Starting afresh (src/web/js/app.js openResetModal, store.js, boot): a   *)
(* window where the operator ticks what must go, in the browser and on the *)
(* controller, and confirms. The parts of the controller are erased first, *)
(* one request after the other; the browser last, and only if none failed. *)
(*                                                                         *)
(* A request is one step with three outcomes: done; done, but the answer   *)
(* lost; not done. Other stations save what they like between two steps.   *)
(* A behaviour has one erasing that reaches its end (step `reloaded`), and *)
(* before it as many refused ones as it likes.                             *)
(* The window may be closed during the erasing, which stops nothing.       *)
(***************************************************************************)
EXTENDS Naturals

CONSTANT Layouts                \* names of the layouts kept by the controller

Settings == {"skin", "links", "cap"}     \* appearance, links, capture settings
Parts == Settings \cup {"lays"}
Boxes == Parts \cup {"nav"}
Rank == [lays |-> 1, skin |-> 2, links |-> 3, cap |-> 4]

VARIABLES
  layouts,   \* layouts kept by the controller
  own,       \* settings of the controller that are not those of the product
  holder,    \* P.mode: who holds the links for this page
  session,   \* what the session store of this window describes
  autoload,  \* a named layout of this browser is opened when nothing else is
  timer,     \* the timer of the session's save is armed
  shows,     \* what the tabs of the page are
  step,      \* where the window is
  kind,      \* which entry of the menu opened it
  ticked,    \* boxes ticked
  todo,      \* layouts still to delete, of those listed
  failed,    \* echecs is not empty
  asked,     \* history: boxes ticked at the confirmation, and neither touched
             \*   nor saved anew by another station since
  fresh      \* history: entry whose erasing brought this page, or "none"
vars == <<layouts, own, holder, session, autoload, timer, shows, step, kind,
          ticked, todo, failed, asked, fresh>>
controller == <<layouts, own>>
browser == <<session, autoload, timer, shows, fresh>>
window == <<step, kind, ticked, todo, failed, asked>>

Tabs == {"tabs", "auto", "demo", "blank"}
Erasing == {"lays", "delete", "skin", "links", "save", "cap", "end"}

TypeOK ==
  /\ layouts \subseteq Layouts /\ own \subseteq Settings
  /\ holder \in {"server", "local"}
  /\ session \in Tabs \cup {"none"} /\ shows \in Tabs
  /\ autoload \in BOOLEAN /\ timer \in BOOLEAN
  /\ step \in Erasing \cup {"closed", "choose", "confirm", "left", "reloaded"}
  /\ kind \in {"default", "vierge"} /\ fresh \in {"none", "default", "vierge"}
  /\ ticked \subseteq Boxes /\ asked \subseteq Boxes
  /\ todo \subseteq Layouts /\ failed \in BOOLEAN

Init ==
  /\ layouts = Layouts /\ own = Settings
  /\ holder = "server" /\ session = "tabs" /\ shows = "tabs" /\ timer = FALSE
  /\ autoload \in BOOLEAN
  /\ step = "closed" /\ kind = "default" /\ ticked = {} /\ todo = {}
  /\ failed = FALSE /\ asked = {} /\ fresh = "none"

-----------------------------------------------------------------------------
(* The window, up to the confirmation. *)

Open(k) ==
  /\ step = "closed"
  /\ step' = "choose" /\ kind' = k /\ ticked' = {"nav"}
  /\ failed' = FALSE /\ todo' = {} /\ asked' = {}
  /\ UNCHANGED <<controller, browser, holder>>

Cancel ==
  /\ step \in {"choose", "confirm"}
  /\ step' = "closed" /\ ticked' = {} /\ kind' = "default"
  /\ UNCHANGED <<controller, browser, holder, todo, failed, asked>>

\* The boxes stay live during the erasing.
Tick(b) ==
  /\ step \in Erasing \cup {"choose", "confirm"}
  /\ ticked' = IF b \in ticked THEN ticked \ {b} ELSE ticked \cup {b}
  /\ asked' = asked \ {b}
  /\ UNCHANGED <<controller, browser, holder, step, kind, todo, failed>>

\* The step of the first ticked part after one of rank r.
After(r) ==
  LET left == {p \in Parts \cap ticked : Rank[p] > r}
  IN IF left = {} THEN "end"
     ELSE CHOOSE p \in left : \A q \in left : Rank[p] <= Rank[q]

FirstClick ==
  /\ step = "choose" /\ ticked # {}
  /\ step' = "confirm"
  /\ UNCHANGED <<controller, browser, holder, kind, ticked, todo, failed, asked>>

SecondClick ==
  /\ step = "confirm"
  /\ step' = After(0)
  /\ failed' = FALSE /\ asked' = ticked
  /\ UNCHANGED <<controller, browser, holder, kind, ticked, todo>>

-----------------------------------------------------------------------------
(* The requests. *)

\* Variant: a request that fails is not noted.
NotedNever == failed

\* What `echecs` becomes when the request fails.
Noted == TRUE

\* A request that gives the setting s its factory value.
Request(s) ==
  \/ own' = own \ {s} /\ failed' = failed
  \/ own' \in {own, own \ {s}} /\ failed' = Noted

ListLayouts ==
  /\ step = "lays"
  /\ \/ todo' = layouts /\ failed' = failed
        /\ step' = IF layouts = {} THEN After(1) ELSE "delete"
     \/ todo' = {} /\ failed' = Noted /\ step' = After(1)
  /\ UNCHANGED <<controller, browser, holder, kind, ticked, asked>>

DeleteLayout ==
  /\ step = "delete"
  /\ \E l \in todo :
       \/ /\ layouts' = layouts \ {l} /\ todo' = todo \ {l} /\ failed' = failed
          /\ step' = IF todo = {l} THEN After(1) ELSE "delete"
       \/ /\ layouts' \in {layouts, layouts \ {l}}
          /\ todo' = {} /\ failed' = Noted
          /\ step' = After(1)
  /\ UNCHANGED <<own, browser, holder, kind, ticked, asked>>

ResetSkin ==
  /\ step = "skin" /\ Request("skin") /\ step' = After(2)
  /\ UNCHANGED <<layouts, browser, holder, kind, ticked, todo, asked>>

\* P.load() never fails: without an answer it takes the links of the browser.
LoadLinks ==
  /\ step = "links"
  /\ step' = "save" /\ holder' \in {"server", "local"}
  /\ UNCHANGED <<controller, browser, kind, ticked, todo, failed, asked>>

\* P.save() goes where P.load() came from.
SaveLinks ==
  /\ step = "save"
  /\ IF holder = "server" THEN Request("links")
     ELSE UNCHANGED <<own, failed>>
  /\ step' = After(3)
  /\ UNCHANGED <<layouts, browser, holder, kind, ticked, todo, asked>>

ResetCapture ==
  /\ step = "cap" /\ Request("cap") /\ step' = After(4)
  /\ UNCHANGED <<layouts, browser, holder, kind, ticked, todo, asked>>

Refused ==
  /\ step = "end" /\ failed
  /\ step' = "choose" /\ failed' = FALSE /\ asked' = {}
  /\ UNCHANGED <<controller, browser, holder, kind, ticked, todo>>

\* resetBrowser and the session sown for a blank page.
Erased == IF kind = "vierge" THEN "blank" ELSE "none"

Leave ==
  /\ step = "end" /\ ~failed
  /\ step' = "left"
  /\ IF "nav" \in ticked
     THEN session' = Erased /\ autoload' = FALSE
     ELSE UNCHANGED <<session, autoload>>
  /\ fresh' = IF "nav" \in ticked /\ ~timer THEN kind ELSE "none"
  /\ UNCHANGED <<controller, holder, timer, shows, kind, ticked, todo, failed, asked>>

-----------------------------------------------------------------------------
(* The page around the window, and the other stations. *)

Gesture ==
  /\ step \in {"closed", "reloaded"}
  /\ shows' = "tabs" /\ timer' = TRUE /\ fresh' = "none"
  /\ UNCHANGED <<controller, holder, session, autoload, window>>

\* A page that was told to reload still runs its timers until it is replaced.
SaveSession ==
  /\ timer
  /\ session' = shows /\ timer' = FALSE
  /\ UNCHANGED <<controller, holder, autoload, shows, window, fresh>>

Restored ==
  IF session # "none" THEN session ELSE IF autoload THEN "auto" ELSE "demo"

Opens ==
  /\ step = "left"
  /\ shows' = Restored
  /\ timer' = TRUE /\ step' = "reloaded" /\ holder' \in {"server", "local"}
  /\ kind' = "default" /\ ticked' = {} /\ asked' = {}
  /\ UNCHANGED <<controller, session, autoload, todo, failed, fresh>>

Elsewhere ==
  /\ step \in Erasing
  /\ \/ \E s \in Settings : /\ own' = own \cup {s} /\ asked' = asked \ {s}
                            /\ layouts' = layouts
     \/ \E l \in Layouts : /\ layouts' = layouts \cup {l} /\ asked' = asked \ {"lays"}
                           /\ own' = own
  /\ UNCHANGED <<browser, holder, step, kind, ticked, todo, failed>>

Next ==
  \/ \E k \in {"default", "vierge"} : Open(k)
  \/ Cancel \/ FirstClick \/ SecondClick
  \/ \E b \in Boxes : Tick(b)
  \/ ListLayouts \/ DeleteLayout \/ ResetSkin \/ LoadLinks \/ SaveLinks
  \/ ResetCapture \/ Refused \/ Leave
  \/ Gesture \/ SaveSession \/ Opens \/ Elsewhere

Spec == Init /\ [][Next]_vars

-----------------------------------------------------------------------------
Gone(p) == IF p = "lays" THEN layouts = {} ELSE p \notin own

(* The page is reloaded, and its browser erased, only when every part of   *)
(* the controller that was asked for is gone. A part whose box is touched  *)
(* during the erasing, or that another station saves anew, is no longer    *)
(* asked for. The links are apart: see ResetTells.                         *)
SparedOrWhole ==
  step = "left" => \A p \in asked \cap (Parts \ {"links"}) : Gone(p)

(* The same of every part, the links too: « si un appel échoue, la page    *)
(* est encore debout pour le dire ». The code does not keep it.            *)
ResetTells == step = "left" => \A p \in asked \cap Parts : Gone(p)

(* A page reloaded after its browser was erased opens on what the entry of *)
(* the menu promises, the demonstration or an empty tab, and never on the  *)
(* tabs of before, unless a save of the session was pending.               *)
FreshStart ==
  step = "reloaded" /\ fresh # "none" =>
    shows = IF fresh = "vierge" THEN "blank" ELSE "demo"

ResetSound == TypeOK /\ SparedOrWhole /\ FreshStart
=============================================================================
