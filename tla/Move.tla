-------------------------------- MODULE Move --------------------------------
(***************************************************************************)
(* Moving tiles (charts, tables) between the windows of one browser:       *)
(* src/web/js/dnd.js, the transfers and the session of store.js, and what  *)
(* app.js does when a tile is received, removed, saved and restored.       *)
(*                                                                         *)
(* A window is a page with its own session.  A step is one callback of one *)
(* window: a drag event, a message of the BroadcastChannel, a timer, a     *)
(* click, a reload.  An object is one tile on a screen, with a content     *)
(* (`tile`) that a copy shares.                                            *)
(***************************************************************************)
EXTENDS Naturals, FiniteSets, Functions

CONSTANTS
    Tiles,      \* contents
    Wins,       \* windows that may be open
    Opened,     \* windows open at the start
    Objects,    \* bound: tiles on screens at one time
    Drags,      \* bound: drags
    Limit,      \* tiles that a window accepts (maxCharts)
    None

ASSUME MoveAssumption ==
    /\ Opened \subseteq Wins
    /\ None \notin Wins \cup Tiles \cup [tile : Tiles, win : Wins]
    /\ IsFiniteSet(Objects) /\ Limit \in Nat

VARIABLES
    objs,       \* objects: None, or content and window
    win,        \* window -> "shut", "booting" (with ?open=), "up"
    saved,      \* window -> objects of its saved session
    dirty,      \* window -> the timer of the save is armed
    drags,      \* drag -> object, window, state, entry in `pending`
    acks,       \* drags whose "widget-accepted" is under way
    transfer,   \* window -> content that waits in localStorage
    closed,     \* ghost: contents that the operator has closed
    accident,   \* ghost: a loss that the code does not prevent has happened
    copied      \* ghost: contents that have a reason to be there twice

vars == <<objs, win, saved, dirty, drags, acks, transfer, closed, accident, copied>>

Live(o)    == objs[o] # None
On(w)      == {o \in Objects : Live(o) /\ objs[o].win = w}
Free       == {o \in Objects : /\ ~Live(o)
                               /\ \A w \in Wins : \A s \in saved[w] : s.id # o
                               /\ \A d \in Drags : drags[d].pending => drags[d].obj # o}
Idle       == [state |-> "none", obj |-> None, src |-> None, tile |-> None, pending |-> FALSE]
CopiesOf(t) == {o \in Objects : Live(o) /\ objs[o].tile = t}

\* A drag that nobody awaits any more is forgotten; its name may serve again.
Settled(ds, A) ==
    [d \in Drags |-> IF ds[d].state = "over" /\ ~ds[d].pending /\ d \notin A THEN Idle ELSE ds[d]]

\* onChange(): the session will be saved half a second later.
Changed(W) == dirty' = [w \in Wins |-> dirty[w] \/ w \in W]

\* serializeSession()
Session(w) == {[id |-> o, tile |-> objs[o].tile] : o \in On(w)}

(***************************************************************************)
(* Drag and drop.                                                          *)
(***************************************************************************)

\* One pointer: the operator has one drag at a time, and no menu during it.
Dragging == \E d \in Drags : drags[d].state = "dragging"
\* Ghost: the tile is taken elsewhere while a window that received it has not
\* been heard.
TakenAgain(o) == IF \E d \in acks : drags[d].obj = o THEN copied \cup {objs[o].tile} ELSE copied

\* The wait for the acceptance begins with the drag.
StartDrag(o, d) ==
    /\ Live(o) /\ win[objs[o].win] = "up"
    /\ drags[d].state = "none" /\ ~Dragging
    /\ drags' = [drags EXCEPT ![d] = [state |-> "dragging", obj |-> o, src |-> objs[o].win,
                                      tile |-> objs[o].tile, pending |-> TRUE]]
    /\ copied' = TakenAgain(o)
    /\ UNCHANGED <<objs, win, saved, dirty, acks, transfer, closed, accident>>

\* ACK_MS have passed: the entry is forgotten, the tile will be copied.
Expire(d) ==
    /\ drags[d].pending
    /\ drags' = Settled([drags EXCEPT ![d].pending = FALSE], acks)
    /\ copied' = copied \cup {drags[d].tile}
    /\ UNCHANGED <<objs, win, saved, dirty, acks, transfer, closed, accident>>

\* Variant: the end of the drag removes the original.
AbandonRemoving(d) ==
    /\ drags[d].state = "dragging"
    /\ drags' = Settled([drags EXCEPT ![d].state = "over"], acks)
    /\ objs' = IF drags[d].pending THEN [objs EXCEPT ![drags[d].obj] = None] ELSE objs
    /\ UNCHANGED <<win, saved, dirty, acks, transfer, closed, accident, copied>>
\* The drag ends without a drop that anybody takes.
Abandon(d) ==
    /\ drags[d].state = "dragging"
    /\ drags' = Settled([drags EXCEPT ![d].state = "over"], acks)
    /\ UNCHANGED <<objs, win, saved, dirty, acks, transfer, closed, accident, copied>>

\* receiveWidget(): a new tile with the configuration carried along.
Received(w, t, o) == [objs EXCEPT ![o] = [tile |-> t, win |-> w]]
\* The window takes no more tiles; the drop is refused.
Room(w) == Cardinality(On(w)) < Limit

\* Dropped elsewhere in the window it comes from: arranged in its tab.
Reorder(d) ==
    /\ drags[d].state = "dragging" /\ win[drags[d].src] = "up"
    /\ drags' = [drags EXCEPT ![d] = Idle]
    /\ Changed({drags[d].src})
    /\ UNCHANGED <<objs, win, saved, acks, transfer, closed, accident, copied>>

\* Dropped on another tab of its window: created there, then the original is
\* removed, unless Ctrl keeps it or the drag's entry has expired.
DropInside(d, ctrl) ==
    /\ drags[d].state = "dragging" /\ win[drags[d].src] = "up" /\ Room(drags[d].src)
    /\ \E o \in Free :
         LET new == Received(drags[d].src, drags[d].tile, o) IN
         objs' = IF ~ctrl /\ drags[d].pending THEN [new EXCEPT ![drags[d].obj] = None] ELSE new
    /\ drags' = [drags EXCEPT ![d] = Idle]
    /\ copied' = IF ctrl THEN copied \cup {drags[d].tile} ELSE copied
    /\ Changed({drags[d].src})
    /\ UNCHANGED <<win, saved, acks, transfer, closed, accident>>

\* Variant: the drop in another window tells its window of origin nothing.
DropOutsideSilent(d, w) ==
    /\ drags[d].state = "dragging" /\ w # drags[d].src /\ win[w] = "up" /\ Room(w)
    /\ \E o \in Free : objs' = Received(w, drags[d].tile, o)
    /\ drags' = [drags EXCEPT ![d].state = "over"]
    /\ Changed({w})
    /\ UNCHANGED <<win, saved, acks, transfer, closed, accident, copied>>
\* Dropped in another window: received, then the acceptance is broadcast.
DropOutside(d, w) ==
    /\ drags[d].state = "dragging" /\ w # drags[d].src /\ win[w] = "up" /\ Room(w)
    /\ \E o \in Free : objs' = Received(w, drags[d].tile, o)
    /\ drags' = [drags EXCEPT ![d].state = "over"]
    /\ acks' = acks \cup {d}
    /\ Changed({w})
    /\ UNCHANGED <<win, saved, transfer, closed, accident, copied>>

\* completeMove(): the original goes if its drag is still awaited.
CompleteMove(d) ==
    /\ d \in acks
    /\ acks' = acks \ {d}
    /\ drags' = Settled([drags EXCEPT ![d].pending = FALSE], acks \ {d})
    /\ IF drags[d].pending
       THEN /\ objs' = [objs EXCEPT ![drags[d].obj] = None]
            /\ Changed({drags[d].src})
       ELSE UNCHANGED <<objs, dirty>>
    /\ UNCHANGED <<win, saved, transfer, closed, accident, copied>>

(***************************************************************************)
(* Menu of a tile: close, open in a new window.                            *)
(***************************************************************************)

Close(o) ==
    /\ ~Dragging
    /\ Live(o) /\ win[objs[o].win] = "up"
    /\ objs' = [objs EXCEPT ![o] = None]
    /\ Changed({objs[o].win})
    /\ closed' = closed \cup {objs[o].tile}
    /\ UNCHANGED <<win, saved, drags, acks, transfer, accident, copied>>

\* The tile waits in localStorage for the window that opens; the original is
\* removed at once.  (A blocked window takes the transfer back: no change.)
OpenInNewWindow(o, w) ==
    /\ ~Dragging
    /\ Live(o) /\ win[objs[o].win] = "up"
    /\ win[w] = "shut"
    /\ transfer' = [transfer EXCEPT ![w] = objs[o].tile]
    /\ win' = [win EXCEPT ![w] = "booting"]
    /\ objs' = [objs EXCEPT ![o] = None]
    /\ Changed({objs[o].win})
    /\ copied' = TakenAgain(o)
    /\ UNCHANGED <<saved, drags, acks, closed, accident>>

\* The new window takes what waits for it and clears its address.
BootTransferred(w) ==
    /\ win[w] = "booting"
    /\ win' = [win EXCEPT ![w] = "up"]
    /\ \E o \in Free : objs' = Received(w, transfer[w], o)
    /\ transfer' = [transfer EXCEPT ![w] = None]
    /\ Changed({w})
    /\ UNCHANGED <<saved, drags, acks, closed, accident, copied>>

\* The window is closed before its page runs, or runs after the two minutes
\* that a transfer lives: nobody has the tile any more.
TransferLost(w) ==
    /\ win[w] = "booting"
    /\ win' = [win EXCEPT ![w] = "shut"]
    /\ transfer' = [transfer EXCEPT ![w] = None]
    /\ accident' = TRUE
    /\ UNCHANGED <<objs, saved, dirty, drags, acks, closed, copied>>

(***************************************************************************)
(* Session of a window.                                                    *)
(***************************************************************************)

SaveSession(w) ==
    /\ dirty[w] /\ win[w] = "up"
    /\ saved' = [saved EXCEPT ![w] = Session(w)]
    /\ dirty' = [dirty EXCEPT ![w] = FALSE]
    /\ UNCHANGED <<objs, win, drags, acks, transfer, closed, accident, copied>>

\* The page is loaded again: its tiles are those of the saved session, what
\* it awaited is forgotten.  A tile received in the half second before is not
\* in that session, though its original may be gone.
Reload(w) ==
    /\ win[w] = "up"
    /\ objs' = [o \in Objects |->
                  IF \E s \in saved[w] : s.id = o
                  THEN [tile |-> (CHOOSE s \in saved[w] : s.id = o).tile, win |-> w]
                  ELSE IF o \in On(w) THEN None ELSE objs[o]]
    /\ drags' = Settled([d \in Drags |->
                    IF drags[d].src = w THEN [drags[d] EXCEPT !.pending = FALSE, !.state = "over"]
                    ELSE drags[d]], acks)
    /\ Changed({w})
    /\ accident' = (accident \/ (dirty[w] /\ ~(Session(w) \subseteq saved[w])))
    /\ copied' = copied \cup {s.tile : s \in saved[w] \ Session(w)}
                        \cup {drags[d].tile : d \in {e \in acks : drags[e].src = w}}
    /\ UNCHANGED <<win, saved, acks, transfer, closed>>

-----------------------------------------------------------------------------

Init ==
    /\ \E start \in Injection(Tiles, Objects), w \in Opened :
         objs = [o \in Objects |-> IF o \in Range(start)
                                   THEN [tile |-> Inverse(start, Tiles, Range(start))[o], win |-> w]
                                   ELSE None]
    /\ win = [w \in Wins |-> IF w \in Opened THEN "up" ELSE "shut"]
    /\ saved = [w \in Wins |-> Session(w)]
    /\ dirty = [w \in Wins |-> FALSE]
    /\ drags = [d \in Drags |-> Idle]
    /\ acks = {}
    /\ transfer = [w \in Wins |-> None]
    /\ closed = {} /\ accident = FALSE
    /\ copied = {}

\* Bound: nothing is promised after an accident, and nothing explored.
BeforeAccident == ~accident

Next ==
    \/ \E d \in Drags :
         \/ Expire(d) \/ Abandon(d) \/ Reorder(d) \/ CompleteMove(d)
         \/ \E ctrl \in BOOLEAN : DropInside(d, ctrl)
         \/ \E w \in Wins : DropOutside(d, w)
         \/ \E o \in Objects : StartDrag(o, d)
    \/ \E o \in Objects : Close(o) \/ \E w \in Wins : OpenInNewWindow(o, w)
    \/ \E w \in Wins : BootTransferred(w) \/ TransferLost(w) \/ SaveSession(w) \/ Reload(w)

Spec == Init /\ [][Next]_vars

-----------------------------------------------------------------------------

\* Every variable keeps its type; what waits for a window waits for one that
\* is opening (dnd.js:275-297).
TypeOK ==
    /\ \A o \in Objects : Live(o) => /\ objs[o].tile \in Tiles
                                    /\ win[objs[o].win] = "up"
    /\ \A w \in Wins : /\ win[w] \in {"shut", "booting", "up"}
                       /\ (transfer[w] # None) <=> (win[w] = "booting")
                       /\ ~dirty[w] => saved[w] = Session(w)
    /\ \A d \in Drags : drags[d].state \in {"none", "dragging", "over"}
    /\ acks \subseteq Drags /\ copied \subseteq Tiles

\* Moving a tile keeps it somewhere: whatever the order of the drops, the
\* acceptances, the expirations, the saves and the reloads, a tile disappears
\* only when it is closed or by one of the two accidents named in TransferLost
\* and Reload (dnd.js:12-15).
Kept == INSTANCE Keeping WITH
    held <- {t \in Tiles : CopiesOf(t) # {} \/ \E w \in Wins : transfer[w] = t}
NeverLost == Kept!Spec

\* A move is no copy: a tile is on the screens twice only while its acceptance
\* is on its way, or if it has a reason to (Ctrl, an expired wait, a reload, a
\* second drag before the acceptance of the first; dnd.js:139-147, 255-271).
MovedNotCopied == TypeOK /\ \A t \in Tiles \ copied :
    Cardinality(CopiesOf(t)) <= 1 + Cardinality({d \in acks : drags[d].tile = t})

=============================================================================
