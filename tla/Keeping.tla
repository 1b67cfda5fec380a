------------------------------ MODULE Keeping ------------------------------
(***************************************************************************)
(* What moving tiles between windows promises: a tile leaves the           *)
(* installation when the operator closes it, or by an accident that is     *)
(* named, and in no other way.  (docs/SPECS.md, "jamais de perte")         *)
(***************************************************************************)
CONSTANTS Tiles

VARIABLES
    held,       \* tiles that some window shows, or that wait for their window
    closed,     \* tiles that the operator has closed
    accident    \* an accident has happened

vars == <<held, closed, accident>>

Init == held = Tiles /\ closed = {} /\ accident = FALSE

\* Another copy may be left.
Close(t) ==
    /\ t \in held
    /\ held' \in {held, held \ {t}}
    /\ closed' = closed \cup {t}
    /\ UNCHANGED accident

\* Tiles closed while they were being dragged, or before a reload, are back.
Return ==
    /\ \E T \in SUBSET closed : held' = held \cup T
    /\ UNCHANGED <<closed, accident>>

Accident ==
    /\ accident' = TRUE
    /\ held' \in SUBSET Tiles
    /\ UNCHANGED closed

Next == Accident \/ Return \/ \E t \in Tiles : Close(t)

Spec == Init /\ [][Next]_vars

=============================================================================
