---------------------------- MODULE Move_proofs ----------------------------
(***************************************************************************)
(* Proofs that no move loses a tile (Move implements Keeping) and that a   *)
(* move is no copy, for any number of tiles, windows, screens and drags.   *)
(***************************************************************************)
EXTENDS Move, FiniteSetTheorems, TLAPS

\* A tile on a screen that no acceptance under way will remove.
Stays(o) == Live(o) /\ \A d \in acks : drags[d].pending => drags[d].obj # o

DragRec == [state : {"none", "dragging", "over"},
            obj : Objects \cup {None}, src : Wins \cup {None},
            tile : Tiles \cup {None}, pending : BOOLEAN]

Shape ==
    /\ objs \in [Objects -> [tile : Tiles, win : Wins] \cup {None}]
    /\ win \in [Wins -> {"shut", "booting", "up"}]
    /\ dirty \in [Wins -> BOOLEAN]
    /\ transfer \in [Wins -> Tiles \cup {None}]
    /\ drags \in [Drags -> DragRec]
    /\ saved \in [Wins -> SUBSET [id : Objects, tile : Tiles]]
    /\ acks \subseteq Drags /\ IsFiniteSet(acks)
    /\ copied \subseteq Tiles /\ closed \subseteq Tiles
    /\ accident \in BOOLEAN

\* Windows: tiles are on windows that are up, transfers wait for windows that
\* boot, and a session without a timer is what its window shows.
Windows ==
    /\ \A o \in Objects : Live(o) => win[objs[o].win] = "up"
    /\ \A w \in Wins : /\ transfer[w] # None <=> win[w] = "booting"
                       /\ ~dirty[w] => saved[w] = Session(w)

\* A saved tile is the one on the screen, and in one session only.
Sessions ==
    \A w \in Wins : \A s \in saved[w] :
        /\ Live(s.id) => objs[s.id].tile = s.tile /\ objs[s.id].win = w
        /\ \A v \in Wins : \A r \in saved[v] : r.id = s.id => v = w /\ r = s

\* A drag that is not idle carries a content; one that is awaited knows its
\* tile, on the screen and in the sessions; one whose acceptance is under way
\* is over, and awaited unless there is a reason for two copies.
Carried ==
    /\ \A d \in Drags :
        /\ drags[d].state # "none" => drags[d].obj \in Objects /\ drags[d].tile \in Tiles
                                      /\ drags[d].src \in Wins
        /\ drags[d].pending =>
            /\ drags[d].state # "none"
            /\ Live(drags[d].obj) => /\ objs[drags[d].obj].tile = drags[d].tile
                                     /\ objs[drags[d].obj].win = drags[d].src
            /\ \A w \in Wins : \A s \in saved[w] : s.id = drags[d].obj =>
                 s.tile = drags[d].tile /\ w = drags[d].src
    /\ \A d \in acks : /\ drags[d].state = "over"
                       /\ ~drags[d].pending => drags[d].tile \in copied

\* Every content is somewhere it will stay, or waits for its window, or was
\* closed.
Somewhere ==
    \A t \in Tiles : \/ accident \/ t \in closed
                     \/ \E o \in Objects : Stays(o) /\ objs[o].tile = t
                     \/ \E w \in Wins : transfer[w] = t

\* A content that has no reason to be there twice stays once, on a screen or
\* on its way to one.
Once ==
    /\ \A o, p \in Objects :
         Stays(o) /\ Stays(p) /\ objs[o].tile = objs[p].tile /\ objs[o].tile \notin copied => o = p
    /\ \A v, w \in Wins :
         transfer[v] = transfer[w] /\ transfer[v] # None /\ transfer[v] \notin copied => v = w
    /\ \A o \in Objects, w \in Wins :
         Stays(o) /\ transfer[w] = objs[o].tile => transfer[w] \in copied

\* What is being dragged is that one, unless it has a reason to be twice.
InHand ==
    \A d \in Drags : drags[d].state = "dragging" =>
        drags[d].tile \in copied \/ (drags[d].pending /\ Stays(drags[d].obj))

\* One pointer.
OnePointer ==
    \A d, e \in Drags :
        drags[d].state = "dragging" /\ drags[e].state = "dragging" => d = e

IInv == Shape /\ Windows /\ Sessions /\ Carried /\ Somewhere /\ Once /\ InHand /\ OnePointer
-----------------------------------------------------------------------------
\* The members of the records.
LEMMA Fields ==
    ASSUME Shape
    PROVE  /\ \A o \in Objects : Live(o) => objs[o].tile \in Tiles /\ objs[o].win \in Wins
           /\ \A o \in Objects : Live(o) => objs[o] \in [tile : Tiles, win : Wins]
           /\ \A w \in Wins : \A s \in saved[w] : s.id \in Objects /\ s.tile \in Tiles
           /\ \A d \in Drags : /\ drags[d].pending \in BOOLEAN
                               /\ drags[d].state \in {"none", "dragging", "over"}
           /\ acks \subseteq Drags
           /\ \A w \in Wins : dirty[w] \in BOOLEAN
<1>1. \A o \in Objects : Live(o) => objs[o] \in [tile : Tiles, win : Wins]
  BY DEF Shape, Live
<1>2. \A o \in Objects : Live(o) => objs[o].tile \in Tiles /\ objs[o].win \in Wins
  BY <1>1
<1>3. \A w \in Wins : \A s \in saved[w] : s.id \in Objects /\ s.tile \in Tiles
  BY DEF Shape
<1>4. \A d \in Drags : drags[d] \in DragRec
  BY DEF Shape
<1>5. \A d \in Drags : /\ drags[d].pending \in BOOLEAN
                       /\ drags[d].state \in {"none", "dragging", "over"}
  BY <1>4 DEF DragRec
<1>6. acks \subseteq Drags /\ \A w \in Wins : dirty[w] \in BOOLEAN
  BY DEF Shape
<1>7. QED
  BY <1>1, <1>2, <1>3, <1>5, <1>6

\* A tile is no None.
LEMMA RecordIsLive ==
    ASSUME NEW t \in Tiles, NEW w \in Wins
    PROVE  /\ [tile |-> t, win |-> w] \in [tile : Tiles, win : Wins]
           /\ [tile |-> t, win |-> w] # None /\ t # None /\ w # None
  BY MoveAssumption

\* What a drag that may be forgotten becomes.
LEMMA SettledIs ==
    ASSUME NEW ds \in [Drags -> DragRec], NEW A
    PROVE  /\ Settled(ds, A) \in [Drags -> DragRec]
           /\ \A d \in Drags :
                \/ Settled(ds, A)[d] = ds[d]
                \/ /\ Settled(ds, A)[d] = Idle
                   /\ d \notin A /\ ~ds[d].pending /\ ds[d].state = "over"
           /\ \A d \in Drags : d \notin A /\ ~ds[d].pending /\ ds[d].state = "over" =>
                Settled(ds, A)[d] = Idle
  BY DEF Settled, Idle, DragRec

\* onChange() arms the save of the windows it is called for.
LEMMA ChangedIs ==
    ASSUME Shape, NEW W, Changed(W)
    PROVE  /\ dirty' \in [Wins -> BOOLEAN]
           /\ \A w \in Wins : dirty[w] \/ w \in W => dirty'[w]
  BY DEF Changed, Shape

\* A tile received is a new one on the screen.
LEMMA ReceivedIs ==
    ASSUME Shape, NEW w \in Wins, NEW t \in Tiles, NEW o \in Objects
    PROVE  /\ Received(w, t, o) \in [Objects -> [tile : Tiles, win : Wins] \cup {None}]
           /\ Received(w, t, o)[o] # None
           /\ Received(w, t, o)[o].tile = t /\ Received(w, t, o)[o].win = w
           /\ \A p \in Objects : p # o => Received(w, t, o)[p] = objs[p]
<1>1. /\ Received(w, t, o) \in [Objects -> [tile : Tiles, win : Wins] \cup {None}]
      /\ Received(w, t, o)[o] = [tile |-> t, win |-> w]
      /\ \A p \in Objects : p # o => Received(w, t, o)[p] = objs[p]
  BY RecordIsLive DEF Shape, Received
<1>2. QED
  BY <1>1, RecordIsLive

\* A tile dropped in another tab of its window: one more on the screen, and the
\* one it was is gone if it is moved.
LEMMA DropInsideIs ==
    ASSUME Shape, NEW d \in Drags, NEW ctrl \in BOOLEAN, DropInside(d, ctrl),
           drags[d].src \in Wins, drags[d].tile \in Tiles, drags[d].obj \in Objects
    PROVE  \E o \in Free :
              /\ objs' \in [Objects -> [tile : Tiles, win : Wins] \cup {None}]
              /\ objs'[o] # None
              /\ objs'[o].tile = drags[d].tile /\ objs'[o].win = drags[d].src
              /\ ~ctrl /\ drags[d].pending =>
                    o # drags[d].obj /\ objs'[drags[d].obj] = None
              /\ \A p \in Objects :
                    p # o /\ (~ctrl /\ drags[d].pending => p # drags[d].obj) => objs'[p] = objs[p]
<1> DEFINE src == drags[d].src
           t0 == drags[d].tile
           old == drags[d].obj
           moved == ~ctrl /\ drags[d].pending
<1>1. PICK o \in Free :
        objs' = IF moved THEN [Received(src, t0, o) EXCEPT ![old] = None] ELSE Received(src, t0, o)
  BY DEF DropInside
<1>2. o \in Objects /\ (moved => o # old)
  BY DEF Free
<1> DEFINE new == Received(src, t0, o)
<1>3. /\ new \in [Objects -> [tile : Tiles, win : Wins] \cup {None}]
      /\ new[o] # None /\ new[o].tile = t0 /\ new[o].win = src
      /\ \A p \in Objects : p # o => new[p] = objs[p]
  BY <1>2, ReceivedIs
<1> HIDE DEF new, moved, old
<1>4. old \in Objects
  BY DEF old
<1>5. CASE moved
  <2>1. objs' = [new EXCEPT ![old] = None]
    BY <1>1, <1>5 DEF new
  <2>2. /\ objs' \in [Objects -> [tile : Tiles, win : Wins] \cup {None}]
        /\ objs'[o] = new[o] /\ objs'[old] = None
        /\ \A p \in Objects : p # o /\ p # old => objs'[p] = objs[p]
    BY <1>2, <1>3, <1>4, <1>5, <2>1
  <2>3. QED
    BY <1>2, <1>3, <1>5, <2>2 DEF moved, old
<1>6. CASE ~moved
  <2>1. objs' = new
    BY <1>1, <1>6 DEF new
  <2>2. QED
    BY <1>3, <1>6, <2>1 DEF moved
<1>7. QED
  BY <1>5, <1>6

\* Windows whose tiles change are those whose save is armed.
LEMMA WindowsKept ==
    ASSUME Shape, Windows,
           \A w \in Wins : ~dirty'[w] =>
              /\ saved'[w] = saved[w] /\ ~dirty[w]
              /\ \A o \in Objects : \/ objs'[o] = objs[o]
                                    \/ /\ Live(o) => objs[o].win # w
                                       /\ Live(o)' => objs'[o].win # w,
           \A o \in Objects : Live(o)' => win'[objs'[o].win] = "up",
           \A w \in Wins : transfer'[w] # None <=> win'[w] = "booting"
    PROVE  Windows'
<1>1. ASSUME NEW w \in Wins, ~dirty'[w]
      PROVE  saved'[w] = Session(w)'
  <2>1. \A o \in Objects : /\ o \in On(w)' <=> o \in On(w)
                           /\ o \in On(w) => objs'[o] = objs[o]
    BY <1>1 DEF On, Live
  <2>2. On(w)' = On(w)
    BY <2>1 DEF On
  <2>3. Session(w)' = Session(w)
    <3>1. Session(w)' = {[id |-> o, tile |-> objs'[o].tile] : o \in On(w)}
      BY <2>2 DEF Session
    <3>2. QED
      BY <3>1, <2>1 DEF Session, On
  <2>4. QED
    BY <1>1, <2>3 DEF Windows
<1>2. QED
  BY <1>1 DEF Windows

\* A session that is not written over stays right while no tile takes a name
\* that it has.
LEMMA SessionsKept ==
    ASSUME Shape, Sessions, saved' = saved,
           \A o \in Objects : Live(o)' =>
              \/ objs'[o] = objs[o]
              \/ \A w \in Wins : \A s \in saved[w] : s.id # o
    PROVE  Sessions'
<1>1. ASSUME NEW w \in Wins, NEW s \in saved[w], Live(s.id)'
      PROVE  objs'[s.id].tile = s.tile /\ objs'[s.id].win = w
  <2>1. s.id \in Objects
    BY Fields
  <2>2. objs'[s.id] = objs[s.id]
    BY <1>1, <2>1
  <2>3. QED
    BY <1>1, <2>2 DEF Sessions, Live
<1>2. QED
  BY <1>1 DEF Sessions, Live

\* What is carried stays what it was while drags are only forgotten, and no
\* tile takes the name of one that is awaited.
LEMMA CarriedKept ==
    ASSUME Shape, Carried, saved' = saved,
           \A d \in Drags : /\ drags'[d].state # "none" =>
                                  /\ drags[d].state # "none"
                                  /\ drags'[d].obj = drags[d].obj
                                  /\ drags'[d].tile = drags[d].tile
                                  /\ drags'[d].src = drags[d].src
                            /\ drags'[d].pending => drags[d].pending /\ drags'[d].state # "none",
           \A o \in Objects : Live(o)' =>
              \/ objs'[o] = objs[o]
              \/ \A d \in Drags : drags'[d].pending => drags[d].obj # o,
           \A d \in acks' : /\ drags'[d].state = "over"
                            /\ ~drags'[d].pending => drags'[d].tile \in copied'
    PROVE  Carried'
<1>1. ASSUME NEW d \in Drags, drags'[d].state # "none"
      PROVE  drags'[d].obj \in Objects /\ drags'[d].tile \in Tiles /\ drags'[d].src \in Wins
  BY <1>1 DEF Carried
<1>2. ASSUME NEW d \in Drags, drags'[d].pending
      PROVE  /\ drags'[d].state # "none"
             /\ objs'[drags'[d].obj] # None =>
                  /\ objs'[drags'[d].obj].tile = drags'[d].tile
                  /\ objs'[drags'[d].obj].win = drags'[d].src
             /\ \A w \in Wins : \A s \in saved'[w] : s.id = drags'[d].obj =>
                  s.tile = drags'[d].tile /\ w = drags'[d].src
  <2>1. /\ drags[d].pending /\ drags'[d].state # "none" /\ drags[d].obj \in Objects
        /\ drags'[d].obj = drags[d].obj /\ drags'[d].tile = drags[d].tile
        /\ drags'[d].src = drags[d].src
    BY <1>2 DEF Carried
  <2>2. Live(drags[d].obj)' => objs'[drags[d].obj] = objs[drags[d].obj]
    BY <1>2, <2>1
  <2>3. QED
    BY <2>1, <2>2 DEF Carried, Live
<1>3. QED
  BY <1>1, <1>2 DEF Carried, Live

\* What is once is once while nothing is added to it.
LEMMA OnceKept ==
    ASSUME Once, copied \subseteq copied',
           \A o \in Objects : Stays(o)' =>
              objs'[o].tile \in copied' \/ (Stays(o) /\ objs'[o].tile = objs[o].tile),
           \A w \in Wins : transfer'[w] \in {transfer[w], None},
           \A o \in Objects : Stays(o)' => objs'[o].tile # None
    PROVE  Once'
<1>1. ASSUME NEW o \in Objects, NEW p \in Objects, Stays(o)', Stays(p)',
             objs'[o].tile = objs'[p].tile, objs'[o].tile \notin copied'
      PROVE  o = p
  BY <1>1 DEF Once
<1>2. ASSUME NEW v \in Wins, NEW w \in Wins, transfer'[v] = transfer'[w],
             transfer'[v] # None, transfer'[v] \notin copied'
      PROVE  v = w
  BY <1>2 DEF Once
<1>3. ASSUME NEW o \in Objects, NEW w \in Wins, Stays(o)', transfer'[w] = objs'[o].tile
      PROVE  transfer'[w] \in copied'
  BY <1>3 DEF Once
<1>4. QED
  BY <1>1, <1>2, <1>3 DEF Once

\* A step that only ends or forgets drags: what stays on the screens stays.
LEMMA DragsOnly ==
    ASSUME IInv, Shape', objs' = objs, win' = win, saved' = saved, acks' = acks,
           transfer' = transfer, closed' = closed, accident' = accident,
           copied \subseteq copied',
           \A w \in Wins : dirty[w] => dirty'[w],
           \A d \in Drags :
              /\ drags'[d].state # "none" =>
                    /\ drags[d].state # "none"
                    /\ drags'[d].obj = drags[d].obj
                    /\ drags'[d].tile = drags[d].tile
                    /\ drags'[d].src = drags[d].src
              /\ drags'[d].state = "dragging" => drags[d].state = "dragging"
              /\ drags'[d].pending => drags[d].pending /\ drags'[d].state # "none"
              /\ d \in acks => drags'[d].state = "over"
              /\ drags[d].pending /\ ~drags'[d].pending =>
                    \/ d \notin acks /\ drags'[d].state # "dragging"
                    \/ drags[d].tile \in copied'
    PROVE  IInv'
<1>0. Shape /\ Windows /\ Sessions /\ Carried /\ Somewhere /\ Once /\ InHand /\ OnePointer
  BY DEF IInv
<1>1. Windows'
  BY <1>0, WindowsKept DEF Windows, Live
<1>2. Sessions'
  BY <1>0, SessionsKept DEF Live
<1>3. Carried'
  <2>1. \A d \in acks : d \in Drags
    BY <1>0, Fields
  <2>2. \A d \in acks' : /\ drags'[d].state = "over"
                         /\ ~drags'[d].pending => drags'[d].tile \in copied'
    BY <1>0, <2>1 DEF Carried
  <2>3. QED
    BY <1>0, <2>2, CarriedKept
<1>4. ASSUME NEW o \in Objects, Stays(o)
      PROVE  Stays(o)' /\ objs'[o].tile = objs[o].tile
  <2>1. \A d \in acks' : drags'[d].pending => drags'[d].obj # o
    BY <1>0, <1>4, Fields DEF Stays
  <2>2. QED
    BY <1>4, <2>1 DEF Stays, Live
<1>5. ASSUME NEW o \in Objects, Stays(o)', objs'[o].tile \notin copied'
      PROVE  Stays(o)
  <2>1. ASSUME NEW d \in acks, drags[d].pending, drags[d].obj = o
        PROVE  FALSE
    <3>1. d \in Drags /\ objs[o].tile = drags[d].tile /\ Live(o)
      BY <1>0, <1>5, <2>1, Fields DEF Carried, Stays, Live
    <3>2. drags'[d].pending
      BY <1>5, <2>1, <3>1
    <3>3. drags'[d].state # "none" /\ drags'[d].obj = o
      BY <2>1, <3>1, <3>2
    <3>4. QED
      BY <1>5, <2>1, <3>2, <3>3 DEF Stays
  <2>2. QED
    BY <1>5, <2>1 DEF Stays, Live
<1>6. Somewhere'
  BY <1>0, <1>4 DEF Somewhere
<1>7. Once'
  <2>1. \A o \in Objects : Stays(o)' => objs'[o].tile # None
    BY <1>0, Fields, RecordIsLive DEF Stays, Live
  <2>2. QED
    BY <1>0, <1>5, <2>1, OnceKept
<1>8. InHand'
  <2>1. ASSUME NEW d \in Drags, drags'[d].state = "dragging", drags'[d].tile \notin copied'
        PROVE  drags'[d].pending /\ Stays(drags[d].obj)' /\ drags'[d].obj = drags[d].obj
    <3>1. /\ drags[d].state = "dragging" /\ drags[d].tile \notin copied'
          /\ drags'[d].obj = drags[d].obj /\ drags[d].obj \in Objects
      BY <1>0, <2>1 DEF Carried
    <3>2. drags[d].pending /\ Stays(drags[d].obj)
      BY <1>0, <3>1 DEF InHand
    <3>3. QED
      BY <1>4, <2>1, <3>1, <3>2
  <2>2. QED
    BY <2>1 DEF InHand, Stays, Live
<1>9. OnePointer'
  BY <1>0 DEF OnePointer
<1>10. QED
  BY <1>0, <1>1, <1>2, <1>3, <1>6, <1>7, <1>8, <1>9 DEF IInv

-----------------------------------------------------------------------------
\* One lemma per action: it keeps the invariant.
LEMMA StartDragKeeps ==
    ASSUME IInv, NEW o \in Objects, NEW d \in Drags, StartDrag(o, d)
    PROVE  IInv'
<1>0. Shape /\ Windows /\ Sessions /\ Carried /\ Somewhere /\ Once /\ InHand /\ OnePointer
  BY DEF IInv
<1>1. /\ objs' = objs /\ win' = win /\ saved' = saved /\ dirty' = dirty /\ acks' = acks
      /\ transfer' = transfer /\ closed' = closed /\ accident' = accident
  BY DEF StartDrag
<1>2. /\ Live(o) /\ objs[o].tile \in Tiles /\ objs[o].win \in Wins
      /\ \A e \in Drags : drags[e].state # "dragging"
      /\ acks \subseteq Drags /\ d \notin acks /\ d \in Drags
  BY <1>0, Fields DEF StartDrag, Dragging, Carried
<1>3. /\ drags' \in [Drags -> DragRec]
      /\ \A e \in Drags : e # d => drags'[e] = drags[e]
      /\ drags'[d].state = "dragging" /\ drags'[d].obj = o /\ drags'[d].src = objs[o].win
      /\ drags'[d].tile = objs[o].tile /\ drags'[d].pending = TRUE
  BY <1>0, <1>2 DEF StartDrag, Shape, DragRec
<1>4. /\ copied \subseteq copied' /\ copied' \subseteq Tiles
      /\ (\E e \in acks : drags[e].obj = o) => objs[o].tile \in copied'
  BY <1>0, <1>2 DEF StartDrag, TakenAgain, Shape
<1>5. Shape'
  BY <1>0, <1>1, <1>3, <1>4 DEF Shape
<1>6. Windows'
  BY <1>0, <1>1, WindowsKept DEF Windows, Live
<1>7. Sessions'
  BY <1>0, <1>1, SessionsKept DEF Live
<1>8. Carried'
  <2>1. \A w \in Wins : \A s \in saved[w] : s.id = o => s.tile = objs[o].tile /\ w = objs[o].win
    BY <1>0, <1>2 DEF Sessions
  <2>2. /\ drags'[d].obj \in Objects /\ drags'[d].tile \in Tiles /\ drags'[d].src \in Wins
        /\ drags'[d].state # "none"
        /\ objs'[drags'[d].obj].tile = drags'[d].tile /\ objs'[drags'[d].obj].win = drags'[d].src
        /\ \A w \in Wins : \A s \in saved'[w] : s.id = drags'[d].obj =>
             s.tile = drags'[d].tile /\ w = drags'[d].src
    BY <1>1, <1>2, <1>3, <2>1
  <2>3. \A e \in acks' : /\ drags'[e].state = "over"
                         /\ ~drags'[e].pending => drags'[e].tile \in copied'
    BY <1>0, <1>1, <1>2, <1>3, <1>4 DEF Carried
  <2>4. QED
    BY <1>0, <1>1, <1>3, <2>2, <2>3 DEF Carried, Live
<1>9. \A p \in Objects : Stays(p)' <=> Stays(p)
  BY <1>1, <1>2, <1>3 DEF Stays, Live
<1>10. Somewhere'
  BY <1>0, <1>1, <1>9 DEF Somewhere
<1>11. Once'
  BY <1>0, <1>1, <1>4, <1>9 DEF Once
<1>12. InHand'
  <2>1. objs[o].tile \in copied' \/ Stays(o)'
    BY <1>2, <1>4, <1>9 DEF Stays
  <2>2. QED
    BY <2>1, <1>1, <1>2, <1>3 DEF InHand, Stays, Live
<1>13. OnePointer'
  BY <1>2, <1>3 DEF OnePointer
<1>14. QED
  BY <1>5, <1>6, <1>7, <1>8, <1>10, <1>11, <1>12, <1>13 DEF IInv

LEMMA ExpireKeeps ==
    ASSUME IInv, NEW d \in Drags, Expire(d)
    PROVE  IInv'
<1>0. Shape /\ Carried
  BY DEF IInv
<1>1. /\ objs' = objs /\ win' = win /\ saved' = saved /\ dirty' = dirty /\ acks' = acks
      /\ transfer' = transfer /\ closed' = closed /\ accident' = accident
      /\ copied' = copied \cup {drags[d].tile} /\ drags[d].pending
      /\ drags[d].tile \in Tiles /\ drags[d].obj \in Objects
  BY <1>0 DEF Expire, Carried
<1> DEFINE ds == [drags EXCEPT ![d].pending = FALSE]
<1>2. /\ ds \in [Drags -> DragRec]
      /\ \A e \in Drags : e # d => ds[e] = drags[e]
      /\ ds[d].state = drags[d].state /\ ds[d].obj = drags[d].obj /\ ds[d].src = drags[d].src
      /\ ds[d].tile = drags[d].tile /\ ds[d].pending = FALSE
  BY <1>0 DEF Shape, DragRec
<1>3. drags' = Settled(ds, acks)
  BY DEF Expire
<1> HIDE DEF ds
<1>4. /\ drags' \in [Drags -> DragRec]
      /\ \A e \in Drags : \/ drags'[e] = ds[e]
                          \/ /\ drags'[e].state = "none" /\ drags'[e].pending = FALSE
                             /\ e \notin acks /\ ~ds[e].pending
  BY <1>2, <1>3, SettledIs DEF Idle
<1>5. Shape'
  BY <1>0, <1>1, <1>4 DEF Shape
<1>6. ASSUME NEW e \in Drags
      PROVE  /\ drags'[e].state # "none" =>
                  /\ drags[e].state # "none" /\ drags'[e].obj = drags[e].obj
                  /\ drags'[e].tile = drags[e].tile /\ drags'[e].src = drags[e].src
             /\ drags'[e].state = "dragging" => drags[e].state = "dragging"
             /\ drags'[e].pending => drags[e].pending /\ drags'[e].state # "none"
             /\ e \in acks => drags'[e].state = "over"
             /\ drags[e].pending /\ ~drags'[e].pending =>
                  \/ e \notin acks /\ drags'[e].state # "dragging"
                  \/ drags[e].tile \in copied'
  BY <1>0, <1>1, <1>2, <1>4 DEF Carried
<1>7. QED
  BY <1>1, <1>5, <1>6, DragsOnly

LEMMA AbandonKeeps ==
    ASSUME IInv, NEW d \in Drags, Abandon(d)
    PROVE  IInv'
<1>0. Shape /\ Carried
  BY DEF IInv
<1>1. /\ objs' = objs /\ win' = win /\ saved' = saved /\ dirty' = dirty /\ acks' = acks
      /\ transfer' = transfer /\ closed' = closed /\ accident' = accident
      /\ copied' = copied /\ drags[d].state = "dragging"
  BY DEF Abandon
<1> DEFINE ds == [drags EXCEPT ![d].state = "over"]
<1>2. /\ ds \in [Drags -> DragRec]
      /\ \A e \in Drags : e # d => ds[e] = drags[e]
      /\ ds[d].state = "over" /\ ds[d].obj = drags[d].obj /\ ds[d].src = drags[d].src
      /\ ds[d].tile = drags[d].tile /\ ds[d].pending = drags[d].pending
  BY <1>0 DEF Shape, DragRec
<1>3. drags' = Settled(ds, acks)
  BY DEF Abandon
<1> HIDE DEF ds
<1>4. /\ drags' \in [Drags -> DragRec]
      /\ \A e \in Drags : \/ drags'[e] = ds[e]
                          \/ /\ drags'[e].state = "none" /\ drags'[e].pending = FALSE
                             /\ e \notin acks /\ ~ds[e].pending
  BY <1>2, <1>3, SettledIs DEF Idle
<1>5. Shape'
  BY <1>0, <1>1, <1>4 DEF Shape
<1>6. ASSUME NEW e \in Drags
      PROVE  /\ drags'[e].state # "none" =>
                  /\ drags[e].state # "none" /\ drags'[e].obj = drags[e].obj
                  /\ drags'[e].tile = drags[e].tile /\ drags'[e].src = drags[e].src
             /\ drags'[e].state = "dragging" => drags[e].state = "dragging"
             /\ drags'[e].pending => drags[e].pending /\ drags'[e].state # "none"
             /\ e \in acks => drags'[e].state = "over"
             /\ drags[e].pending /\ ~drags'[e].pending =>
                  \/ e \notin acks /\ drags'[e].state # "dragging"
                  \/ drags[e].tile \in copied'
  BY <1>0, <1>1, <1>2, <1>4 DEF Carried
<1>7. QED
  BY <1>1, <1>5, <1>6, DragsOnly

LEMMA ReorderKeeps ==
    ASSUME IInv, NEW d \in Drags, Reorder(d)
    PROVE  IInv'
<1>0. Shape /\ Carried
  BY DEF IInv
<1>1. /\ objs' = objs /\ win' = win /\ saved' = saved /\ acks' = acks
      /\ transfer' = transfer /\ closed' = closed /\ accident' = accident
      /\ copied' = copied /\ drags[d].state = "dragging"
  BY DEF Reorder
<1>2. dirty' \in [Wins -> BOOLEAN] /\ \A w \in Wins : dirty[w] => dirty'[w]
  BY <1>0 DEF Reorder, Changed, Shape
<1>3. /\ drags' \in [Drags -> DragRec]
      /\ \A e \in Drags : e # d => drags'[e] = drags[e]
      /\ drags'[d].state = "none" /\ drags'[d].pending = FALSE
  BY <1>0 DEF Reorder, Shape, Idle, DragRec
<1>4. Shape'
  BY <1>0, <1>1, <1>2, <1>3 DEF Shape
<1>5. ASSUME NEW e \in Drags
      PROVE  /\ drags'[e].state # "none" =>
                  /\ drags[e].state # "none" /\ drags'[e].obj = drags[e].obj
                  /\ drags'[e].tile = drags[e].tile /\ drags'[e].src = drags[e].src
             /\ drags'[e].state = "dragging" => drags[e].state = "dragging"
             /\ drags'[e].pending => drags[e].pending /\ drags'[e].state # "none"
             /\ e \in acks => drags'[e].state = "over"
             /\ drags[e].pending /\ ~drags'[e].pending =>
                  \/ e \notin acks /\ drags'[e].state # "dragging"
                  \/ drags[e].tile \in copied'
  BY <1>0, <1>1, <1>3 DEF Carried
<1>6. QED
  BY <1>1, <1>2, <1>4, <1>5, DragsOnly

LEMMA CloseKeeps ==
    ASSUME IInv, NEW o \in Objects, Close(o)
    PROVE  IInv'
<1>0. Shape /\ Windows /\ Sessions /\ Carried /\ Somewhere /\ Once /\ InHand /\ OnePointer
  BY DEF IInv
<1>1. /\ win' = win /\ saved' = saved /\ drags' = drags /\ acks' = acks
      /\ transfer' = transfer /\ accident' = accident /\ copied' = copied
      /\ closed' = closed \cup {objs[o].tile} /\ Live(o) /\ win[objs[o].win] = "up"
      /\ \A d \in Drags : drags[d].state # "dragging"
  BY DEF Close, Dragging
<1>2. /\ \A w \in Wins : dirty[w] \/ w = objs[o].win => dirty'[w]
      /\ dirty' \in [Wins -> BOOLEAN]
  BY <1>0, ChangedIs DEF Close
<1>3. /\ objs' \in [Objects -> [tile : Tiles, win : Wins] \cup {None}]
      /\ objs'[o] = None /\ \A p \in Objects : p # o => objs'[p] = objs[p]
  BY <1>0 DEF Close, Shape
<1>4. objs[o].tile \in Tiles /\ acks \subseteq Drags
  BY <1>0, <1>1, Fields
<1>5. Shape'
  BY <1>0, <1>1, <1>2, <1>3, <1>4 DEF Shape
<1>6. Windows'
  <2>1. \A w \in Wins : ~dirty'[w] =>
              /\ saved'[w] = saved[w] /\ ~dirty[w]
              /\ \A p \in Objects : \/ objs'[p] = objs[p]
                                    \/ /\ Live(p) => objs[p].win # w
                                       /\ Live(p)' => objs'[p].win # w
    BY <1>1, <1>2, <1>3 DEF Live
  <2>2. \A p \in Objects : Live(p)' => win'[objs'[p].win] = "up"
    BY <1>0, <1>1, <1>3 DEF Windows, Live
  <2>3. \A w \in Wins : transfer'[w] # None <=> win'[w] = "booting"
    BY <1>0, <1>1 DEF Windows
  <2>4. QED
    BY <1>0, <2>1, <2>2, <2>3, WindowsKept
<1>7. Sessions'
  BY <1>0, <1>1, <1>3, SessionsKept DEF Live
<1>8. Carried'
  <2>1. \A d \in acks' : /\ drags'[d].state = "over"
                         /\ ~drags'[d].pending => drags'[d].tile \in copied'
    BY <1>0, <1>1 DEF Carried
  <2>2. \A d \in Drags : drags'[d].pending => drags[d].pending /\ drags'[d].state # "none"
    BY <1>0, <1>1 DEF Carried
  <2>3. QED
    BY <1>0, <1>1, <1>3, <2>1, <2>2, CarriedKept DEF Live
<1>9. \A p \in Objects : Stays(p)' <=> Stays(p) /\ p # o
  BY <1>1, <1>3 DEF Stays, Live
<1>10. Somewhere'
  BY <1>0, <1>1, <1>3, <1>9 DEF Somewhere
<1>11. Once'
  BY <1>0, <1>1, <1>3, <1>9 DEF Once
<1>12. InHand' /\ OnePointer'
  BY <1>0, <1>1 DEF InHand, OnePointer
<1>13. QED
  BY <1>5, <1>6, <1>7, <1>8, <1>10, <1>11, <1>12 DEF IInv

LEMMA OpenInNewWindowKeeps ==
    ASSUME IInv, NEW o \in Objects, NEW w \in Wins, OpenInNewWindow(o, w)
    PROVE  IInv'
<1>0. Shape /\ Windows /\ Sessions /\ Carried /\ Somewhere /\ Once /\ InHand /\ OnePointer
  BY DEF IInv
<1>1. /\ saved' = saved /\ drags' = drags /\ acks' = acks
      /\ accident' = accident /\ closed' = closed
      /\ Live(o) /\ win[objs[o].win] = "up" /\ win[w] = "shut"
      /\ \A d \in Drags : drags[d].state # "dragging"
  BY DEF OpenInNewWindow, Dragging
<1>2. /\ \A v \in Wins : dirty[v] \/ v = objs[o].win => dirty'[v]
      /\ dirty' \in [Wins -> BOOLEAN]
  BY <1>0, ChangedIs DEF OpenInNewWindow
<1>3. /\ objs' \in [Objects -> [tile : Tiles, win : Wins] \cup {None}]
      /\ objs'[o] = None /\ \A p \in Objects : p # o => objs'[p] = objs[p]
  BY <1>0 DEF OpenInNewWindow, Shape
<1>4. objs[o].tile \in Tiles /\ acks \subseteq Drags /\ objs[o].tile # None
  BY <1>0, <1>1, Fields, RecordIsLive
<1>5. /\ win' \in [Wins -> {"shut", "booting", "up"}]
      /\ win'[w] = "booting" /\ \A v \in Wins : v # w => win'[v] = win[v]
      /\ transfer' \in [Wins -> Tiles \cup {None}]
      /\ transfer'[w] = objs[o].tile /\ \A v \in Wins : v # w => transfer'[v] = transfer[v]
  BY <1>0, <1>4 DEF OpenInNewWindow, Shape
<1>6. /\ copied \subseteq copied' /\ copied' \subseteq Tiles
      /\ (\E e \in acks : drags[e].obj = o) => objs[o].tile \in copied'
  BY <1>0, <1>4 DEF OpenInNewWindow, TakenAgain, Shape
<1>7. Shape'
  BY <1>0, <1>1, <1>2, <1>3, <1>5, <1>6 DEF Shape
<1>8. Windows'
  <2>1. \A v \in Wins : ~dirty'[v] =>
              /\ saved'[v] = saved[v] /\ ~dirty[v]
              /\ \A p \in Objects : \/ objs'[p] = objs[p]
                                    \/ /\ Live(p) => objs[p].win # v
                                       /\ Live(p)' => objs'[p].win # v
    BY <1>1, <1>2, <1>3 DEF Live
  <2>2. \A p \in Objects : Live(p)' => win'[objs'[p].win] = "up"
    <3>1. \A p \in Objects : Live(p)' => Live(p) /\ objs'[p] = objs[p]
      BY <1>3 DEF Live
    <3>2. QED
      BY <1>0, <1>1, <1>5, <3>1, Fields DEF Windows
  <2>3. \A v \in Wins : transfer'[v] # None <=> win'[v] = "booting"
    BY <1>0, <1>4, <1>5 DEF Windows
  <2>4. QED
    BY <1>0, <2>1, <2>2, <2>3, WindowsKept
<1>9. Sessions'
  BY <1>0, <1>1, <1>3, SessionsKept DEF Live
<1>10. Carried'
  <2>1. \A d \in acks' : /\ drags'[d].state = "over"
                         /\ ~drags'[d].pending => drags'[d].tile \in copied'
    BY <1>0, <1>1, <1>6 DEF Carried
  <2>2. \A d \in Drags : drags'[d].pending => drags[d].pending /\ drags'[d].state # "none"
    BY <1>0, <1>1 DEF Carried
  <2>3. QED
    BY <1>0, <1>1, <1>3, <2>1, <2>2, CarriedKept DEF Live
<1>11. \A p \in Objects : Stays(p)' <=> Stays(p) /\ p # o
  BY <1>1, <1>3 DEF Stays, Live
<1>12. Somewhere'
  <2>1. ASSUME NEW t \in Tiles, ~accident, t \notin closed
        PROVE  \/ \E p \in Objects : Stays(p)' /\ objs'[p].tile = t
               \/ \E v \in Wins : transfer'[v] = t
    <3>1. transfer[w] = None
      BY <1>0, <1>1 DEF Windows
    <3>2. CASE \E v \in Wins : transfer[v] = t
      BY <1>5, <3>1, <3>2, RecordIsLive
    <3>3. CASE \E p \in Objects : Stays(p) /\ objs[p].tile = t
      BY <1>3, <1>5, <1>11, <3>3
    <3>4. QED
      BY <1>0, <2>1, <3>2, <3>3 DEF Somewhere
  <2>2. QED
    BY <1>1, <2>1 DEF Somewhere
<1>13. Once'
  <2>1. objs[o].tile \in copied' \/ Stays(o)
    BY <1>1, <1>6 DEF Stays
  <2>2. ASSUME NEW p \in Objects, NEW q \in Objects, Stays(p)', Stays(q)',
               objs'[p].tile = objs'[q].tile, objs'[p].tile \notin copied'
        PROVE  p = q
    BY <1>0, <1>3, <1>6, <1>11, <2>2 DEF Once
  <2>3. ASSUME NEW u \in Wins, NEW v \in Wins, transfer'[u] = transfer'[v],
               transfer'[u] # None, transfer'[u] \notin copied'
        PROVE  u = v
    <3>1. CASE u # w /\ v # w
      BY <1>0, <1>5, <1>6, <2>3, <3>1 DEF Once
    <3>2. ASSUME NEW x \in Wins, x # w, transfer[x] = objs[o].tile
          PROVE  objs[o].tile \in copied'
      BY <1>0, <1>6, <2>1, <3>2 DEF Once
    <3>3. QED
      BY <1>5, <2>3, <3>1, <3>2
  <2>4. ASSUME NEW p \in Objects, NEW v \in Wins, Stays(p)', transfer'[v] = objs'[p].tile
        PROVE  transfer'[v] \in copied'
    <3>1. Stays(p) /\ p # o /\ objs'[p] = objs[p]
      BY <1>3, <1>11, <2>4
    <3>2. CASE v # w
      BY <1>0, <1>5, <1>6, <2>4, <3>1, <3>2 DEF Once
    <3>3. CASE v = w
      BY <1>0, <1>5, <1>6, <2>1, <2>4, <3>1, <3>3 DEF Once
    <3>4. QED
      BY <3>2, <3>3
  <2>5. QED
    BY <2>2, <2>3, <2>4 DEF Once
<1>14. InHand' /\ OnePointer'
  BY <1>0, <1>1 DEF InHand, OnePointer
<1>15. QED
  BY <1>7, <1>8, <1>9, <1>10, <1>12, <1>13, <1>14 DEF IInv

LEMMA BootTransferredKeeps ==
    ASSUME IInv, NEW w \in Wins, BootTransferred(w)
    PROVE  IInv'
<1>0. Shape /\ Windows /\ Sessions /\ Carried /\ Somewhere /\ Once /\ InHand /\ OnePointer
  BY DEF IInv
<1>1. /\ saved' = saved /\ drags' = drags /\ acks' = acks
      /\ accident' = accident /\ closed' = closed /\ copied' = copied
      /\ win[w] = "booting" /\ transfer[w] \in Tiles /\ acks \subseteq Drags
  BY <1>0, Fields DEF BootTransferred, Windows, Shape
<1>2. /\ \A v \in Wins : dirty[v] \/ v = w => dirty'[v]
      /\ dirty' \in [Wins -> BOOLEAN]
  BY <1>0, ChangedIs DEF BootTransferred
<1>3. PICK o \in Free : objs' = Received(w, transfer[w], o)
  BY DEF BootTransferred
<1>4. /\ o \in Objects /\ ~Live(o)
      /\ \A v \in Wins : \A s \in saved[v] : s.id # o
      /\ \A d \in Drags : drags[d].pending => drags[d].obj # o
  BY <1>3 DEF Free
<1>5. /\ objs' \in [Objects -> [tile : Tiles, win : Wins] \cup {None}]
      /\ objs'[o] # None /\ objs'[o].tile = transfer[w] /\ objs'[o].win = w
      /\ \A p \in Objects : p # o => objs'[p] = objs[p]
  BY <1>0, <1>1, <1>3, <1>4, ReceivedIs
<1>6. /\ win' \in [Wins -> {"shut", "booting", "up"}]
      /\ win'[w] = "up" /\ \A v \in Wins : v # w => win'[v] = win[v]
      /\ transfer' \in [Wins -> Tiles \cup {None}]
      /\ transfer'[w] = None /\ \A v \in Wins : v # w => transfer'[v] = transfer[v]
  BY <1>0 DEF BootTransferred, Shape
<1>7. Shape'
  BY <1>0, <1>1, <1>2, <1>5, <1>6 DEF Shape
<1>8. Windows'
  <2>1. \A v \in Wins : ~dirty'[v] =>
              /\ saved'[v] = saved[v] /\ ~dirty[v]
              /\ \A p \in Objects : \/ objs'[p] = objs[p]
                                    \/ /\ Live(p) => objs[p].win # v
                                       /\ Live(p)' => objs'[p].win # v
    BY <1>1, <1>2, <1>4, <1>5
  <2>2. \A p \in Objects : Live(p)' => win'[objs'[p].win] = "up"
    BY <1>0, <1>5, <1>6, Fields DEF Windows, Live
  <2>3. \A v \in Wins : transfer'[v] # None <=> win'[v] = "booting"
    BY <1>0, <1>6 DEF Windows
  <2>4. QED
    BY <1>0, <2>1, <2>2, <2>3, WindowsKept
<1>9. Sessions'
  BY <1>0, <1>1, <1>4, <1>5, SessionsKept
<1>10. Carried'
  <2>1. \A d \in acks' : /\ drags'[d].state = "over"
                         /\ ~drags'[d].pending => drags'[d].tile \in copied'
    BY <1>0, <1>1 DEF Carried
  <2>2. \A d \in Drags : drags'[d].pending => drags[d].pending /\ drags'[d].state # "none"
    BY <1>0, <1>1 DEF Carried
  <2>3. QED
    BY <1>0, <1>1, <1>4, <1>5, <2>1, <2>2, CarriedKept
<1>11. /\ \A p \in Objects : p # o => (Stays(p)' <=> Stays(p))
       /\ Stays(o)' /\ ~Stays(o)
  BY <1>1, <1>4, <1>5 DEF Stays, Live
<1>12. Somewhere'
  <2>1. \A p \in Objects : Stays(p) => Stays(p)' /\ objs'[p] = objs[p]
    BY <1>5, <1>11
  <2>2. QED
    BY <1>0, <1>1, <1>4, <1>5, <1>6, <1>11, <2>1 DEF Somewhere
<1>13. Once'
  <2>1. \A p \in Objects : Stays(p) /\ objs[p].tile = transfer[w] => transfer[w] \in copied
    BY <1>0 DEF Once
  <2>2. ASSUME NEW p \in Objects, NEW q \in Objects, Stays(p)', Stays(q)',
               objs'[p].tile = objs'[q].tile, objs'[p].tile \notin copied'
        PROVE  p = q
    BY <1>0, <1>1, <1>5, <1>11, <2>1, <2>2 DEF Once
  <2>3. ASSUME NEW u \in Wins, NEW v \in Wins, transfer'[u] = transfer'[v],
               transfer'[u] # None, transfer'[u] \notin copied'
        PROVE  u = v
    BY <1>0, <1>1, <1>6, <2>3 DEF Once
  <2>4. ASSUME NEW p \in Objects, NEW v \in Wins, Stays(p)', transfer'[v] = objs'[p].tile
        PROVE  transfer'[v] \in copied'
    <3>1. objs'[p].tile \in Tiles
      BY <1>7, <2>4, Fields DEF Stays, Live, Shape
    <3>2. v # w /\ transfer'[v] = transfer[v]
      BY <1>6, <2>4, <3>1, RecordIsLive
    <3>3. CASE p = o
      <4>1. transfer[v] = transfer[w] /\ v # w
        BY <1>5, <2>4, <3>2, <3>3
      <4>2. transfer[v] # None
        BY <2>4, <3>1, <3>2, RecordIsLive, Zenon
      <4>3. transfer[v] \in copied
        BY <1>0, <4>1, <4>2 DEF Once
      <4>4. QED
        BY <1>1, <3>2, <4>3
    <3>4. CASE p # o
      BY <1>0, <1>1, <1>5, <1>11, <2>4, <3>2, <3>4 DEF Once
    <3>5. QED
      BY <3>3, <3>4
  <2>5. QED
    BY <2>2, <2>3, <2>4 DEF Once
<1>14. InHand'
  <2>1. ASSUME NEW d \in Drags, drags[d].pending, Stays(drags[d].obj), drags[d].obj \in Objects
        PROVE  Stays(drags[d].obj)'
    <3>1. \A p \in Objects : Stays(p) => Stays(p)'
      BY <1>11
    <3>2. QED
      BY <1>1, <2>1, <3>1
  <2>2. QED
    BY <1>0, <1>1, <2>1 DEF InHand, Carried, Stays, Live
<1>15. OnePointer'
  BY <1>0, <1>1 DEF OnePointer
<1>16. QED
  BY <1>7, <1>8, <1>9, <1>10, <1>12, <1>13, <1>14, <1>15 DEF IInv

LEMMA TransferLostKeeps ==
    ASSUME IInv, NEW w \in Wins, TransferLost(w)
    PROVE  IInv'
<1>0. Shape /\ Windows /\ Sessions /\ Carried /\ Somewhere /\ Once /\ InHand /\ OnePointer
  BY DEF IInv
<1>1. /\ objs' = objs /\ saved' = saved /\ dirty' = dirty /\ drags' = drags /\ acks' = acks
      /\ accident' = TRUE /\ closed' = closed /\ copied' = copied /\ win[w] = "booting"
  BY DEF TransferLost
<1>2. /\ win' \in [Wins -> {"shut", "booting", "up"}]
      /\ win'[w] = "shut" /\ \A v \in Wins : v # w => win'[v] = win[v]
      /\ transfer' \in [Wins -> Tiles \cup {None}]
      /\ transfer'[w] = None /\ \A v \in Wins : v # w => transfer'[v] = transfer[v]
  BY <1>0 DEF TransferLost, Shape
<1>3. Shape'
  BY <1>0, <1>1, <1>2 DEF Shape
<1>4. Windows'
  <2>1. \A p \in Objects : Live(p)' => win'[objs'[p].win] = "up"
    BY <1>0, <1>1, <1>2, Fields DEF Windows, Live
  <2>2. \A v \in Wins : transfer'[v] # None <=> win'[v] = "booting"
    BY <1>0, <1>2 DEF Windows
  <2>3. QED
    BY <1>0, <1>1, <2>1, <2>2, WindowsKept
<1>5. Sessions' /\ Carried'
  BY <1>0, <1>1 DEF Sessions, Carried, Live
<1>6. \A p \in Objects : Stays(p)' <=> Stays(p)
  BY <1>1 DEF Stays, Live
<1>7. Once'
  <2>1. \A v \in Wins : transfer'[v] # None => transfer'[v] = transfer[v]
    BY <1>2
  <2>2. \A p \in Objects : Stays(p) => objs[p].tile # None
    BY <1>0, Fields, RecordIsLive DEF Stays
  <2>3. QED
    BY <1>0, <1>1, <1>6, <2>1, <2>2 DEF Once
<1>8. Somewhere' /\ InHand' /\ OnePointer'
  BY <1>0, <1>1 DEF Somewhere, InHand, OnePointer, Stays, Live
<1>9. QED
  BY <1>3, <1>4, <1>5, <1>7, <1>8 DEF IInv

LEMMA DropInsideKeeps ==
    ASSUME IInv, NEW d \in Drags, NEW ctrl \in BOOLEAN, DropInside(d, ctrl)
    PROVE  IInv'
<1>0. Shape /\ Windows /\ Sessions /\ Carried /\ Somewhere /\ Once /\ InHand /\ OnePointer
  BY DEF IInv
<1> DEFINE src == drags[d].src
           t0 == drags[d].tile
           old == drags[d].obj
           moved == ~ctrl /\ drags[d].pending
<1>1. /\ win' = win /\ saved' = saved /\ acks' = acks /\ transfer' = transfer
      /\ accident' = accident /\ closed' = closed
      /\ drags[d].state = "dragging" /\ win[src] = "up"
      /\ src \in Wins /\ t0 \in Tiles /\ old \in Objects
      /\ acks \subseteq Drags /\ d \notin acks
  BY <1>0, Fields DEF DropInside, Carried
<1>2. /\ \A v \in Wins : dirty[v] \/ v = src => dirty'[v]
      /\ dirty' \in [Wins -> BOOLEAN]
  BY <1>0, ChangedIs DEF DropInside
<1>3. PICK o \in Free :
        /\ objs' \in [Objects -> [tile : Tiles, win : Wins] \cup {None}]
        /\ objs'[o] # None /\ objs'[o].tile = t0 /\ objs'[o].win = src
        /\ moved => o # old /\ objs'[old] = None
        /\ \A p \in Objects : p # o /\ (moved => p # old) => objs'[p] = objs[p]
  BY <1>0, <1>1, DropInsideIs
<1>4. /\ o \in Objects /\ ~Live(o)
      /\ \A v \in Wins : \A s \in saved[v] : s.id # o
      /\ \A e \in Drags : drags[e].pending => drags[e].obj # o
  BY <1>3 DEF Free
<1>5. /\ objs' \in [Objects -> [tile : Tiles, win : Wins] \cup {None}]
      /\ objs'[o] # None /\ objs'[o].tile = t0 /\ objs'[o].win = src
      /\ moved => o # old /\ objs'[old] = None
      /\ \A p \in Objects : p # o /\ (moved => p # old) => objs'[p] = objs[p]
  BY <1>3
<1>6. /\ drags' \in [Drags -> DragRec]
      /\ \A e \in Drags : e # d => drags'[e] = drags[e]
      /\ drags'[d].state = "none" /\ drags'[d].pending = FALSE
  BY <1>0 DEF DropInside, Shape, Idle, DragRec
<1>7. /\ copied \subseteq copied' /\ copied' \subseteq Tiles
      /\ t0 \in copied' \/ (moved /\ Stays(old))
      /\ Live(old) /\ drags[d].pending => objs[old].tile = t0
  BY <1>0, <1>1 DEF DropInside, Shape, InHand, Carried
<1> HIDE DEF src, t0, old, moved
<1>8. Shape'
  BY <1>0, <1>1, <1>2, <1>5, <1>6, <1>7 DEF Shape
<1>9. moved => drags[d].pending
  BY DEF moved
<1>10. Windows'
  <2>1. Live(old) /\ moved => objs[old].win = src
    BY <1>0, <1>9 DEF Carried, old, src
  <2>2. \A v \in Wins : ~dirty'[v] =>
              /\ saved'[v] = saved[v] /\ ~dirty[v]
              /\ \A p \in Objects : \/ objs'[p] = objs[p]
                                    \/ /\ Live(p) => objs[p].win # v
                                       /\ Live(p)' => objs'[p].win # v
    BY <1>1, <1>2, <1>4, <1>5, <2>1 DEF Live
  <2>3. \A p \in Objects : Live(p)' => win'[objs'[p].win] = "up"
    BY <1>0, <1>1, <1>5 DEF Windows, Live
  <2>4. \A v \in Wins : transfer'[v] # None <=> win'[v] = "booting"
    BY <1>0, <1>1 DEF Windows
  <2>5. QED
    BY <1>0, <2>2, <2>3, <2>4, WindowsKept
<1>11. Sessions'
  BY <1>0, <1>1, <1>4, <1>5, SessionsKept DEF Live
<1>12. Carried'
  <2>1. \A e \in acks' : /\ drags'[e].state = "over"
                         /\ ~drags'[e].pending => drags'[e].tile \in copied'
    BY <1>0, <1>1, <1>6, <1>7 DEF Carried
  <2>2. \A e \in Drags : /\ drags'[e].state # "none" => e # d
                         /\ drags'[e].pending => drags[e].pending /\ drags'[e].state # "none"
    BY <1>0, <1>6 DEF Carried
  <2>3. \A p \in Objects : Live(p)' =>
              \/ objs'[p] = objs[p]
              \/ \A e \in Drags : drags'[e].pending => drags[e].obj # p
    BY <1>4, <1>5, <2>2 DEF Live
  <2>4. QED
    BY <1>0, <1>1, <1>6, <2>1, <2>2, <2>3, CarriedKept
<1>13. /\ \A p \in Objects : p # o /\ (moved => p # old) => (Stays(p)' <=> Stays(p))
       /\ \A p \in Objects : Stays(p)' => (moved => p # old)
       /\ Stays(o)' /\ ~Stays(o)
  <2>1. \A e \in acks' : e \in acks /\ drags'[e] = drags[e] /\ e \in Drags
    BY <1>1, <1>6
  <2>2. ASSUME NEW p \in Objects, p # o, moved => p # old
        PROVE  Stays(p)' <=> Stays(p)
    <3>1. objs'[p] = objs[p]
      BY <1>5, <2>2
    <3>2. QED
      BY <1>1, <2>1, <3>1 DEF Stays, Live
  <2>3. \A p \in Objects : Stays(p)' => (moved => p # old)
    BY <1>5 DEF Stays, Live
  <2>4. Stays(o)' /\ ~Stays(o)
    BY <1>4, <1>5, <2>1 DEF Stays, Live
  <2>5. QED
    BY <2>2, <2>3, <2>4
<1>14. Somewhere'
  <2>1. ASSUME NEW t \in Tiles, NEW p \in Objects, Stays(p), objs[p].tile = t
        PROVE  \E q \in Objects : Stays(q)' /\ objs'[q].tile = t
    <3>1. CASE moved /\ p = old
      BY <1>4, <1>5, <1>7, <1>9, <1>13, <2>1, <3>1 DEF Stays
    <3>2. CASE ~(moved /\ p = old)
      BY <1>5, <1>13, <2>1, <3>2
    <3>3. QED
      BY <3>1, <3>2
  <2>2. QED
    BY <1>0, <1>1, <2>1 DEF Somewhere
<1>15. Once'
  <2>1. ASSUME NEW p \in Objects, p # o, Stays(p)', objs'[p].tile \notin copied'
        PROVE  Stays(p) /\ objs'[p] = objs[p] /\ objs[p].tile # t0
    <3>1. Stays(p) /\ objs'[p] = objs[p] /\ (moved => p # old)
      BY <1>5, <1>13, <2>1
    <3>2. CASE objs[p].tile = t0
      <4>1. moved /\ Stays(old) /\ objs[old].tile = t0
        BY <1>7, <1>9, <2>1, <3>1, <3>2 DEF Stays
      <4>2. p = old
        BY <1>0, <1>1, <1>7, <2>1, <3>1, <3>2, <4>1 DEF Once, old
      <4>3. QED
        BY <3>1, <4>1, <4>2
    <3>3. QED
      BY <3>1, <3>2
  <2>2. ASSUME NEW p \in Objects, NEW q \in Objects, Stays(p)', Stays(q)',
               objs'[p].tile = objs'[q].tile, objs'[p].tile \notin copied'
        PROVE  p = q
    BY <1>0, <1>5, <1>7, <2>1, <2>2 DEF Once
  <2>3. ASSUME NEW p \in Objects, NEW v \in Wins, Stays(p)', transfer'[v] = objs'[p].tile,
               transfer'[v] \notin copied'
        PROVE  FALSE
    <3>1. CASE p # o
      BY <1>0, <1>1, <1>7, <2>1, <2>3, <3>1 DEF Once
    <3>2. CASE p = o
      <4>1. transfer[v] = t0 /\ Stays(old) /\ moved
        BY <1>1, <1>5, <1>7, <2>3, <3>2
      <4>2. objs[old].tile = t0 /\ old \in Objects
        BY <1>1, <1>7, <1>9, <4>1 DEF Stays, old
      <4>3. QED
        BY <1>0, <1>1, <1>7, <2>3, <4>1, <4>2 DEF Once
    <3>3. QED
      BY <3>1, <3>2
  <2>4. \A u, v \in Wins :
         transfer'[u] = transfer'[v] /\ transfer'[u] # None /\ transfer'[u] \notin copied' => u = v
    BY <1>0, <1>1, <1>7 DEF Once
  <2>5. QED
    BY <2>2, <2>3, <2>4 DEF Once
<1>16. \A e \in Drags : drags'[e].state # "dragging"
  BY <1>0, <1>1, <1>6 DEF OnePointer
<1>17. InHand' /\ OnePointer'
  BY <1>16 DEF InHand, OnePointer
<1>18. QED
  BY <1>8, <1>10, <1>11, <1>12, <1>14, <1>15, <1>17 DEF IInv

LEMMA DropOutsideKeeps ==
    ASSUME IInv, NEW d \in Drags, NEW w \in Wins, DropOutside(d, w)
    PROVE  IInv'
<1>0. Shape /\ Windows /\ Sessions /\ Carried /\ Somewhere /\ Once /\ InHand /\ OnePointer
  BY DEF IInv
<1> DEFINE t0 == drags[d].tile
           old == drags[d].obj
           moved == drags[d].pending
<1>1. /\ win' = win /\ saved' = saved /\ acks' = acks \cup {d} /\ transfer' = transfer
      /\ accident' = accident /\ closed' = closed /\ copied' = copied
      /\ drags[d].state = "dragging" /\ win[w] = "up"
      /\ t0 \in Tiles /\ old \in Objects
      /\ acks \subseteq Drags /\ d \notin acks
  BY <1>0, Fields DEF DropOutside, Carried
<1>2. /\ \A v \in Wins : dirty[v] \/ v = w => dirty'[v]
      /\ dirty' \in [Wins -> BOOLEAN]
  BY <1>0, ChangedIs DEF DropOutside
<1>3. PICK o \in Free : objs' = Received(w, t0, o)
  BY DEF DropOutside
<1>4. /\ o \in Objects /\ ~Live(o)
      /\ \A v \in Wins : \A s \in saved[v] : s.id # o
      /\ \A e \in Drags : drags[e].pending => drags[e].obj # o
  BY <1>3 DEF Free
<1>5. /\ objs' \in [Objects -> [tile : Tiles, win : Wins] \cup {None}]
      /\ objs'[o] # None /\ objs'[o].tile = t0 /\ objs'[o].win = w
      /\ \A p \in Objects : p # o => objs'[p] = objs[p]
  BY <1>0, <1>1, <1>3, <1>4, ReceivedIs
<1>6. /\ drags' \in [Drags -> DragRec]
      /\ \A e \in Drags : e # d => drags'[e] = drags[e]
      /\ drags'[d].state = "over" /\ drags'[d].pending = moved /\ drags'[d].obj = old
      /\ drags'[d].tile = t0 /\ drags'[d].src = drags[d].src
  BY <1>0 DEF DropOutside, Shape, DragRec
<1>7. /\ t0 \in copied \/ (moved /\ Stays(old))
      /\ Live(old) /\ moved => objs[old].tile = t0
      /\ moved => o # old
  BY <1>0, <1>1, <1>4 DEF InHand, Carried
<1> HIDE DEF t0, old, moved
<1>8. Shape'
  <2>1. acks' \subseteq Drags /\ IsFiniteSet(acks')
    BY <1>0, <1>1, FS_AddElement DEF Shape
  <2>2. QED
    BY <1>0, <1>1, <1>2, <1>5, <1>6, <2>1 DEF Shape
<1>9. Windows'
  <2>1. \A v \in Wins : ~dirty'[v] =>
              /\ saved'[v] = saved[v] /\ ~dirty[v]
              /\ \A p \in Objects : \/ objs'[p] = objs[p]
                                    \/ /\ Live(p) => objs[p].win # v
                                       /\ Live(p)' => objs'[p].win # v
    BY <1>1, <1>2, <1>4, <1>5
  <2>2. \A p \in Objects : Live(p)' => win'[objs'[p].win] = "up"
    BY <1>0, <1>1, <1>5 DEF Windows, Live
  <2>3. \A v \in Wins : transfer'[v] # None <=> win'[v] = "booting"
    BY <1>0, <1>1 DEF Windows
  <2>4. QED
    BY <1>0, <2>1, <2>2, <2>3, WindowsKept
<1>10. Sessions'
  BY <1>0, <1>1, <1>4, <1>5, SessionsKept
<1>11. Carried'
  <2>1. \A e \in acks' : /\ drags'[e].state = "over"
                         /\ ~drags'[e].pending => drags'[e].tile \in copied'
    BY <1>0, <1>1, <1>6, <1>7 DEF Carried
  <2>2. \A e \in Drags : drags'[e].pending => drags[e].pending /\ drags'[e].state # "none"
    BY <1>0, <1>6 DEF Carried, moved
  <2>3. \A e \in Drags : drags'[e].state # "none" =>
                            /\ drags[e].state # "none"
                            /\ drags'[e].obj = drags[e].obj
                            /\ drags'[e].tile = drags[e].tile
                            /\ drags'[e].src = drags[e].src
    BY <1>1, <1>6 DEF t0, old
  <2>4. \A p \in Objects : Live(p)' =>
              \/ objs'[p] = objs[p]
              \/ \A e \in Drags : drags'[e].pending => drags[e].obj # p
    BY <1>4, <1>5, <2>2
  <2>5. QED
    BY <1>0, <1>1, <2>1, <2>2, <2>3, <2>4, CarriedKept
<1>12. /\ \A p \in Objects : p # o => (Stays(p)' <=> Stays(p) /\ (moved => p # old))
       /\ Stays(o)' /\ ~Stays(o)
  <2>1. \A e \in acks' : e = d \/ (e \in acks /\ drags'[e] = drags[e])
    BY <1>1, <1>6
  <2>2. ASSUME NEW p \in Objects, p # o
        PROVE  Stays(p)' <=> Stays(p) /\ (moved => p # old)
    BY <1>1, <1>5, <1>6, <2>1, <2>2 DEF Stays, Live
  <2>3. Stays(o)' /\ ~Stays(o)
    BY <1>1, <1>4, <1>5, <1>6, <1>7, <2>1 DEF Stays, Live
  <2>4. QED
    BY <2>2, <2>3
<1>13. Somewhere'
  <2>1. ASSUME NEW t \in Tiles, NEW p \in Objects, Stays(p), objs[p].tile = t
        PROVE  \E q \in Objects : Stays(q)' /\ objs'[q].tile = t
    <3>1. CASE moved /\ p = old
      BY <1>4, <1>5, <1>7, <1>12, <2>1, <3>1 DEF Stays
    <3>2. CASE ~(moved /\ p = old)
      BY <1>5, <1>12, <2>1, <3>2
    <3>3. QED
      BY <3>1, <3>2
  <2>2. QED
    BY <1>0, <1>1, <2>1 DEF Somewhere
<1>14. Once'
  <2>1. ASSUME NEW p \in Objects, p # o, Stays(p)', objs'[p].tile \notin copied'
        PROVE  Stays(p) /\ objs'[p] = objs[p] /\ objs[p].tile # t0
    <3>1. Stays(p) /\ objs'[p] = objs[p] /\ (moved => p # old)
      BY <1>5, <1>12, <2>1
    <3>2. CASE objs[p].tile = t0
      <4>1. moved /\ Stays(old) /\ objs[old].tile = t0
        BY <1>1, <1>7, <2>1, <3>1, <3>2 DEF Stays
      <4>2. p = old
        BY <1>0, <1>1, <2>1, <3>1, <3>2, <4>1 DEF Once, old
      <4>3. QED
        BY <3>1, <4>1, <4>2
    <3>3. QED
      BY <3>1, <3>2
  <2>2. ASSUME NEW p \in Objects, NEW q \in Objects, Stays(p)', Stays(q)',
               objs'[p].tile = objs'[q].tile, objs'[p].tile \notin copied'
        PROVE  p = q
    BY <1>0, <1>1, <1>5, <2>1, <2>2 DEF Once
  <2>3. ASSUME NEW p \in Objects, NEW v \in Wins, Stays(p)', transfer'[v] = objs'[p].tile,
               transfer'[v] \notin copied'
        PROVE  FALSE
    <3>1. CASE p # o
      BY <1>0, <1>1, <2>1, <2>3, <3>1 DEF Once
    <3>2. CASE p = o
      <4>1. transfer[v] = t0 /\ Stays(old) /\ moved
        BY <1>1, <1>5, <1>7, <2>3, <3>2
      <4>2. objs[old].tile = t0 /\ old \in Objects
        BY <1>1, <1>7, <4>1 DEF Stays, old
      <4>3. QED
        BY <1>0, <1>1, <2>3, <4>1, <4>2 DEF Once
    <3>3. QED
      BY <3>1, <3>2
  <2>4. \A u, v \in Wins :
         transfer'[u] = transfer'[v] /\ transfer'[u] # None /\ transfer'[u] \notin copied' => u = v
    BY <1>0, <1>1 DEF Once
  <2>5. QED
    BY <2>2, <2>3, <2>4 DEF Once
<1>15. \A e \in Drags : drags'[e].state # "dragging"
  BY <1>0, <1>1, <1>6 DEF OnePointer
<1>16. InHand' /\ OnePointer'
  BY <1>15 DEF InHand, OnePointer
<1>17. QED
  BY <1>8, <1>9, <1>10, <1>11, <1>13, <1>14, <1>16 DEF IInv

LEMMA CompleteMoveKeeps ==
    ASSUME IInv, NEW d \in Drags, CompleteMove(d)
    PROVE  IInv'
<1>0. Shape /\ Windows /\ Sessions /\ Carried /\ Somewhere /\ Once /\ InHand /\ OnePointer
  BY DEF IInv
<1> DEFINE old == drags[d].obj
           moved == drags[d].pending
           ds == [drags EXCEPT ![d].pending = FALSE]
<1>1. /\ win' = win /\ saved' = saved /\ acks' = acks \ {d} /\ transfer' = transfer
      /\ accident' = accident /\ closed' = closed /\ copied' = copied
      /\ d \in acks /\ drags[d].state = "over"
      /\ acks \subseteq Drags /\ old \in Objects /\ drags[d].src \in Wins
  BY <1>0, Fields DEF CompleteMove, Carried
<1>2. /\ objs' \in [Objects -> [tile : Tiles, win : Wins] \cup {None}]
      /\ moved => objs'[old] = None
      /\ \A p \in Objects : (moved => p # old) => objs'[p] = objs[p]
  <2>1. CASE moved
    <3>1. objs' = [objs EXCEPT ![old] = None]
      BY <2>1 DEF CompleteMove
    <3>2. QED
      BY <1>0, <1>1, <2>1, <3>1 DEF Shape
  <2>2. CASE ~moved
    <3>1. objs' = objs
      BY <2>2 DEF CompleteMove
    <3>2. QED
      BY <1>0, <2>2, <3>1 DEF Shape
  <2>3. QED
    BY <2>1, <2>2
<1>3. /\ dirty' \in [Wins -> BOOLEAN]
      /\ \A v \in Wins : dirty[v] => dirty'[v]
      /\ moved => dirty'[drags[d].src]
  BY <1>0, <1>1, ChangedIs DEF CompleteMove, Shape
<1>4. /\ ds \in [Drags -> DragRec]
      /\ \A e \in Drags : e # d => ds[e] = drags[e]
      /\ ds[d].state = "over" /\ ds[d].obj = old /\ ds[d].src = drags[d].src
      /\ ds[d].tile = drags[d].tile /\ ds[d].pending = FALSE
  BY <1>0, <1>1 DEF Shape, DragRec
<1>5. drags' = Settled(ds, acks \ {d})
  BY DEF CompleteMove
<1> HIDE DEF ds, old, moved
<1>6. /\ drags' \in [Drags -> DragRec]
      /\ \A e \in Drags : \/ drags'[e] = ds[e]
                          \/ /\ drags'[e].state = "none" /\ drags'[e].pending = FALSE
                             /\ e \notin acks \ {d} /\ ~ds[e].pending
  BY <1>4, <1>5, SettledIs DEF Idle
<1>7. Shape'
  <2>1. acks' \subseteq Drags /\ IsFiniteSet(acks')
    BY <1>0, <1>1, FS_RemoveElement DEF Shape
  <2>2. QED
    BY <1>0, <1>1, <1>2, <1>3, <1>6, <2>1 DEF Shape
<1>8. /\ \A e \in acks' : e \in Drags /\ e # d /\ e \in acks /\ drags'[e] = drags[e]
      /\ \A e \in Drags : /\ drags'[e].state # "none" =>
                               /\ drags[e].state # "none"
                               /\ drags'[e].obj = drags[e].obj
                               /\ drags'[e].tile = drags[e].tile
                               /\ drags'[e].src = drags[e].src
                          /\ drags'[e].state = "dragging" => drags'[e] = drags[e]
                          /\ drags'[e].pending => drags'[e] = drags[e] /\ e # d
  <2>1. \A e \in acks' : e \in Drags /\ e # d /\ e \in acks
    BY <1>1
  <2>2. \A e \in acks' : drags'[e] = drags[e]
    <3>1. \A e \in acks' : drags'[e] = ds[e]
      BY <1>1, <1>6, <2>1
    <3>2. QED
      BY <1>4, <2>1, <3>1
  <2>3. ASSUME NEW e \in Drags
        PROVE  /\ drags'[e].state # "none" =>
                               /\ drags[e].state # "none"
                               /\ drags'[e].obj = drags[e].obj
                               /\ drags'[e].tile = drags[e].tile
                               /\ drags'[e].src = drags[e].src
               /\ drags'[e].state = "dragging" => drags'[e] = drags[e]
               /\ drags'[e].pending => drags'[e] = drags[e] /\ e # d
    BY <1>1, <1>4, <1>6 DEF old
  <2>4. QED
    BY <2>1, <2>2, <2>3
<1>9. Windows'
  <2>1. moved /\ Live(old) => objs[old].win = drags[d].src
    BY <1>0, <1>1 DEF Carried, old, moved
  <2>2. \A v \in Wins : ~dirty'[v] =>
              /\ saved'[v] = saved[v] /\ ~dirty[v]
              /\ \A p \in Objects : \/ objs'[p] = objs[p]
                                    \/ /\ Live(p) => objs[p].win # v
                                       /\ Live(p)' => objs'[p].win # v
    BY <1>1, <1>2, <1>3, <2>1 DEF Live
  <2>3. \A p \in Objects : Live(p)' => win'[objs'[p].win] = "up"
    BY <1>0, <1>1, <1>2 DEF Windows, Live
  <2>4. \A v \in Wins : transfer'[v] # None <=> win'[v] = "booting"
    BY <1>0, <1>1 DEF Windows
  <2>5. QED
    BY <1>0, <2>2, <2>3, <2>4, WindowsKept
<1>10. Sessions'
  BY <1>0, <1>1, <1>2, SessionsKept DEF Live
<1>11. Carried'
  <2>1. \A e \in acks' : /\ drags'[e].state = "over"
                         /\ ~drags'[e].pending => drags'[e].tile \in copied'
    BY <1>0, <1>1, <1>8 DEF Carried
  <2>2. \A e \in Drags : drags'[e].pending => drags[e].pending /\ drags'[e].state # "none"
    BY <1>0, <1>8 DEF Carried
  <2>3. \A p \in Objects : Live(p)' =>
              \/ objs'[p] = objs[p]
              \/ \A e \in Drags : drags'[e].pending => drags[e].obj # p
    BY <1>2 DEF Live
  <2>4. QED
    BY <1>0, <1>1, <1>8, <2>1, <2>2, <2>3, CarriedKept
<1>12. ASSUME NEW p \in Objects
       PROVE  (Stays(p)' <=> Stays(p)) /\ (Stays(p) => objs'[p] = objs[p])
  <2>1. Stays(p) => (moved => p # old)
    BY <1>1 DEF Stays, moved, old
  <2>2. Stays(p) => Stays(p)' /\ objs'[p] = objs[p]
    BY <1>1, <1>2, <1>8, <2>1 DEF Stays, Live
  <2>3. ASSUME Stays(p)'
        PROVE  Stays(p)
    <3>1. Live(p) /\ (moved => p # old)
      BY <1>2, <2>3 DEF Stays, Live
    <3>2. \A e \in acks : drags[e].pending => drags[e].obj # p
      BY <1>1, <1>8, <2>3, <3>1 DEF Stays, moved, old
    <3>3. QED
      BY <3>1, <3>2 DEF Stays
  <2>4. QED
    BY <2>2, <2>3
<1>13. Somewhere'
  BY <1>0, <1>1, <1>12 DEF Somewhere
<1>14. Once'
  BY <1>0, <1>1, <1>12 DEF Once
<1>15. InHand'
  <2>1. ASSUME NEW e \in Drags, drags'[e].state = "dragging", drags'[e].tile \notin copied'
        PROVE  drags'[e].pending /\ Stays(drags[e].obj)' /\ drags'[e].obj = drags[e].obj
    <3>1. drags'[e] = drags[e]
      BY <1>8, <2>1
    <3>2. drags[e].pending /\ Stays(drags[e].obj) /\ drags[e].obj \in Objects
      BY <1>0, <1>1, <2>1, <3>1 DEF InHand, Carried
    <3>3. QED
      BY <1>12, <3>1, <3>2
  <2>2. QED
    BY <2>1 DEF InHand, Stays, Live
<1>16. OnePointer'
  BY <1>0, <1>8 DEF OnePointer
<1>17. QED
  BY <1>7, <1>9, <1>10, <1>11, <1>13, <1>14, <1>15, <1>16 DEF IInv

LEMMA SaveSessionKeeps ==
    ASSUME IInv, NEW w \in Wins, SaveSession(w)
    PROVE  IInv'
<1>0. Shape /\ Windows /\ Sessions /\ Carried /\ Somewhere /\ Once /\ InHand /\ OnePointer
  BY DEF IInv
<1>1. /\ objs' = objs /\ win' = win /\ drags' = drags /\ acks' = acks /\ transfer' = transfer
      /\ accident' = accident /\ closed' = closed /\ copied' = copied /\ acks \subseteq Drags
  BY <1>0, Fields DEF SaveSession
<1>2. \A s : s \in Session(w) <=> \E o \in Objects : /\ Live(o) /\ objs[o].win = w
                                                    /\ s = [id |-> o, tile |-> objs[o].tile]
  BY DEF Session, On
<1>3. \A s \in Session(w) : /\ s.id \in Objects /\ Live(s.id) /\ objs[s.id].win = w
                            /\ s.tile = objs[s.id].tile
                            /\ s \in [id : Objects, tile : Tiles]
  BY <1>0, <1>2, Fields
<1>4. \A r, s \in Session(w) : r.id = s.id => r = s
  BY <1>2
<1>5. /\ saved' \in [Wins -> SUBSET [id : Objects, tile : Tiles]]
      /\ saved'[w] = Session(w) /\ \A v \in Wins : v # w => saved'[v] = saved[v]
      /\ dirty' \in [Wins -> BOOLEAN]
      /\ ~dirty'[w] /\ \A v \in Wins : v # w => dirty'[v] = dirty[v]
  <2>1. Session(w) \subseteq [id : Objects, tile : Tiles]
    BY <1>3
  <2>2. QED
    BY <1>0, <2>1 DEF SaveSession, Shape
<1>6. Shape'
  BY <1>0, <1>1, <1>5 DEF Shape
<1>7. Windows'
  <2>1. \A v \in Wins : Session(v)' = Session(v)
    BY <1>1 DEF Session, On, Live
  <2>2. QED
    BY <1>0, <1>1, <1>5, <2>1 DEF Windows, Live
<1>8. Sessions'
  <2>1. ASSUME NEW v \in Wins, NEW s \in saved'[v]
        PROVE  Live(s.id) => objs[s.id].tile = s.tile /\ objs[s.id].win = v
    BY <1>0, <1>3, <1>5, <2>1 DEF Sessions
  <2>2. ASSUME NEW v \in Wins, NEW s \in saved'[v], NEW u \in Wins, NEW r \in saved'[u], r.id = s.id
        PROVE  u = v /\ r = s
    <3>1. CASE u = w \/ v = w
      <4>1. Live(s.id)
        BY <1>3, <1>5, <2>2, <3>1
      <4>2. u = v
        BY <2>1, <2>2, <4>1
      <4>3. QED
        BY <1>4, <1>5, <2>2, <3>1, <4>2
    <3>2. CASE u # w /\ v # w
      BY <1>0, <1>5, <2>2, <3>2 DEF Sessions
    <3>3. QED
      BY <3>1, <3>2
  <2>3. QED
    BY <1>1, <2>1, <2>2 DEF Sessions, Live
<1>9. Carried'
  <2>1. ASSUME NEW d \in Drags, drags[d].pending, NEW v \in Wins, NEW s \in saved'[v],
               s.id = drags[d].obj
        PROVE  s.tile = drags[d].tile /\ v = drags[d].src
    BY <1>0, <1>3, <1>5, <2>1 DEF Carried
  <2>2. QED
    BY <1>0, <1>1, <2>1 DEF Carried, Live
<1>10. Somewhere' /\ Once' /\ InHand' /\ OnePointer'
  BY <1>0, <1>1 DEF Somewhere, Once, InHand, OnePointer, Stays, Live
<1>11. QED
  BY <1>6, <1>7, <1>8, <1>9, <1>10 DEF IInv

\* What a reload makes of the screens: those of the window are those of its
\* saved session; a tile that both show is the same.
LEMMA ReloadIs ==
    ASSUME Shape, Windows, Sessions, NEW w \in Wins, Reload(w)
    PROVE  /\ objs' \in [Objects -> [tile : Tiles, win : Wins] \cup {None}]
           /\ \A s \in saved[w] : objs'[s.id] = [tile |-> s.tile, win |-> w]
           /\ \A o \in Objects : (\A s \in saved[w] : s.id # o) =>
                IF Live(o) /\ objs[o].win = w THEN objs'[o] = None ELSE objs'[o] = objs[o]
           /\ \A o \in Objects : Live(o) /\ objs[o].win = w /\ ~accident' =>
                objs'[o] = objs[o]
           /\ \A o \in Objects : Live(o) /\ objs[o].win # w => objs'[o] = objs[o]
<1> DEFINE Back(o) == CHOOSE s \in saved[w] : s.id = o
<1>1. \A s \in saved[w] : s.id \in Objects /\ s.tile \in Tiles
  BY Fields
<1>2. \A s \in saved[w] : Back(s.id) = s
  BY DEF Sessions
<1>3. \A s \in saved[w] : objs'[s.id] = [tile |-> s.tile, win |-> w]
  BY <1>1, <1>2 DEF Reload
<1>4. \A o \in Objects : (\A s \in saved[w] : s.id # o) =>
         IF Live(o) /\ objs[o].win = w THEN objs'[o] = None ELSE objs'[o] = objs[o]
  BY DEF Reload, On
<1>5. objs' \in [Objects -> [tile : Tiles, win : Wins] \cup {None}]
  <2>1. ASSUME NEW o \in Objects
        PROVE  objs'[o] \in [tile : Tiles, win : Wins] \cup {None}
    <3>1. CASE \E s \in saved[w] : s.id = o
      <4>1. PICK s \in saved[w] : s.id = o
        BY <3>1
      <4>2. objs'[o] = [tile |-> s.tile, win |-> w]
        BY <1>3, <4>1
      <4>3. [tile |-> s.tile, win |-> w] \in [tile : Tiles, win : Wins]
        BY <1>1
      <4>4. QED
        BY <4>2, <4>3
    <3>2. CASE \A s \in saved[w] : s.id # o
      BY <1>4, <3>2 DEF Shape
    <3>3. QED
      BY <3>1, <3>2
  <2>2. objs' = [o \in Objects |-> objs'[o]]
    BY DEF Reload
  <2>3. QED
    BY <2>1, <2>2
<1>6. ASSUME NEW o \in Objects, Live(o), NEW s \in saved[w], s.id = o
      PROVE  objs'[o] = objs[o]
  <2>1. objs[o] \in [tile : Tiles, win : Wins]
    BY <1>6, Fields
  <2>2. objs[o].tile = s.tile /\ objs[o].win = w
    BY <1>6 DEF Sessions
  <2>3. objs[o] = [tile |-> s.tile, win |-> w]
    BY <2>1, <2>2
  <2>4. QED
    BY <1>3, <1>6, <2>3
<1>7. ASSUME NEW o \in Objects, Live(o), objs[o].win = w, ~accident'
      PROVE  objs'[o] = objs[o]
  <2>1. dirty[w] => Session(w) \subseteq saved[w]
    BY <1>7 DEF Reload
  <2>2. Session(w) \subseteq saved[w]
    BY <2>1, Fields DEF Windows
  <2>3. [id |-> o, tile |-> objs[o].tile] \in saved[w]
    BY <1>7, <2>2 DEF Session, On
  <2>4. QED
    BY <1>6, <1>7, <2>3
<1>8. \A o \in Objects : Live(o) /\ objs[o].win # w => objs'[o] = objs[o]
  BY <1>4, <1>6
<1>9. QED
  BY <1>3, <1>4, <1>5, <1>7, <1>8

LEMMA ReloadKeeps ==
    ASSUME IInv, NEW w \in Wins, Reload(w)
    PROVE  IInv'
<1>0. Shape /\ Windows /\ Sessions /\ Carried /\ Somewhere /\ Once /\ InHand /\ OnePointer
  BY DEF IInv
<1>1. /\ win' = win /\ saved' = saved /\ acks' = acks /\ transfer' = transfer
      /\ closed' = closed /\ win[w] = "up" /\ acks \subseteq Drags
      /\ accident => accident'
  BY <1>0, Fields DEF Reload
<1>2. accident' \in BOOLEAN
  BY DEF Reload
<1>3. /\ \A v \in Wins : dirty[v] \/ v = w => dirty'[v]
      /\ dirty' \in [Wins -> BOOLEAN]
  BY <1>0, ChangedIs DEF Reload
<1>4. /\ objs' \in [Objects -> [tile : Tiles, win : Wins] \cup {None}]
      /\ \A s \in saved[w] : objs'[s.id] = [tile |-> s.tile, win |-> w]
      /\ \A o \in Objects : (\A s \in saved[w] : s.id # o) =>
           IF Live(o) /\ objs[o].win = w THEN objs'[o] = None ELSE objs'[o] = objs[o]
      /\ \A o \in Objects : Live(o) /\ objs[o].win = w /\ ~accident' => objs'[o] = objs[o]
      /\ \A o \in Objects : Live(o) /\ objs[o].win # w => objs'[o] = objs[o]
  BY <1>0, ReloadIs
<1>5. /\ copied \subseteq copied' /\ copied' \subseteq Tiles
      /\ \A s \in saved[w] : s \in Session(w) \/ s.tile \in copied'
      /\ \A d \in acks : drags[d].src = w => drags[d].tile \in copied'
  <2>1. \A d \in acks : drags[d].tile \in Tiles
    BY <1>0, <1>1 DEF Carried
  <2>2. copied' = copied \cup {s.tile : s \in saved[w] \ Session(w)}
                         \cup {drags[d].tile : d \in {e \in acks : drags[e].src = w}}
    BY DEF Reload
  <2>3. copied' \subseteq Tiles
    BY <1>0, <2>1, <2>2, Fields DEF Shape
  <2>4. QED
    BY <2>2, <2>3
<1> DEFINE ds == [d \in Drags |->
                    IF drags[d].src = w THEN [drags[d] EXCEPT !.pending = FALSE, !.state = "over"]
                    ELSE drags[d]]
<1>6. /\ ds \in [Drags -> DragRec]
      /\ \A d \in Drags :
           /\ drags[d].src # w => ds[d] = drags[d]
           /\ drags[d].src = w =>
                /\ ds[d].state = "over" /\ ds[d].pending = FALSE /\ ds[d].obj = drags[d].obj
                /\ ds[d].tile = drags[d].tile /\ ds[d].src = drags[d].src
  <2>1. \A d \in Drags : drags[d] \in DragRec
    BY <1>0 DEF Shape
  <2>2. QED
    BY <2>1 DEF DragRec
<1>7. drags' = Settled(ds, acks)
  BY DEF Reload
<1> HIDE DEF ds
<1>8. /\ drags' \in [Drags -> DragRec]
      /\ \A d \in Drags : \/ drags'[d] = ds[d]
                          \/ /\ drags'[d].state = "none" /\ drags'[d].pending = FALSE
                             /\ d \notin acks /\ ~ds[d].pending
      /\ \A d \in Drags : d \notin acks /\ ~ds[d].pending /\ ds[d].state = "over" =>
           drags'[d].state = "none"
  BY <1>6, <1>7, SettledIs DEF Idle
<1>9. Shape'
  BY <1>0, <1>1, <1>2, <1>3, <1>4, <1>5, <1>8 DEF Shape
<1>10. ASSUME NEW d \in Drags
       PROVE  /\ drags'[d].state # "none" =>
                    /\ drags[d].state # "none"
                    /\ drags'[d].obj = drags[d].obj
                    /\ drags'[d].tile = drags[d].tile
                    /\ drags'[d].src = drags[d].src
              /\ drags'[d].pending => drags[d].pending /\ drags[d].src # w /\ drags'[d] = drags[d]
              /\ drags'[d].state = "dragging" => drags[d].src # w /\ drags'[d] = drags[d]
              /\ d \in acks => /\ drags'[d].state = "over"
                               /\ ~drags'[d].pending => drags[d].tile \in copied'
              /\ drags[d].pending /\ d \in acks /\ drags[d].src # w => drags'[d] = drags[d]
  <2>1. d \in acks => drags[d].state = "over" /\ (~drags[d].pending => drags[d].tile \in copied)
    BY <1>0 DEF Carried
  <2>2. CASE drags[d].src = w
    BY <1>5, <1>6, <1>8, <2>1, <2>2
  <2>3. CASE drags[d].src # w
    BY <1>5, <1>6, <1>8, <2>1, <2>3
  <2>4. QED
    BY <2>2, <2>3
<1>11. \A s \in saved[w] : /\ s.id \in Objects /\ s.tile \in Tiles
                           /\ objs'[s.id].tile = s.tile /\ objs'[s.id].win = w
  <2>1. \A s \in saved[w] : s.id \in Objects /\ s.tile \in Tiles
    BY <1>0, Fields
  <2>2. \A s \in saved[w] : objs'[s.id] = [tile |-> s.tile, win |-> w]
    BY <1>4
  <2>3. \A s \in saved[w] : objs'[s.id].tile = s.tile /\ objs'[s.id].win = w
    <3> TAKE s \in saved[w]
    <3> DEFINE r == [tile |-> s.tile, win |-> w]
    <3>1. r.tile = s.tile /\ r.win = w
      OBVIOUS
    <3>2. objs'[s.id] = r
      BY <2>2
    <3> HIDE DEF r
    <3>3. QED
      BY <3>1, <3>2
  <2>4. QED
    BY <2>1, <2>3
<1>12. \A o \in Objects : Live(o)' =>
          \/ objs'[o] = objs[o]
          \/ \E s \in saved[w] : s.id = o
  BY <1>4 DEF Live
<1>13. Windows'
  <2>1. ASSUME NEW v \in Wins, ~dirty'[v], NEW p \in Objects
        PROVE  \/ objs'[p] = objs[p]
               \/ /\ Live(p) => objs[p].win # v
                  /\ Live(p)' => objs'[p].win # v
    <3>1. v # w
      BY <1>3, <2>1
    <3>2. CASE \E s \in saved[w] : s.id = p
      BY <1>4, <1>11, <3>1, <3>2
    <3>3. CASE \A s \in saved[w] : s.id # p
      BY <1>4, <3>1, <3>3 DEF Live
    <3>4. QED
      BY <3>2, <3>3
  <2>2. \A p \in Objects : Live(p)' => win'[objs'[p].win] = "up"
    BY <1>0, <1>1, <1>11, <1>12 DEF Windows, Live
  <2>3. \A v \in Wins : transfer'[v] # None <=> win'[v] = "booting"
    BY <1>0, <1>1 DEF Windows
  <2>4. \A v \in Wins : ~dirty'[v] => saved'[v] = saved[v] /\ ~dirty[v]
    BY <1>1, <1>3
  <2>5. QED
    BY <1>0, <2>1, <2>2, <2>3, <2>4, WindowsKept
<1>14. Sessions'
  <2>1. ASSUME NEW v \in Wins, NEW s \in saved[v], Live(s.id)'
        PROVE  objs'[s.id].tile = s.tile /\ objs'[s.id].win = v
    <3>1. s.id \in Objects
      BY <1>0, Fields
    <3>2. CASE objs'[s.id] = objs[s.id]
      BY <1>0, <2>1, <3>2 DEF Sessions, Live
    <3>3. CASE \E r \in saved[w] : r.id = s.id
      BY <1>0, <1>11, <2>1, <3>3 DEF Sessions
    <3>4. QED
      BY <1>12, <2>1, <3>1, <3>2, <3>3
  <2>2. QED
    BY <1>0, <1>1, <2>1 DEF Sessions, Live
<1>15. Carried'
  <2>1. \A d \in acks' : /\ drags'[d].state = "over"
                         /\ ~drags'[d].pending => drags'[d].tile \in copied'
    BY <1>1, <1>10
  <2>2. ASSUME NEW p \in Objects, Live(p)', objs'[p] # objs[p],
               NEW d \in Drags, drags'[d].pending, drags[d].obj = p
        PROVE  FALSE
    <3>1. PICK s \in saved[w] : s.id = p
      BY <1>12, <2>2
    <3>2. drags[d].pending /\ drags[d].src # w
      BY <1>10, <2>2
    <3>3. QED
      BY <1>0, <2>2, <3>1, <3>2 DEF Carried
  <2>3. \A d \in Drags : drags'[d].pending => drags[d].pending /\ drags'[d].state # "none"
    BY <1>0, <1>10 DEF Carried
  <2>4. QED
    BY <1>0, <1>1, <1>10, <2>1, <2>2, <2>3, CarriedKept
<1>16. ASSUME NEW o \in Objects, Stays(o), objs'[o] = objs[o]
       PROVE  Stays(o)'
  BY <1>1, <1>10, <1>16 DEF Stays, Live
<1>17. Somewhere'
  <2>1. ASSUME NEW o \in Objects, Stays(o), ~accident'
        PROVE  Stays(o)' /\ objs'[o] = objs[o]
    BY <1>4, <1>16, <2>1 DEF Stays
  <2>2. QED
    BY <1>0, <1>1, <2>1 DEF Somewhere
<1>18. Once'
  <2>1. ASSUME NEW o \in Objects, Stays(o)', objs'[o].tile \notin copied'
        PROVE  Stays(o) /\ objs'[o].tile = objs[o].tile
    <3>1. Live(o) /\ objs'[o].tile = objs[o].tile
      <4>1. CASE objs'[o] = objs[o]
        BY <2>1, <4>1 DEF Stays, Live
      <4>2. CASE \E s \in saved[w] : s.id = o
        <5>1. PICK s \in saved[w] : s.id = o
          BY <4>2
        <5>2. s \in Session(w)
          BY <1>5, <1>11, <2>1, <5>1
        <5>3. QED
          BY <1>11, <5>1, <5>2 DEF Session, On
      <4>3. QED
        BY <1>12, <2>1, <4>1, <4>2 DEF Stays
    <3>2. ASSUME NEW d \in acks, drags[d].pending, drags[d].obj = o
          PROVE  FALSE
      <4>1. d \in Drags /\ drags[d].tile = objs[o].tile
        BY <1>0, <1>1, <3>1, <3>2 DEF Carried
      <4>2. drags[d].src # w
        BY <1>5, <2>1, <3>1, <3>2, <4>1
      <4>3. drags'[d] = drags[d]
        BY <1>10, <3>2, <4>1, <4>2
      <4>4. QED
        BY <1>1, <2>1, <3>2, <4>3 DEF Stays
    <3>3. QED
      BY <3>1, <3>2 DEF Stays
  <2>2. \A o \in Objects : Stays(o)' => objs'[o].tile # None
    <3>1. \A o \in Objects : Live(o)' => objs'[o].tile \in Tiles
      BY <1>4 DEF Live
    <3>2. QED
      BY <3>1, RecordIsLive DEF Stays, Live
  <2>3. QED
    BY <1>0, <1>1, <1>5, <2>1, <2>2, OnceKept
<1>19. InHand'
  <2>1. ASSUME NEW d \in Drags, drags'[d].state = "dragging", drags'[d].tile \notin copied'
        PROVE  drags'[d].pending /\ Stays(drags[d].obj)' /\ drags'[d].obj = drags[d].obj
    <3>1. drags'[d] = drags[d] /\ drags[d].src # w
      BY <1>10, <2>1
    <3>2. drags[d].pending /\ Stays(drags[d].obj) /\ drags[d].obj \in Objects
      BY <1>0, <1>5, <2>1, <3>1 DEF InHand, Carried
    <3>3. Live(drags[d].obj) /\ objs[drags[d].obj].win # w
      BY <1>0, <3>1, <3>2 DEF Carried, Stays
    <3>4. QED
      BY <1>4, <1>16, <3>1, <3>2, <3>3
  <2>2. QED
    BY <2>1 DEF InHand, Stays, Live
<1>20. OnePointer'
  BY <1>0, <1>10 DEF OnePointer
<1>21. QED
  BY <1>9, <1>13, <1>14, <1>15, <1>17, <1>18, <1>19, <1>20 DEF IInv


-----------------------------------------------------------------------------
\* Each content is on one screen at the start.
LEMMA InitIInv == Init => IInv
<1> SUFFICES ASSUME Init PROVE IInv
  OBVIOUS
<1>1. PICK start \in Injection(Tiles, Objects), w0 \in Opened :
        objs = [o \in Objects |-> IF o \in Range(start)
                                  THEN [tile |-> Inverse(start, Tiles, Range(start))[o], win |-> w0]
                                  ELSE None]
  BY DEF Init
<1> DEFINE inv == Inverse(start, Tiles, Range(start))
<1>2. /\ start \in [Tiles -> Objects]
      /\ \A s, t \in Tiles : start[s] = start[t] => s = t
  BY DEF Injection, IsInjective
<1>3. \A o \in Range(start) : inv[o] \in Tiles /\ start[inv[o]] = o
  BY <1>2 DEF Range, Inverse
<1>4. \A t \in Tiles : start[t] \in Range(start) /\ start[t] \in Objects /\ inv[start[t]] = t
  BY <1>2, <1>3 DEF Range
<1>5. w0 \in Wins
  BY MoveAssumption
<1> HIDE DEF inv
<1>6. /\ objs \in [Objects -> [tile : Tiles, win : Wins] \cup {None}]
      /\ \A o \in Objects :
           IF o \in Range(start)
           THEN objs[o] # None /\ objs[o].tile = inv[o] /\ objs[o].win = w0
           ELSE objs[o] = None
  <2>1. \A o \in Objects : objs[o] = IF o \in Range(start) THEN [tile |-> inv[o], win |-> w0] ELSE None
    BY <1>1 DEF inv
  <2>2. \A o \in Range(start) : /\ [tile |-> inv[o], win |-> w0] \in [tile : Tiles, win : Wins]
                                /\ [tile |-> inv[o], win |-> w0] # None
    BY <1>3, <1>5, RecordIsLive
  <2>3. objs \in [Objects -> [tile : Tiles, win : Wins] \cup {None}]
    <3>1. \A o \in Objects : objs[o] \in [tile : Tiles, win : Wins] \cup {None}
      BY <2>1, <2>2
    <3>2. objs = [o \in Objects |-> objs[o]]
      BY <1>1
    <3>3. QED
      BY <3>1, <3>2
  <2>4. \A o \in Range(start) : /\ [tile |-> inv[o], win |-> w0].tile = inv[o]
                                /\ [tile |-> inv[o], win |-> w0].win = w0
    OBVIOUS
  <2>5. QED
    BY <2>1, <2>2, <2>3, <2>4
<1>7. /\ win = [w \in Wins |-> IF w \in Opened THEN "up" ELSE "shut"]
      /\ saved = [w \in Wins |-> Session(w)]
      /\ dirty = [w \in Wins |-> FALSE]
      /\ drags = [d \in Drags |-> Idle]
      /\ acks = {} /\ transfer = [w \in Wins |-> None]
      /\ closed = {} /\ accident = FALSE /\ copied = {}
  BY DEF Init
<1>8. \A w \in Wins : \A s \in saved[w] :
         /\ s.id \in Objects /\ Live(s.id) /\ objs[s.id].win = w
         /\ s.tile = objs[s.id].tile /\ s = [id |-> s.id, tile |-> s.tile]
         /\ s \in [id : Objects, tile : Tiles]
  <2>1. \A w \in Wins : \A s \in saved[w] :
           \E o \in Objects : /\ Live(o) /\ objs[o].win = w
                              /\ s = [id |-> o, tile |-> objs[o].tile]
    BY <1>7 DEF Session, On
  <2>2. \A o \in Objects : Live(o) => objs[o].tile \in Tiles
    BY <1>3, <1>6 DEF Live
  <2>3. QED
    BY <2>1, <2>2
<1>9. Shape
  <2>1. saved \in [Wins -> SUBSET [id : Objects, tile : Tiles]]
    BY <1>7, <1>8
  <2>2. drags \in [Drags -> DragRec]
    BY <1>7 DEF Idle, DragRec
  <2>3. IsFiniteSet(acks)
    BY <1>7, FS_EmptySet
  <2>4. QED
    BY <1>6, <1>7, <2>1, <2>2, <2>3 DEF Shape
<1>10. Windows
  <2>1. \A o \in Objects : Live(o) => win[objs[o].win] = "up"
    BY <1>5, <1>6, <1>7 DEF Live
  <2>2. QED
    BY <1>7, <2>1 DEF Windows
<1>11. Sessions
  BY <1>8 DEF Sessions
<1>12. Carried /\ InHand /\ OnePointer
  BY <1>7 DEF Carried, InHand, OnePointer, Idle
<1>13. \A o \in Objects : Stays(o) <=> o \in Range(start)
  BY <1>6, <1>7 DEF Stays, Live
<1>14. Somewhere
  BY <1>4, <1>6, <1>13 DEF Somewhere
<1>15. Once
  <2>1. ASSUME NEW o \in Objects, NEW p \in Objects, Stays(o), Stays(p), objs[o].tile = objs[p].tile
        PROVE  o = p
    BY <1>3, <1>6, <1>13, <2>1
  <2>2. ASSUME NEW o \in Objects, Stays(o)
        PROVE  objs[o].tile # None
    BY <1>3, <1>6, <1>13, <2>2, RecordIsLive
  <2>3. QED
    BY <1>7, <2>1, <2>2 DEF Once
<1>16. QED
  BY <1>9, <1>10, <1>11, <1>12, <1>14, <1>15 DEF IInv

LEMMA StepIInv == IInv /\ [Next]_vars => IInv'
<1> SUFFICES ASSUME IInv, [Next]_vars PROVE IInv'
  OBVIOUS
<1>1. ASSUME NEW d \in Drags, Expire(d) \/ Abandon(d) \/ Reorder(d) \/ CompleteMove(d)
      PROVE  IInv'
  BY <1>1, ExpireKeeps, AbandonKeeps, ReorderKeeps, CompleteMoveKeeps
<1>2. ASSUME NEW d \in Drags, NEW ctrl \in BOOLEAN, DropInside(d, ctrl)
      PROVE  IInv'
  BY <1>2, DropInsideKeeps
<1>3. ASSUME NEW d \in Drags, NEW w \in Wins, DropOutside(d, w)
      PROVE  IInv'
  BY <1>3, DropOutsideKeeps
<1>4. ASSUME NEW d \in Drags, NEW o \in Objects, StartDrag(o, d)
      PROVE  IInv'
  BY <1>4, StartDragKeeps
<1>5. ASSUME NEW o \in Objects, Close(o)
      PROVE  IInv'
  BY <1>5, CloseKeeps
<1>6. ASSUME NEW o \in Objects, NEW w \in Wins, OpenInNewWindow(o, w)
      PROVE  IInv'
  BY <1>6, OpenInNewWindowKeeps
<1>7. ASSUME NEW w \in Wins, BootTransferred(w) \/ TransferLost(w) \/ SaveSession(w) \/ Reload(w)
      PROVE  IInv'
  BY <1>7, BootTransferredKeeps, TransferLostKeeps, SaveSessionKeeps, ReloadKeeps
<1>8. CASE UNCHANGED vars
  BY <1>8 DEF vars, IInv, Shape, Windows, Sessions, Carried, Somewhere, Once, InHand, OnePointer,
              Stays, Live, Session, On
<1>9. QED
  BY <1>1, <1>2, <1>3, <1>4, <1>5, <1>6, <1>7, <1>8 DEF Next

\* The invariant holds of every reachable state.
THEOREM MoveInvariant == Spec => []IInv
  BY InitIInv, StepIInv, PTL DEF Spec

-----------------------------------------------------------------------------
\* What Keeping calls held.
Held == {t \in Tiles : CopiesOf(t) # {} \/ \E w \in Wins : transfer[w] = t}

LEMMA HeldIs ==
    /\ \A t : t \in Held <=> /\ t \in Tiles
                             /\ \/ \E o \in Objects : Live(o) /\ objs[o].tile = t
                                \/ \E w \in Wins : transfer[w] = t
    /\ \A t : t \in Held' <=> /\ t \in Tiles
                              /\ \/ \E o \in Objects : objs'[o] # None /\ objs'[o].tile = t
                                 \/ \E w \in Wins : transfer'[w] = t
  BY DEF Held, CopiesOf, Live

\* A step that moves one content only leaves the others held as they were.
LEMMA OthersHeld ==
    ASSUME NEW t0 \in Tiles,
           \A o \in Objects : \/ objs'[o] = objs[o]
                              \/ /\ objs[o] # None => objs[o].tile = t0
                                 /\ objs'[o] # None => objs'[o].tile = t0,
           \A w \in Wins : \/ transfer'[w] = transfer[w]
                           \/ transfer[w] \in {None, t0} /\ transfer'[w] \in {None, t0}
    PROVE  Held' \in {Held, Held \cup {t0}, Held \ {t0}} /\ Held \subseteq Tiles
<1>1. ASSUME NEW t \in Tiles, t # t0
      PROVE  t \in Held' <=> t \in Held
  <2>1. t # None
    BY RecordIsLive, MoveAssumption
  <2>2. (\E o \in Objects : objs'[o] # None /\ objs'[o].tile = t) <=>
        (\E o \in Objects : objs[o] # None /\ objs[o].tile = t)
    BY <1>1
  <2>3. (\E w \in Wins : transfer'[w] = t) <=> (\E w \in Wins : transfer[w] = t)
    BY <1>1, <2>1
  <2>4. QED
    BY <2>2, <2>3, HeldIs DEF Live
<1>2. Held \subseteq Tiles /\ Held' \subseteq Tiles
  BY HeldIs
<1>3. CASE t0 \in Held'
  BY <1>1, <1>2, <1>3
<1>4. CASE t0 \notin Held'
  BY <1>1, <1>2, <1>4
<1>5. QED
  BY <1>3, <1>4

\* A step after which nothing is missing, or by which the accident happens,
\* is a step of Keeping: what comes back was closed.
LEMMA NothingMissing ==
    ASSUME IInv, IInv', closed' = closed, accident => accident',
           accident' \/ Held \subseteq Held'
    PROVE  Kept!Next
<1>1. CASE accident'
  <2>1. accident' = TRUE
    BY <1>1 DEF IInv, Shape
  <2>2. Held' \in SUBSET Tiles
    BY HeldIs
  <2>3. Kept!Accident
    BY <2>1, <2>2 DEF Kept!Accident, Held
  <2>4. QED
    BY <2>3 DEF Kept!Next
<1>2. CASE ~accident'
  <2>1. accident' = accident
    BY <1>2 DEF IInv, Shape
  <2>2. \A t \in Tiles : t \notin closed => t \in Held
    BY <1>2, HeldIs DEF IInv, Somewhere, Stays
  <2>3. Held' \ Held \in SUBSET closed
    BY <2>2, HeldIs
  <2>4. Held' = Held \cup (Held' \ Held)
    BY <1>2
  <2>5. Kept!Return
    BY <2>1, <2>3, <2>4 DEF Kept!Return, Held
  <2>6. QED
    BY <2>5 DEF Kept!Next
<1>3. QED
  BY <1>1, <1>2

\* A step that moves one content, and leaves it somewhere or closed.
LEMMA OneMoved ==
    ASSUME IInv, IInv', NEW t0 \in Tiles, closed' = closed, accident' = accident,
           \A o \in Objects : \/ objs'[o] = objs[o]
                              \/ /\ objs[o] # None => objs[o].tile = t0
                                 /\ objs'[o] # None => objs'[o].tile = t0,
           \A w \in Wins : \/ transfer'[w] = transfer[w]
                           \/ transfer[w] \in {None, t0} /\ transfer'[w] \in {None, t0}
    PROVE  Kept!Next
<1>1. Held' \in {Held, Held \cup {t0}, Held \ {t0}} /\ Held \subseteq Tiles
  BY OthersHeld
<1>2. CASE accident \/ Held \subseteq Held'
  BY <1>2, NothingMissing
<1>3. CASE ~accident /\ ~(Held \subseteq Held')
  <2>1. Held' = Held \ {t0} /\ t0 \in Held /\ t0 \notin Held'
    BY <1>1, <1>3
  <2>2. t0 \in closed'
    BY <1>3, <2>1, HeldIs DEF IInv, Somewhere, Stays, Live
  <2>3. closed' = closed \cup {t0}
    BY <2>2
  <2>4. Kept!Close(t0)
    BY <2>1, <2>3 DEF Kept!Close, Held
  <2>5. QED
    BY <2>4 DEF Kept!Next
<1>4. QED
  BY <1>2, <1>3

\* Each step of the windows is a step of Keeping, or changes nothing there.
LEMMA Implements ==
    ASSUME IInv, IInv', [Next]_vars
    PROVE  [Kept!Next]_(Kept!vars)
<1>0. Shape /\ Carried /\ Windows /\ Sessions
  BY DEF IInv
<1>1. ASSUME objs' = objs, transfer' = transfer, closed' = closed, accident' = accident
      PROVE  UNCHANGED Kept!vars
  BY <1>1 DEF Kept!vars, CopiesOf, Live
<1>2. ASSUME NEW d \in Drags, Expire(d) \/ Abandon(d) \/ Reorder(d)
      PROVE  UNCHANGED Kept!vars
  BY <1>1, <1>2 DEF Expire, Abandon, Reorder
<1>3. ASSUME NEW d \in Drags, NEW o \in Objects, StartDrag(o, d)
      PROVE  UNCHANGED Kept!vars
  BY <1>1, <1>3 DEF StartDrag
<1>4. ASSUME NEW w \in Wins, SaveSession(w)
      PROVE  UNCHANGED Kept!vars
  BY <1>1, <1>4 DEF SaveSession
<1>5. ASSUME NEW d \in Drags, CompleteMove(d)
      PROVE  Kept!Next \/ UNCHANGED Kept!vars
  <2>1. CASE drags[d].pending
    <3>1. /\ drags[d].tile \in Tiles /\ drags[d].obj \in Objects
          /\ Live(drags[d].obj) => objs[drags[d].obj].tile = drags[d].tile
      BY <1>0, <2>1 DEF Carried
    <3>2. objs' = [objs EXCEPT ![drags[d].obj] = None]
      BY <1>5, <2>1 DEF CompleteMove
    <3>3. \A o \in Objects : \/ objs'[o] = objs[o]
                             \/ /\ objs[o] # None => objs[o].tile = drags[d].tile
                                /\ objs'[o] = None
      BY <1>0, <3>1, <3>2 DEF Shape, Live
    <3>4. transfer' = transfer /\ closed' = closed /\ accident' = accident
      BY <1>5 DEF CompleteMove
    <3>5. PICK t0 \in Tiles : t0 = drags[d].tile
      BY <3>1
    <3>6. QED
      BY <3>3, <3>4, <3>5, OneMoved
  <2>2. CASE ~drags[d].pending
    BY <1>1, <1>5, <2>2 DEF CompleteMove
  <2>3. QED
    BY <2>1, <2>2
<1>6. ASSUME NEW d \in Drags, NEW ctrl \in BOOLEAN, DropInside(d, ctrl)
      PROVE  Kept!Next
  <2>1. /\ drags[d].src \in Wins /\ drags[d].tile \in Tiles /\ drags[d].obj \in Objects
        /\ Live(drags[d].obj) /\ drags[d].pending => objs[drags[d].obj].tile = drags[d].tile
    BY <1>0, <1>6 DEF Carried, DropInside
  <2>2. PICK o \in Free :
              /\ objs'[o].tile = drags[d].tile
              /\ ~ctrl /\ drags[d].pending => objs'[drags[d].obj] = None
              /\ \A p \in Objects :
                    p # o /\ (~ctrl /\ drags[d].pending => p # drags[d].obj) => objs'[p] = objs[p]
    BY <1>0, <1>6, <2>1, DropInsideIs
  <2>3. o \in Objects /\ ~Live(o)
    BY DEF Free
  <2>4. PICK t0 \in Tiles : t0 = drags[d].tile
    BY <2>1
  <2>5. ASSUME NEW p \in Objects
        PROVE  \/ objs'[p] = objs[p]
               \/ /\ objs[p] # None => objs[p].tile = t0
                  /\ objs'[p] # None => objs'[p].tile = t0
    BY <2>1, <2>2, <2>3, <2>4 DEF Live
  <2>6. transfer' = transfer /\ closed' = closed /\ accident' = accident
    BY <1>6 DEF DropInside
  <2>7. QED
    BY <2>5, <2>6, OneMoved
<1>7. ASSUME NEW w \in Wins, NEW t0 \in Tiles, NEW o \in Free, objs' = Received(w, t0, o),
             closed' = closed, accident' = accident,
             \A v \in Wins : \/ transfer'[v] = transfer[v]
                             \/ transfer[v] \in {None, t0} /\ transfer'[v] \in {None, t0}
      PROVE  Kept!Next
  <2>1. o \in Objects /\ ~Live(o)
    BY DEF Free
  <2>2. \A p \in Objects : \/ objs'[p] = objs[p]
                           \/ /\ objs[p] # None => objs[p].tile = t0
                              /\ objs'[p] # None => objs'[p].tile = t0
    BY <1>0, <1>7, <2>1, ReceivedIs DEF Live
  <2>3. QED
    BY <1>7, <2>2, OneMoved
<1>8. ASSUME NEW d \in Drags, NEW w \in Wins, DropOutside(d, w)
      PROVE  Kept!Next
  BY <1>0, <1>7, <1>8 DEF DropOutside, Carried
<1>9. ASSUME NEW w \in Wins, BootTransferred(w)
      PROVE  Kept!Next
  <2>1. transfer[w] \in Tiles
    BY <1>0, <1>9 DEF BootTransferred, Windows, Shape
  <2>2. PICK t0 \in Tiles : t0 = transfer[w]
    BY <2>1
  <2>3. \A v \in Wins : \/ transfer'[v] = transfer[v]
                        \/ transfer[v] \in {None, t0} /\ transfer'[v] \in {None, t0}
    BY <1>0, <1>9, <2>2 DEF BootTransferred, Shape
  <2>4. QED
    BY <1>7, <1>9, <2>2, <2>3 DEF BootTransferred
<1>10. ASSUME NEW o \in Objects, NEW w \in Wins, OpenInNewWindow(o, w)
       PROVE  Kept!Next
  <2>1. Live(o) /\ objs[o].tile \in Tiles
    BY <1>0, <1>10, Fields DEF OpenInNewWindow
  <2>2. PICK t0 \in Tiles : t0 = objs[o].tile
    BY <2>1
  <2>3. \A p \in Objects : \/ objs'[p] = objs[p]
                           \/ /\ objs[p] # None => objs[p].tile = t0
                              /\ objs'[p] = None
    BY <1>0, <1>10, <2>2 DEF OpenInNewWindow, Shape
  <2>4. transfer[w] = None
    BY <1>0, <1>10 DEF OpenInNewWindow, Windows
  <2>5. \A v \in Wins : \/ transfer'[v] = transfer[v]
                        \/ transfer[v] \in {None, t0} /\ transfer'[v] \in {None, t0}
    BY <1>0, <1>10, <2>2, <2>4 DEF OpenInNewWindow, Shape
  <2>6. closed' = closed /\ accident' = accident
    BY <1>10 DEF OpenInNewWindow
  <2>7. QED
    BY <2>2, <2>3, <2>5, <2>6, OneMoved
<1>11. ASSUME NEW o \in Objects, Close(o)
       PROVE  Kept!Next
  <2>1. Live(o) /\ objs[o].tile \in Tiles
    BY <1>0, <1>11, Fields DEF Close
  <2>2. PICK t0 \in Tiles : t0 = objs[o].tile
    BY <2>1
  <2>3. \A p \in Objects : \/ objs'[p] = objs[p]
                           \/ /\ objs[p] # None => objs[p].tile = t0
                              /\ objs'[p] = None
    BY <1>0, <1>11, <2>2 DEF Close, Shape
  <2>4. transfer' = transfer
    BY <1>11 DEF Close
  <2>5. Held' \in {Held, Held \cup {t0}, Held \ {t0}}
    BY <2>3, <2>4, OthersHeld
  <2>6. t0 \in Held
    BY <2>1, <2>2, HeldIs
  <2>7. t0 \in Held /\ Held' \in {Held, Held \ {t0}}
    BY <2>5, <2>6
  <2>8. closed' = closed \cup {t0} /\ accident' = accident
    BY <1>11, <2>2 DEF Close
  <2>9. Kept!Close(t0)
    BY <2>7, <2>8 DEF Kept!Close, Held
  <2>10. QED
    BY <2>9 DEF Kept!Next
<1>12. ASSUME NEW w \in Wins, TransferLost(w)
       PROVE  Kept!Next
  BY <1>12, NothingMissing DEF TransferLost
<1>13. ASSUME NEW w \in Wins, Reload(w)
       PROVE  Kept!Next
  <2>1. closed' = closed /\ (accident => accident') /\ transfer' = transfer
    BY <1>13 DEF Reload
  <2>2. \A o \in Objects : Live(o) /\ ~accident' => objs'[o] = objs[o]
    BY <1>0, <1>13, ReloadIs
  <2>3. accident' \/ Held \subseteq Held'
    BY <2>1, <2>2, HeldIs DEF Live
  <2>4. QED
    BY <2>1, <2>3, NothingMissing
<1>14. CASE UNCHANGED vars
  BY <1>1, <1>14 DEF vars
<1>15. QED
  BY <1>2, <1>3, <1>4, <1>5, <1>6, <1>8, <1>9, <1>10, <1>11, <1>12, <1>13, <1>14 DEF Next

\* Moving tiles implements keeping them: nothing disappears from the screens
\* and from what waits for them but by being closed, by the loss of a transfer
\* or by the reload of a window whose last changes are not saved (NeverLost).
THEOREM TilesAreKept == Spec => NeverLost
<1>1. Init => Kept!Init
  <2> SUFFICES ASSUME Init PROVE Kept!Init
    OBVIOUS
  <2>1. Tiles \subseteq Held /\ Held \subseteq Tiles
    BY InitIInv, HeldIs DEF IInv, Somewhere, Stays, Init
  <2>2. QED
    BY <2>1 DEF Init, Kept!Init, Held
<1>2. QED
  BY <1>1, MoveInvariant, Implements, PTL DEF Spec, NeverLost, Kept!Spec

-----------------------------------------------------------------------------
\* Each acceptance under way accounts for one tile at most that will go, and
\* what will stay is one tile.
LEMMA CopiesCounted ==
    ASSUME IInv, NEW t \in Tiles \ copied
    PROVE  Cardinality(CopiesOf(t)) <= 1 + Cardinality({d \in acks : drags[d].tile = t})
<1> DEFINE C == CopiesOf(t)
           S == {o \in C : Stays(o)}
           D == {d \in acks : drags[d].tile = t}
           R == {drags[d].obj : d \in D}
           f == [d \in D |-> drags[d].obj]
<1>0. Shape /\ Carried /\ Once
  BY DEF IInv
<1>1. IsFiniteSet(D)
  BY <1>0, FS_Subset DEF Shape
<1>2. f \in Surjection(D, R)
  BY DEF Surjection
<1>3. IsFiniteSet(R) /\ Cardinality(R) <= Cardinality(D)
  <2> HIDE DEF D, R, f
  <2>1. QED
    BY <1>1, <1>2, FS_Surjection
<1>4. IsFiniteSet(S) /\ Cardinality(S) <= 1
  <2>1. \A o, p \in S : o = p
    BY <1>0 DEF Once, CopiesOf
  <2> HIDE DEF S
  <2>2. CASE S = {}
    BY <2>2, FS_EmptySet
  <2>3. CASE S # {}
    <3>1. PICK x \in S : TRUE
      BY <2>3
    <3>2. S = {x}
      BY <2>1, <3>1
    <3>3. QED
      BY <3>2, FS_Singleton
  <2>4. QED
    BY <2>2, <2>3
<1>5. C \subseteq S \cup R
  <2> SUFFICES ASSUME NEW o \in C, ~Stays(o) PROVE o \in R
    OBVIOUS
  <2>1. o \in Objects /\ Live(o) /\ objs[o].tile = t
    BY DEF CopiesOf
  <2>2. PICK d \in acks : drags[d].pending /\ drags[d].obj = o
    BY <2>1 DEF Stays
  <2>3. d \in Drags
    BY <1>0, Fields
  <2>4. drags[d].tile = t
    BY <1>0, <2>1, <2>2, <2>3 DEF Carried
  <2>5. QED
    BY <2>2, <2>4
<1> HIDE DEF C, S, D, R, f
<1>6. /\ IsFiniteSet(S \cup R)
      /\ Cardinality(S \cup R) <= Cardinality(S) + Cardinality(R)
  <2>1. IsFiniteSet(S \cap R) /\ Cardinality(S \cap R) \in Nat
    BY <1>4, FS_Subset, FS_CardinalityType
  <2>2. /\ IsFiniteSet(S \cup R)
        /\ Cardinality(S \cup R) = Cardinality(S) + Cardinality(R) - Cardinality(S \cap R)
    BY <1>3, <1>4, FS_Union
  <2>3. Cardinality(S) \in Nat /\ Cardinality(R) \in Nat
    BY <1>3, <1>4, FS_CardinalityType
  <2>4. QED
    BY <2>1, <2>2, <2>3
<1>7. IsFiniteSet(C) /\ Cardinality(C) <= Cardinality(S \cup R)
  BY <1>5, <1>6, FS_Subset
<1>8. /\ Cardinality(C) \in Nat /\ Cardinality(S) \in Nat /\ Cardinality(R) \in Nat
      /\ Cardinality(D) \in Nat /\ Cardinality(S \cup R) \in Nat
  BY <1>1, <1>3, <1>4, <1>6, <1>7, FS_CardinalityType
<1>9. Cardinality(C) <= 1 + Cardinality(D)
  BY <1>3, <1>4, <1>6, <1>7, <1>8
<1>10. QED
  BY <1>9 DEF C, D

\* A move is no copy: a content that has no reason to be there twice is shown
\* once more than its acceptances under way at most (MovedNotCopied).
THEOREM MovesAreNoCopies == Spec => []MovedNotCopied
<1>1. IInv => TypeOK
  BY Fields DEF IInv, TypeOK, Windows, Shape
<1>2. IInv => MovedNotCopied
  BY <1>1, CopiesCounted DEF MovedNotCopied
<1>3. QED
  BY <1>2, MoveInvariant, PTL
=====
