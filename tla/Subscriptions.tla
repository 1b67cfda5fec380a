--------------------------- MODULE Subscriptions ---------------------------
(***************************************************************************)
(* Reference counting of the variables of the diagnostic server.           *)
(*                                                                         *)
(* A variable is sampled by the controller source (SimSource) from its     *)
(* first subscription to its last release; a network point (ProtocolSource)*)
(* has a channel as long as it is configured.  Three kinds of holders take *)
(* and give back references, each from its own thread: the WebSocket       *)
(* sessions (main.cpp, ws_session), the campaigns of the autonomous        *)
(* recorder (recorder.hpp) and the trigger of the packet capture           *)
(* (capture.hpp).  Every call to a source is one critical section of its   *)
(* mutex, hence one step here; everything between two calls interleaves.   *)
(*                                                                         *)
(* A holder's own note of a reference it must give back is a ticket:       *)
(*   <<"ws", s>>      an entry of the map `subs` of session s              *)
(*   <<"meta", s>>    the local `m` of session s, between the subscription *)
(*                    and the line that files it in `subs`                 *)
(*   <<"rec", c, i>>  entry i of Rec::subs of campaign c                   *)
(*   <<"trig">>       CaptureManager::abonne_                              *)
(***************************************************************************)
EXTENDS Naturals, FiniteSets, Sequences

CONSTANTS
    Inner,      \* addresses of the controller, served by SimSource
    Net,        \* addresses of network points, served by ProtocolSource
    Sessions,   \* WebSocket sessions
    Campaigns,  \* campaign names of the recorder
    MaxVars,    \* bound: variables in one campaign request
    MaxLeaks,   \* bound: metadata sends that fail
    None        \* no address

Addr == Inner \cup Net

Ticket == {<<"ws", s>> : s \in Sessions} \cup {<<"meta", s>> : s \in Sessions}
          \cup {<<"rec", c, i>> : c \in Campaigns, i \in 1..MaxVars}
          \cup {<<"trig">>}

ASSUME SubscriptionsAssumption ==
    /\ Inner \cap Net = {} /\ None \notin Inner \cup Net
    /\ MaxVars \in Nat /\ MaxLeaks \in Nat

VARIABLES
    refs,       \* Channel::refs; for a controller address 0 means no channel
    netConf,    \* the network addresses that have a channel
    held,       \* address -> the tickets that note a reference on it
    leaked,     \* ghost: references whose ticket was dropped without a release
    dangling,   \* ghost: sessions whose `m` points at a destroyed channel
    conn,       \* session -> "off", "open", "meta" or "closing"
    active,     \* the campaigns of recs_
    recOp,      \* what the holder of the recorder's mutex is doing
    trigOp      \* what the holder of the capture mutex is doing

vars == <<refs, netConf, held, leaked, dangling, conn, active, recOp, trigOp>>
srcVars == <<refs, netConf, held, leaked, dangling>>

RecIdle == [op |-> "idle", c |-> None, todo |-> << >>]
TrigIdle == [op |-> "idle", addr |-> None]
Requests == UNION {[1..n -> Addr] : n \in 0..MaxVars}

-----------------------------------------------------------------------------
\* ------------------------------------------------------------- the sources

\* subscribe() returns a channel rather than nullptr.
Subscribable(a) == a \in Inner \/ a \in netConf

\* A channel is found or created, its count goes up and the caller keeps t.
Subscribe(a, t) ==
    /\ refs' = [refs EXCEPT ![a] = @ + 1]
    /\ held' = [held EXCEPT ![a] = @ \cup {t}]
    /\ UNCHANGED <<netConf, leaked, dangling>>

\* Variant: no floor at zero.
ReleasedUnchecked(a) == [refs EXCEPT ![a] = @ - 1]

\* The count goes down; SimSource erases the channel at zero, ProtocolSource
\* stops counting at zero.
Released(a) == [refs EXCEPT ![a] = IF @ > 0 THEN @ - 1 ELSE 0]

\* The sessions whose `m` points into the channel of a.
Pointing(a) == {s \in Sessions : <<"meta", s>> \in held[a]}

\* The channel the sessions' `m` points at is destroyed by the last release.
DanglingAfter(a, newHeld) ==
    IF a \in Inner /\ Released(a)[a] = 0
    THEN dangling \cup {s \in Sessions : <<"meta", s>> \in newHeld[a]}
    ELSE dangling

\* The caller gives back the reference it noted as t.
Unsubscribe(a, t) ==
    LET newHeld == [held EXCEPT ![a] = @ \ {t}] IN
    /\ held' = newHeld
    /\ refs' = Released(a)
    /\ dangling' = DanglingAfter(a, newHeld)
    /\ UNCHANGED <<netConf, leaked>>

\* ProtocolSource::apply: every network channel is destroyed and the ones of
\* the new configuration are created with no reference.
Apply(conf) ==
    /\ netConf' = conf
    /\ refs' = [a \in Addr |-> IF a \in Net THEN 0 ELSE refs[a]]
    /\ leaked' = [a \in Addr |-> IF a \in Net THEN 0 ELSE leaked[a]]
    /\ dangling' = dangling \cup UNION {Pointing(a) : a \in Net}
    /\ UNCHANGED <<held, conn, active, recOp, trigOp>>

-----------------------------------------------------------------------------
\* ---------------------------------------------------- WebSocket sessions

WsConnect(s) ==
    /\ conn[s] = "off"
    /\ conn' = [conn EXCEPT ![s] = "open"]
    /\ UNCHANGED <<srcVars, active, recOp, trigOp>>

\* {"c":"sub"}: the reference is taken; the metadata are then read and sent.
WsSub(s, a) ==
    /\ conn[s] = "open"
    /\ Subscribable(a)
    /\ Subscribe(a, <<"meta", s>>)
    /\ conn' = [conn EXCEPT ![s] = "meta"]
    /\ UNCHANGED <<active, recOp, trigOp>>

\* The metadata were sent and the address is new to the session.
WsFile(s, a) ==
    /\ conn[s] = "meta" /\ <<"meta", s>> \in held[a]
    /\ <<"ws", s>> \notin held[a]
    /\ held' = [held EXCEPT ![a] = (@ \ {<<"meta", s>>}) \cup {<<"ws", s>>}]
    /\ dangling' = dangling \ {s}
    /\ conn' = [conn EXCEPT ![s] = "open"]
    /\ UNCHANGED <<refs, netConf, leaked, active, recOp, trigOp>>

\* Variant: the second reference is kept.
WsRepeatKept(s, a) ==
    /\ conn[s] = "meta" /\ <<"meta", s>> \in held[a]
    /\ <<"ws", s>> \in held[a]
    /\ held' = [held EXCEPT ![a] = @ \ {<<"meta", s>>}]
    /\ dangling' = dangling \ {s}
    /\ conn' = [conn EXCEPT ![s] = "open"]
    /\ UNCHANGED <<refs, netConf, leaked, active, recOp, trigOp>>

\* The metadata were sent and the session had the address already: the second
\* reference is given back.
WsRepeat(s, a) ==
    /\ conn[s] = "meta" /\ <<"meta", s>> \in held[a]
    /\ <<"ws", s>> \in held[a]
    /\ LET newHeld == [held EXCEPT ![a] = @ \ {<<"meta", s>>}] IN
       /\ held' = newHeld
       /\ refs' = Released(a)
       /\ dangling' = DanglingAfter(a, newHeld) \ {s}
    /\ conn' = [conn EXCEPT ![s] = "open"]
    /\ UNCHANGED <<netConf, leaked, active, recOp, trigOp>>

\* The client is gone: send_all fails and `goto done` leaves before `subs`
\* knows the address, so that nothing will ever release it.
WsMetaFailed(s, a) ==
    /\ conn[s] = "meta" /\ <<"meta", s>> \in held[a]
    /\ \A b \in Addr : leaked[b] < MaxLeaks
    /\ held' = [held EXCEPT ![a] = @ \ {<<"meta", s>>}]
    /\ leaked' = [leaked EXCEPT ![a] = @ + 1]
    /\ dangling' = dangling \ {s}
    /\ conn' = [conn EXCEPT ![s] = "closing"]
    /\ UNCHANGED <<refs, netConf, active, recOp, trigOp>>

\* `m` points at a channel that apply destroyed: reading m->addr is undefined,
\* and the session may file something that is not the address it asked for.
WsMetaGarbage(s, a) ==
    /\ conn[s] = "meta" /\ <<"meta", s>> \in held[a]
    /\ s \in dangling
    /\ held' = [held EXCEPT ![a] = @ \ {<<"meta", s>>}]
    /\ dangling' = dangling \ {s}
    /\ conn' = [conn EXCEPT ![s] = "open"]
    /\ UNCHANGED <<refs, netConf, leaked, active, recOp, trigOp>>

\* Variant: an address the session does not hold is released too.
WsUnsubAny(s, a) ==
    /\ conn[s] = "open" /\ refs[a] > 0
    /\ Unsubscribe(a, <<"ws", s>>)
    /\ UNCHANGED <<conn, active, recOp, trigOp>>

\* {"c":"unsub"}: only an address of `subs` is released.
WsUnsub(s, a) ==
    /\ conn[s] = "open" /\ <<"ws", s>> \in held[a]
    /\ Unsubscribe(a, <<"ws", s>>)
    /\ UNCHANGED <<conn, active, recOp, trigOp>>

\* Close frame, broken socket, or a data frame that could not be sent.
WsDrop(s) ==
    /\ conn[s] = "open"
    /\ conn' = [conn EXCEPT ![s] = "closing"]
    /\ UNCHANGED <<srcVars, active, recOp, trigOp>>

\* done: the loop over `subs`, one call after the other.
WsRelease(s, a) ==
    /\ conn[s] = "closing" /\ <<"ws", s>> \in held[a]
    /\ Unsubscribe(a, <<"ws", s>>)
    /\ UNCHANGED <<conn, active, recOp, trigOp>>

\* Variant: the session leaves without releasing.
WsGoneAtOnce(s) ==
    /\ conn[s] = "closing"
    /\ conn' = [conn EXCEPT ![s] = "off"]
    /\ UNCHANGED <<srcVars, active, recOp, trigOp>>

\* The loop has released everything.
WsGone(s) ==
    /\ conn[s] = "closing"
    /\ \A a \in Addr : <<"ws", s>> \notin held[a]
    /\ conn' = [conn EXCEPT ![s] = "off"]
    /\ UNCHANGED <<srcVars, active, recOp, trigOp>>

-----------------------------------------------------------------------------
\* ------------------------------------------------------------- recorder

\* Rec::subs of campaign c is empty.
NoEntry(c) == \A a \in Addr, i \in 1..MaxVars : <<"rec", c, i>> \notin held[a]

\* start() and stop() take the mutex and first release the campaign that has
\* the name; stop() is the request with no variable.
RecBegin(c, request) ==
    /\ recOp = RecIdle
    /\ recOp' = [op |-> "stopping", c |-> c, todo |-> request]
    /\ UNCHANGED <<srcVars, conn, active, trigOp>>

\* One unsubscribe of stop_locked, or of the path of a file that cannot open.
RecRelease(a, i) ==
    /\ recOp.op \in {"stopping", "undoing"}
    /\ <<"rec", recOp.c, i>> \in held[a]
    /\ Unsubscribe(a, <<"rec", recOp.c, i>>)
    /\ UNCHANGED <<conn, active, recOp, trigOp>>

\* stop_locked erases the campaign; a request with no variable ends there.
RecErased ==
    /\ recOp.op = "stopping" /\ NoEntry(recOp.c)
    /\ active' = active \ {recOp.c}
    /\ recOp' = IF recOp.todo = << >> THEN RecIdle ELSE [recOp EXCEPT !.op = "taking"]
    /\ UNCHANGED <<srcVars, conn, trigOp>>

\* One iteration of the loop over the variables asked; a refused address is
\* skipped.
RecTake ==
    /\ recOp.op = "taking" /\ recOp.todo # << >>
    /\ recOp' = [recOp EXCEPT !.todo = Tail(@)]
    /\ LET a == Head(recOp.todo) IN
       IF Subscribable(a)
       THEN Subscribe(a, <<"rec", recOp.c, Len(recOp.todo)>>)
       ELSE UNCHANGED srcVars
    /\ UNCHANGED <<conn, active, trigOp>>

\* No valid address: the request ends, and nothing is held.
RecNothing ==
    /\ recOp.op = "taking" /\ recOp.todo = << >> /\ NoEntry(recOp.c)
    /\ recOp' = RecIdle
    /\ UNCHANGED <<srcVars, conn, active, trigOp>>

RecOpened ==
    /\ recOp.op = "taking" /\ recOp.todo = << >> /\ ~ NoEntry(recOp.c)
    /\ active' = active \cup {recOp.c}
    /\ recOp' = RecIdle
    /\ UNCHANGED <<srcVars, conn, trigOp>>

RecOpenFailed ==
    /\ recOp.op = "taking" /\ recOp.todo = << >> /\ ~ NoEntry(recOp.c)
    /\ recOp' = [recOp EXCEPT !.op = "undoing"]
    /\ UNCHANGED <<srcVars, conn, active, trigOp>>

RecUndone ==
    /\ recOp.op = "undoing" /\ NoEntry(recOp.c)
    /\ recOp' = RecIdle
    /\ UNCHANGED <<srcVars, conn, active, trigOp>>

-----------------------------------------------------------------------------
\* ------------------------------------------------- trigger of the capture

\* set_trigger with another observed address: the old one is released.
TrigRelease(old, a) ==
    /\ trigOp = TrigIdle
    /\ <<"trig">> \in held[old] /\ a # old
    /\ Unsubscribe(old, <<"trig">>)
    /\ trigOp' = IF a = None THEN TrigIdle ELSE [op |-> "taking", addr |-> a]
    /\ UNCHANGED <<conn, active, recOp>>

\* Variant: the old address is not released.
TrigBeginOver(a) ==
    /\ trigOp = TrigIdle
    /\ trigOp' = [op |-> "taking", addr |-> a]
    /\ UNCHANGED <<srcVars, conn, active, recOp>>

\* set_trigger when nothing was observed.
TrigBegin(a) ==
    /\ trigOp = TrigIdle
    /\ \A b \in Addr : <<"trig">> \notin held[b]
    /\ trigOp' = [op |-> "taking", addr |-> a]
    /\ UNCHANGED <<srcVars, conn, active, recOp>>

\* ... and the new one is subscribed, unless the source refuses it.
TrigTake ==
    /\ trigOp.op = "taking"
    /\ IF Subscribable(trigOp.addr)
       THEN Subscribe(trigOp.addr, <<"trig">>)
       ELSE UNCHANGED srcVars
    /\ trigOp' = TrigIdle
    /\ UNCHANGED <<conn, active, recOp>>

-----------------------------------------------------------------------------
\* The server starts: the network configuration and the trigger are read back
\* (load_protocols, CaptureManager::charger), nobody is connected.
Init ==
    /\ netConf \in SUBSET Net
    /\ \E a \in Addr \cup {None} :
          /\ a # None => Subscribable(a)
          /\ held = [b \in Addr |-> IF b = a THEN {<<"trig">>} ELSE {}]
          /\ refs = [b \in Addr |-> IF b = a THEN 1 ELSE 0]
    /\ leaked = [a \in Addr |-> 0]
    /\ dangling = {}
    /\ conn = [s \in Sessions |-> "off"]
    /\ active = {}
    /\ recOp = RecIdle
    /\ trigOp = TrigIdle

SessionNext(s) ==
    \/ WsConnect(s) \/ WsDrop(s) \/ WsGone(s)
    \/ \E a \in Addr :
          \/ WsSub(s, a) \/ WsFile(s, a) \/ WsRepeat(s, a) \/ WsMetaFailed(s, a)
          \/ WsMetaGarbage(s, a) \/ WsUnsub(s, a) \/ WsRelease(s, a)

RecorderNext ==
    \/ \E c \in Campaigns, request \in Requests : RecBegin(c, request)
    \/ \E a \in Addr, i \in 1..MaxVars : RecRelease(a, i)
    \/ RecErased \/ RecTake \/ RecNothing \/ RecOpened \/ RecOpenFailed \/ RecUndone

TriggerNext ==
    \/ \E old \in Addr, a \in Addr \cup {None} : TrigRelease(old, a)
    \/ \E a \in Addr : TrigBegin(a)
    \/ TrigTake

Next ==
    \/ \E s \in Sessions : SessionNext(s)
    \/ RecorderNext
    \/ TriggerNext
    \/ \E conf \in SUBSET Net : Apply(conf)

Spec == Init /\ [][Next]_vars

-----------------------------------------------------------------------------
TypeOK ==
    /\ refs \in [Addr -> Nat]
    /\ netConf \in SUBSET Net
    /\ held \in [Addr -> SUBSET Ticket]
    /\ leaked \in [Addr -> Nat]
    /\ dangling \in SUBSET Sessions
    /\ conn \in [Sessions -> {"off", "open", "meta", "closing"}]
    /\ active \in SUBSET Campaigns
    /\ recOp \in [op : {"idle", "stopping", "taking", "undoing"},
                  c : Campaigns \cup {None}, todo : Seq(Addr)]
    /\ Len(recOp.todo) <= MaxVars
    /\ recOp.op # "idle" => recOp.c \in Campaigns
    /\ trigOp \in [op : {"idle", "taking"}, addr : Addr \cup {None}]
    /\ trigOp.op = "taking" => trigOp.addr \in Addr

\* The count of a controller channel is exactly the number of references its
\* holders note, plus those a failed send of metadata dropped.  A smaller count
\* would stop the sampling under a holder, a larger one would sample for ever.
RefsMatchHolders ==
    \A a \in Inner : refs[a] = Cardinality(held[a]) + leaked[a]

\* The metadata a session reads after subscribe() has released the mutex still
\* belong to a live channel, whatever the other holders release meanwhile.
\* (For a network point apply() can destroy it: see the README.)
MetaStaysValid ==
    \A s \in dangling : \A a \in Inner : <<"meta", s>> \notin held[a]

\* References are noted only by holders that will give them back: an open or
\* closing session, a session waiting to send metadata, an active campaign or
\* the one being started or stopped.
LiveSessions ==
    \A s \in Sessions, a \in Addr :
       /\ <<"ws", s>> \in held[a] => conn[s] # "off"
       /\ <<"meta", s>> \in held[a] => conn[s] = "meta"
LiveCampaigns ==
    \A c \in Campaigns, i \in 1..MaxVars, a \in Addr :
       <<"rec", c, i>> \in held[a] =>
          c \in active \/ (recOp.op \in {"taking", "undoing"} /\ recOp.c = c)
OnlyLiveHolders == LiveSessions /\ LiveCampaigns

\* One reference is noted once: a session sends one metadata message at a time,
\* the trigger observes one address, and a campaign's next entry is a new one.
\* Taking a reference over a note that exists would lose count of it.
NotedOnce ==
    /\ \A a, b \in Addr :
          /\ \A s \in Sessions : <<"meta", s>> \in held[a] \cap held[b] => a = b
          /\ <<"trig">> \in held[a] \cap held[b] => a = b
    /\ trigOp.op = "taking" => \A a \in Addr : <<"trig">> \notin held[a]
    /\ recOp.op = "taking" =>
          \A a \in Addr, i \in 1..MaxVars :
             <<"rec", recOp.c, i>> \in held[a] => i > Len(recOp.todo)
=============================================================================
