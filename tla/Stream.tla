------------------------------- MODULE Stream -------------------------------
(***************************************************************************)
(* The real-time stream of a page: src/web/js/source-ws.js, the choice of  *)
(* the source (source.js) and the journal of the page (logTick, app.js)    *)
(* over one WebSocket session of the server (ws_session, main.cpp).        *)
(*                                                                         *)
(* A step is one callback of the page's single thread (a WebSocket event,  *)
(* a timer, a click) or one turn of the server's session loop.  Messages   *)
(* of a connection arrive in order; a connection that is cut loses what    *)
(* was under way, and the page learns of it when its close event comes.    *)
(***************************************************************************)
EXTENDS Integers, FiniteSets, SequencesExt

CONSTANTS
    Addrs,        \* addresses that the page may show
    Writable,     \* those that are no points of a network link
    Ahead,        \* [Addrs -> Nat]: how far the equipment's clock is ahead
    Slack,        \* tolerance of the page's restart test, 1 s in the code
    History,      \* history sent to a new subscription (Options::history_s)
    MaxPoints,    \* samples of an address in a batch (Options::max_points)
    MaxTime,      \* bound: instants
    MaxLives,     \* bound: lives of the server
    MaxRefs,      \* bound: references taken on one address
    MaxRequests,  \* bound: writes asked by the page
    MaxFlight,    \* bound: batches under way to the page
    MaxCommands,  \* bound: commands under way to the server
    None          \* no date

Outcomes == {"waiting", "ok", "refused", "replaced", "late"}

ASSUME StreamAssumption ==
    /\ IsFiniteSet(Addrs)
    /\ Ahead \in [Addrs -> Nat]
    /\ Writable \subseteq Addrs
    /\ {Slack, History, MaxTime, MaxRefs, MaxRequests, MaxFlight, MaxCommands} \subseteq Nat
    /\ {MaxPoints, MaxLives} \subseteq Nat \ {0}
    /\ None \notin Int /\ None \notin Outcomes

VARIABLES
    time,      \* the time of the world, in ticks
    server,    \* the server: its life, the instant it booted, what it did
    session,   \* the server's side of the connection: alive, cursors
    toServer,  \* commands under way
    toClient,  \* events under way
    page,      \* source chosen, socket, `settled`, retry timer, acquisition
    chans,     \* the page's channels: references, samples
    writes,    \* pending confirmation per address; the address and the outcome
               \* of each request
    log        \* the page's journal; ghosts: `life` of the server that began it,
               \* addresses shown without a break since (`steady`)

network == <<session, toServer, toClient>>
vars    == <<time, server, session, toServer, toClient, page, chans, writes, log>>

Requests == 1 .. MaxRequests

(***************************************************************************)
(* The server's side.                                                      *)
(***************************************************************************)

ServerNow == time - server.boot

CeilDiv(n, d) == (n + d - 1) \div d

\* What read() gives after a cursor: of the samples of this life, one per
\* tick dated by the equipment, one in `step` when a batch cannot hold them
\* all, and the last one.  Ghost: each sample keeps the step of its batch.
Read(a, cursor) ==
    LET first == IF cursor < Ahead[a] THEN Ahead[a] ELSE cursor + 1
        last  == ServerNow + Ahead[a]
        avail == last - first + 1
        step  == IF avail > MaxPoints THEN CeilDiv(avail, MaxPoints) ELSE 1
        date(i) == IF (i - 1) * step < avail - 1 THEN first + (i - 1) * step ELSE last
    IN  [i \in 1 .. 1 + CeilDiv(avail - 1, step) |->
           [t |-> date(i), life |-> server.life, step |-> step]]

NoSession == [live |-> FALSE, cursor |-> [a \in Addrs |-> None]]

\* One command of the client; a repeated `sub` leaves the cursor alone.
Serve ==
    /\ session.live
    /\ toServer # <<>>
    /\ LET m == Head(toServer) IN
       /\ toServer' = Tail(toServer)
       /\ \/ /\ m.c = "sub"
             /\ session' = IF session.cursor[m.addr] # None THEN session
                           ELSE [session EXCEPT !.cursor[m.addr] = ServerNow - History]
             /\ UNCHANGED <<server, toClient>>
          \/ /\ m.c = "unsub"
             /\ session' = [session EXCEPT !.cursor[m.addr] = None]
             /\ UNCHANGED <<server, toClient>>
          \/ \E ok \in BOOLEAN :
             /\ m.c = "set"
             /\ server' = IF ok THEN [server EXCEPT !.done = @ \cup {m.id}] ELSE server
             /\ toClient' = Append(toClient, [e |-> "set", addr |-> m.addr, ok |-> ok])
             /\ UNCHANGED session
    /\ UNCHANGED <<time, page, chans, writes, log>>

\* A turn of the loop that has something to send.
Flush ==
    LET news(a) == IF session.cursor[a] = None THEN <<>> ELSE Read(a, session.cursor[a])
        batch   == [a \in Addrs |-> news(a)]
    IN
    /\ session.live
    /\ Cardinality({i \in DOMAIN toClient : toClient[i].e = "d"}) < MaxFlight
    /\ \E a \in Addrs : batch[a] # <<>>
    /\ toClient' = Append(toClient, [e |-> "d", s |-> batch])
    /\ session' = [session EXCEPT !.cursor =
                     [a \in Addrs |-> IF batch[a] = <<>> THEN @[a] ELSE Last(batch[a]).t]]
    /\ UNCHANGED <<time, server, toServer, page, chans, writes, log>>

\* The network or the server ends the connection; what the page has not
\* received may still reach it, what it has sent is lost.
Cut ==
    /\ session.live
    /\ session' = NoSession
    /\ toServer' = <<>>
    /\ UNCHANGED <<time, server, toClient, page, chans, writes, log>>

Crash ==
    /\ server.up /\ server.life < MaxLives
    /\ server' = [server EXCEPT !.up = FALSE]
    /\ session' = NoSession
    /\ toServer' = <<>>
    /\ UNCHANGED <<time, toClient, page, chans, writes, log>>

\* The clock of the server is the time since it booted.
Reboot ==
    /\ ~server.up
    /\ server' = [server EXCEPT !.up = TRUE, !.life = @ + 1, !.boot = time]
    /\ UNCHANGED <<time, network, page, chans, writes, log>>

Tick ==
    /\ time < MaxTime
    /\ time' = time + 1
    /\ UNCHANGED <<server, network, page, chans, writes, log>>

(***************************************************************************)
(* Connection of the page.                                                 *)
(***************************************************************************)

Held == {a \in Addrs : chans[a].refs > 0}

\* A frame is handed to an open socket, and lost if the other end is gone.
Send(m) == toServer' = IF session.live THEN Append(toServer, m) ELSE toServer
IsOpen  == page.sock = "open"

\* connect(): a new socket, and a promise that nothing has settled yet.
Connecting(p) == [p EXCEPT !.sock = "opening", !.settled = FALSE, !.retrying = FALSE]

\* The page asks the server for its health before it picks a source.
Probe ==
    /\ page.source = "probing"
    /\ \/ /\ server.up
          /\ page' = Connecting([page EXCEPT !.source = "choosing"])
       \/ page' = [page EXCEPT !.source = "sim"]
    /\ UNCHANGED <<time, server, network, chans, writes, log>>

\* Retry timer.
Reconnect ==
    /\ page.retrying
    /\ page' = Connecting(page)
    /\ UNCHANGED <<time, server, network, chans, writes, log>>

\* The server accepts and says hello; the page's open event subscribes anew.
Open ==
    /\ page.sock = "opening"
    /\ server.up
    /\ page' = [page EXCEPT !.sock = "open"]
    /\ session' = [NoSession EXCEPT !.live = TRUE]
    /\ toClient' = <<[e |-> "hello", now |-> ServerNow, life |-> server.life]>>
    /\ toServer' = SetToSeq({[c |-> "sub", addr |-> a] : a \in Held})
    /\ UNCHANGED <<time, server, chans, writes, log>>

\* The four seconds have passed without a hello.
GiveUp ==
    /\ page.sock \in {"opening", "open"} /\ ~page.settled
    /\ page' = [page EXCEPT !.settled = TRUE, !.sock = "closing",
                            !.source = IF @ = "choosing" THEN "sim" ELSE @]
    /\ session' = NoSession
    /\ toServer' = <<>>
    /\ UNCHANGED <<time, server, toClient, chans, writes, log>>

\* A close event before the hello rejects the promise, and that is all: the
\* caller of a retry ignores the rejection.
Refused ==
    /\ \/ page.sock = "opening" /\ ~server.up
       \/ IsOpen /\ ~session.live
    /\ ~page.settled
    /\ page' = [page EXCEPT !.settled = TRUE, !.sock = "none",
                            !.source = IF @ = "choosing" THEN "sim" ELSE @]
    /\ toClient' = <<>>
    /\ UNCHANGED <<time, server, session, toServer, chans, writes, log>>

\* A close event after the hello, or after the delay, arms the retry timer.
Dropped ==
    /\ page.sock = "closing" \/ (IsOpen /\ ~session.live)
    /\ page.settled
    /\ page' = [page EXCEPT !.sock = "none", !.retrying = TRUE]
    /\ toClient' = <<>>
    /\ UNCHANGED <<time, server, session, toServer, chans, writes, log>>

(***************************************************************************)
(* Events received.                                                        *)
(***************************************************************************)

Newest(ts) == IF ts = <<>> THEN None ELSE Last(ts).t
Emptied    == [a \in Addrs |-> [chans[a] EXCEPT !.ts = <<>>]]

\* Variant: restart test without its tolerance, on the wrong side.
PurgedEager(now) == \E a \in Addrs : chans[a].ts # <<>> /\ now <= Newest(chans[a].ts)
\* Variant: the restart is never noticed.
PurgedNever(now) == FALSE
\* A server whose clock is behind the newest sample held has restarted.
Purged(now) == \E a \in Addrs : chans[a].ts # <<>> /\ now < Newest(chans[a].ts) - Slack

Hello(m) ==
    /\ page' = [page EXCEPT !.settled = TRUE, !.hello = m.now,
                            !.source = IF @ = "choosing" THEN "ws" ELSE @]
    /\ chans' = IF Purged(m.now) THEN Emptied ELSE chans
    /\ UNCHANGED <<writes, log>>

\* What follows date d in samples that are in order (lowerBound).
Later(s, d) ==
    LET i == CHOOSE i \in 1 .. Len(s) + 1 : /\ \A j \in 1 .. i - 1 : s[j].t <= d
                                            /\ i <= Len(s) => s[i].t > d
    IN  SubSeq(s, i, Len(s))

\* Samples no later than the newest one held are duplicates.
Recorded(ts, new) == ts \o IF ts = <<>> THEN new ELSE Later(new, Newest(ts))

Data(m) ==
    /\ chans' = IF ~page.running THEN chans
                ELSE [a \in Addrs |-> IF a \in Held
                                      THEN [chans[a] EXCEPT !.ts = Recorded(@, m.s[a])]
                                      ELSE chans[a]]
    /\ UNCHANGED <<page, writes, log>>

Resolved(w, a, outcome) ==
    IF w.pending[a] = 0 THEN w
    ELSE [w EXCEPT !.pending[a] = 0, !.outcome[w.pending[a]] = outcome]

\* Variant: any answer is a confirmation.
SetAnswerBlind(m) ==
    /\ writes' = Resolved(writes, m.addr, "ok")
    /\ UNCHANGED <<page, chans, log>>
\* The answer to a write is matched by its address alone.
SetAnswer(m) ==
    /\ writes' = Resolved(writes, m.addr, IF m.ok THEN "ok" ELSE "refused")
    /\ UNCHANGED <<page, chans, log>>

Receive ==
    /\ IsOpen
    /\ toClient # <<>>
    /\ LET m == Head(toClient) IN
       \/ m.e = "hello" /\ Hello(m)
       \/ m.e = "d"     /\ Data(m)
       \/ m.e = "set"   /\ SetAnswer(m)
    /\ toClient' = Tail(toClient)
    /\ UNCHANGED <<time, server, session, toServer>>

(***************************************************************************)
(* Calls of the page.                                                      *)
(***************************************************************************)

Subscribe(a) ==
    /\ page.source = "ws"
    /\ chans[a].refs < MaxRefs
    /\ chans' = [chans EXCEPT ![a].refs = @ + 1]
    /\ \E tighter \in BOOLEAN :
         IF IsOpen /\ (chans[a].refs = 0 \/ tighter)
         THEN Send([c |-> "sub", addr |-> a]) ELSE UNCHANGED toServer
    /\ UNCHANGED <<time, server, session, toClient, page, writes, log>>

\* The last reference takes the channel, and its samples, away.
Unsubscribe(a) ==
    /\ chans[a].refs > 0
    /\ LET left == chans[a].refs - 1 IN
       /\ chans' = [chans EXCEPT ![a] = IF left = 0 THEN [refs |-> 0, ts |-> <<>>]
                                        ELSE [@ EXCEPT !.refs = left]]
       /\ IF left = 0 /\ IsOpen THEN Send([c |-> "unsub", addr |-> a]) ELSE UNCHANGED toServer
       /\ log' = IF left = 0 THEN [log EXCEPT !.steady = @ \ {a}] ELSE log
    /\ UNCHANGED <<time, server, session, toClient, page, writes>>

\* Without an open socket the request fails at once; otherwise it replaces
\* the one that waits for the same address.
Write(a) ==
    /\ page.source = "ws"
    /\ a \in Writable
    /\ IsOpen
    /\ \E id \in Requests :
       /\ writes.outcome[id] = None
       /\ \A r \in 1 .. id - 1 : writes.outcome[r] # None
       /\ writes' = [Resolved(writes, a, "replaced") EXCEPT !.pending[a] = id,
                                                            !.outcome[id] = "waiting",
                                                            !.addr[id] = a]
       /\ Send([c |-> "set", addr |-> a, id |-> id])
    /\ UNCHANGED <<time, server, session, toClient, page, chans, log>>

\* Three seconds without a confirmation.
WriteTimeout(a) ==
    /\ writes.pending[a] # 0
    /\ writes' = Resolved(writes, a, "late")
    /\ UNCHANGED <<time, server, network, page, chans, log>>

\* stop(): the samples that still come are ignored.
Stop ==
    /\ page.source = "ws" /\ page.running
    /\ page' = [page EXCEPT !.running = FALSE]
    /\ log' = [log EXCEPT !.steady = {}]
    /\ UNCHANGED <<time, server, network, chans, writes>>

\* start(): a new capture begins from nothing.
Start ==
    /\ ~page.running
    /\ page' = [page EXCEPT !.running = TRUE]
    /\ chans' = Emptied
    /\ UNCHANGED <<time, server, network, writes, log>>

(***************************************************************************)
(* Journal of the page, for the tab that shows what is held.               *)
(***************************************************************************)

NoLog == [on |-> FALSE, from |-> 0, life |-> 0, steady |-> {},
          lastT |-> [a \in Addrs |-> None], rows |-> [a \in Addrs |-> <<>>]]

LogEnable ==
    /\ page.source = "ws" /\ IsOpen /\ session.live /\ page.settled /\ ~log.on
    /\ log' = [log EXCEPT !.on = TRUE, !.from = ServerNow, !.life = server.life,
          !.steady = {a \in Addrs : page.running /\ \A i \in DOMAIN chans[a].ts :
                                       chans[a].ts[i].life = server.life}]
    /\ UNCHANGED <<time, server, network, page, chans, writes>>

\* Rows of an earlier journaling stay in the page; only those of the present
\* one are kept here.
LogDisable ==
    /\ log.on
    /\ log' = NoLog
    /\ UNCHANGED <<time, server, network, page, chans, writes>>

\* Where the journal of an address goes on from.
LogFrom(a) == IF log.lastT[a] # None THEN log.lastT[a] ELSE log.from

\* Variant: the date of the last row is kept by address, and not moved.
LogTickStill ==
    /\ log.on
    /\ LET news(a) == Later(chans[a].ts, LogFrom(a)) IN
       /\ \E a \in Held : news(a) # <<>>
       /\ log' = [log EXCEPT !.rows = [a \in Addrs |-> @[a] \o news(a)]]
    /\ UNCHANGED <<time, server, network, page, chans, writes>>
\* Every half second: the samples later than the last one written.
LogTick ==
    /\ log.on
    /\ LET news(a) == Later(chans[a].ts, LogFrom(a)) IN
       /\ \E a \in Held : news(a) # <<>>
       /\ log' = [log EXCEPT
                    !.rows  = [a \in Addrs |-> @[a] \o news(a)],
                    !.lastT = [a \in Addrs |-> IF news(a) = <<>> THEN @[a]
                                               ELSE Newest(chans[a].ts)]]
    /\ UNCHANGED <<time, server, network, page, chans, writes>>

-----------------------------------------------------------------------------

Init ==
    /\ time = 0
    /\ server = [up |-> TRUE, life |-> 1, boot |-> 0, done |-> {}]
    /\ session = NoSession
    /\ toServer = <<>>
    /\ toClient = <<>>
    /\ page = [source |-> "probing", sock |-> "none", settled |-> FALSE,
               retrying |-> FALSE, running |-> TRUE, hello |-> 0]
    /\ chans = [a \in Addrs |-> [refs |-> 0, ts |-> <<>>]]
    /\ writes = [pending |-> [a \in Addrs |-> 0], outcome |-> [r \in Requests |-> None],
                 addr |-> [r \in Requests |-> None]]
    /\ log = NoLog

\* Bound: writes are explored with little data and without the journal,
\* with which they share no variable.
WritesApart ==
    (\E r \in Requests : writes.outcome[r] # None) => time <= 1 /\ ~log.on

System == Serve \/ Flush \/ Reboot \/ Probe \/ Reconnect \/ Open \/ GiveUp
            \/ Refused \/ Dropped \/ Receive \/ LogTick \/ Tick

Environment ==
    \/ Cut \/ Crash \/ Stop \/ Start \/ LogEnable \/ LogDisable
    \/ /\ Len(toServer) < MaxCommands
       /\ \E a \in Addrs : Subscribe(a) \/ Unsubscribe(a) \/ Write(a)

Next == System \/ Environment \/ \E a \in Addrs : WriteTimeout(a)

\* Timers fire, messages arrive, the server is restarted (systemd) and its
\* loop turns; nothing is asked of the operator.  Strong fairness: connections
\* are not all cut or given up before their hello.
Fairness ==
    /\ WF_vars(Reconnect) /\ SF_vars(Open) /\ SF_vars(Receive) /\ WF_vars(Dropped)
    /\ WF_vars(Refused) /\ WF_vars(Reboot) /\ WF_vars(Serve)
    /\ \A a \in Addrs : WF_vars(WriteTimeout(a))

Spec == Init /\ [][Next]_vars /\ Fairness

-----------------------------------------------------------------------------

\* Every variable keeps its type (the state of createWsSource, source-ws.js:20-68).
TypeOK ==
    /\ time \in 0 .. MaxTime
    /\ server.life \in 1 .. MaxLives /\ server.boot \in 0 .. time
    /\ server.done \subseteq Requests
    /\ session.live => server.up
    /\ page.source \in {"probing", "choosing", "ws", "sim"}
    /\ page.sock \in {"none", "opening", "open", "closing"}
    /\ page.retrying => page.sock = "none" /\ page.settled
    /\ \A a \in Addrs : /\ chans[a].refs \in 0 .. MaxRefs
                        /\ chans[a].refs = 0 => chans[a].ts = <<>>
                        /\ writes.pending[a] # 0 => writes.outcome[writes.pending[a]] = "waiting"
    /\ writes.outcome \in [Requests -> Outcomes \cup {None}]

\* A curve is made of samples in order of date, each once, through any number
\* of reconnections (source-ws.js:98-104, 151-164).  Two lives of the server
\* are joined in one curve only if the clock of the later one, when it said
\* hello, had already reached the newest sample held; and where samples of one
\* life are missing between two, either the server has thinned their batch,
\* by a step no shorter than the gap (main.cpp:841), or what comes after the
\* gap covers the whole history that it sends to a subscription.
OneCurve == TypeOK /\ \A a \in Addrs : LET ts == chans[a].ts IN
    \A i \in 1 .. Len(ts) - 1 :
        /\ ts[i].t < ts[i + 1].t
        /\ ts[i].life = ts[i + 1].life =>
              \/ ts[i + 1].t <= ts[i].t + ts[i + 1].step
              \/ ts[i + 1].t + History <= Newest(ts) + 1
        /\ ts[i].life # ts[i + 1].life => page.hello >= ts[i].t - Slack

\* A reconnection to a server that has not restarted never empties what is
\* held (source-ws.js:98), as long as no equipment is ahead of the server by
\* more than the tolerance: one that is looks like a restart.
NoFalsePurge ==
    [][\A a \in Addrs :
         chans[a].ts # <<>> /\ chans'[a].ts = <<>> /\ chans'[a].refs > 0
           => \/ ~page.running
              \/ Last(chans[a].ts).life # Head(toClient).life
              \/ \E b \in Held : Ahead[b] > Slack]_vars

\* A request of forcing that the page reports as done was done by the server
\* (source-ws.js:132-141, 300-327), unless an earlier request of the same
\* address was given up while its answer was on its way: that answer is then
\* taken for the later request's.
ConfirmedWasDone == \A r \in Requests :
    writes.outcome[r] = "ok" =>
        \/ r \in server.done
        \/ \E q \in 1 .. r - 1 : /\ writes.addr[q] = writes.addr[r]
                                 /\ writes.outcome[q] \in {"replaced", "late"}

\* The journal of the page has each sample once, in order, and none that the
\* page holds is passed over (app.js:1550-1577), while the variable stays
\* shown, the acquisition is not stopped and the server does not restart: in
\* a later life nothing is written before its clock passes the last row. Nor
\* is it promised when an equipment is ahead of the server by more than the
\* tolerance: what comes again after a false purge may be older than the rows.
JournalFollows == \A a \in Addrs :
    /\ \A i \in 1 .. Len(log.rows[a]) - 1 : log.rows[a][i].t < log.rows[a][i + 1].t
    /\ a \in log.steady /\ (\A b \in Addrs : Ahead[b] <= Slack) =>
          \A i \in DOMAIN chans[a].ts : LET s == chans[a].ts[i] IN
             s.life = log.life /\ s.t > log.from =>
                s.t > LogFrom(a) \/ \E j \in DOMAIN log.rows[a] : log.rows[a][j] = s

\* A page that has lost its stream finds it again once the server is back
\* ("En cas de coupure, la source WebSocket se reconnecte", docs/SPECS.md:627).
Reconnects == page.source = "ws" /\ page.sock = "none" ~> IsOpen

=============================================================================
