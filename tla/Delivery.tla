------------------------------ MODULE Delivery ------------------------------
(***************************************************************************)
(* From a driver to the readers of a network point (protocol_source.hpp,   *)
(* recorder.hpp, main.cpp).                                                *)
(*                                                                         *)
(* The thread of the link publishes values; LinkSink thins them out, dates *)
(* them - by the clock of the equipment when the point asks for it and the *)
(* clocks agree, otherwise on the grid of the point's period - and pushes  *)
(* them into the history.  The recorder and a WebSocket session read that  *)
(* history from their own threads, each from the date of the last sample   *)
(* it was given.  A new configuration empties the history under them.      *)
(*                                                                         *)
(* Time is counted in ticks since the start of the server; the clock moves *)
(* between two publications of a point.  The 64 samples over which push    *)
(* may go back are Reach.                                                  *)
(***************************************************************************)
EXTENDS History

CONSTANTS
    Period,     \* PointConfig::period_ms, in ticks
    Horizon,    \* horizon_s: how long samples are kept
    SkewMax,    \* clockSkewS of the link
    Skews,      \* device clock minus server clock, when the device dates
    NoDate,     \* the device gives no date
    Values,     \* values of the point
    Reach,      \* window of push
    MaxOut,     \* max_points of a session
    Past,       \* history_s: how far back a session starts
    Lag,        \* bound: how late a thread may be, to push or to read
    MaxTime,    \* bound: end of time
    MaxPub      \* bound: publications

Never == -1000  \* stands for -1e18

ASSUME DeliveryAssumption ==
    /\ Period \in Nat \ {0} /\ Horizon \in Nat /\ SkewMax \in Nat /\ Skews \subseteq Int
    /\ NoDate \notin Int
    /\ Reach \in Nat \ {0} /\ MaxOut \in Nat \ {0} /\ Past \in Nat
    /\ Lag \in Nat \ {0} /\ 2 * Lag + SkewMax <= Horizon /\ 2 * Lag + Period <= Horizon
    /\ MaxTime \in Nat /\ MaxPub \in Nat

VARIABLES
    now,        \* the clock of the server
    dated,      \* the point's `timestamp` option: "server" or "source"
    sink,       \* LinkSink: last_t_, last_v_, last_ret_ of the point
    pending,    \* the sample dated by publish and not pushed yet, or <<>>
    buf,        \* Channel::buf
    rec,        \* the campaign: its cursor and what it wrote
    ws,         \* the session: its cursor and the last sample it sent
    count,      \* publications so far
    behind,     \* ghost: samples pushed no later than one the campaign had written
    offered     \* ghost: the last value the driver offered

vars == <<now, dated, sink, pending, buf, rec, ws, count, behind, offered>>

NewSink == [lastT |-> Never, lastV |-> 0, lastRet |-> Never]
Off == [on |-> FALSE, from |-> Never, cursor |-> Never, readAt |-> 0, got |-> << >>]

\* A reader that starts at `from`.
Started(from) == [on |-> TRUE, from |-> from, cursor |-> from, readAt |-> 0, got |-> << >>]

Abs(x) == IF x < 0 THEN -x ELSE x
Newest == buf[Len(buf)]

-----------------------------------------------------------------------------
\* Variant: the grid dates every sample.
SnapAlways(t) == (t \div Period) * Period

\* snap_grid: the grid dates a reading unless that would not be after the last
\* retained date.
Snap(t) ==
    LET g == (t \div Period) * Period IN IF g > sink.lastRet THEN g ELSE t

\* horodate: the skew of the device's date is applied to the server's clock,
\* unless it is beyond the threshold of the link.
UsesSource(skew) == skew # NoDate /\ dated = "source" /\ Abs(skew) <= SkewMax

DateOf(skew) == IF UsesSource(skew) THEN now + skew ELSE Snap(now)

\* publish drops a value that neither changes nor is due.
Thinned(v) == now - sink.lastT < Period /\ v = sink.lastV

\* publish, up to its call of push.  `first` (ghost) tells the first sample since the
\* link was configured.
Publish(v, skew) ==
    /\ pending = << >> /\ count < MaxPub
    /\ now > sink.lastT
    /\ offered' = v
    /\ IF Thinned(v)
       THEN UNCHANGED <<sink, pending, count>>
       ELSE /\ sink' = [lastT |-> now, lastV |-> v,
                        lastRet |-> IF DateOf(skew) > sink.lastRet THEN DateOf(skew)
                                    ELSE sink.lastRet]
            /\ count' = count + 1
            /\ pending' = <<[t |-> DateOf(skew), v |-> v, n |-> count + 1, at |-> now,
                             own |-> UsesSource(skew),
                             first |-> sink.lastT = Never]>>
    /\ UNCHANGED <<now, dated, buf, rec, ws, behind>>

\* push, under mu_: the sample takes its place and the oldest ones go, unless it
\* is dropped.
Push ==
    /\ pending # << >>
    /\ LET smp == pending[1]
           placed == Place(buf, smp, Reach) IN
       /\ buf' = IF placed = buf THEN buf ELSE Trimmed(placed, now - Horizon)
       /\ behind' = IF rec.got # << >> /\ smp.t <= rec.cursor THEN behind \cup {smp.n} ELSE behind
    /\ pending' = << >>
    /\ UNCHANGED <<now, dated, sink, rec, ws, count, offered>>

\* ProtocolSource::apply: the thread is joined, the channel and the sink are new.
\* The point keeps its option.
Reconfigure ==
    /\ pending = << >> /\ sink # NewSink
    /\ buf' = << >> /\ sink' = NewSink
    /\ UNCHANGED <<now, dated, pending, rec, ws, count, behind, offered>>

-----------------------------------------------------------------------------
\* Recorder::start: the campaign begins at the present instant.
RecStart ==
    /\ ~ rec.on
    /\ rec' = [Started(now) EXCEPT !.readAt = now]
    /\ UNCHANGED <<now, dated, sink, pending, buf, ws, count, behind, offered>>

\* Variant: the cursor follows the clock, not the samples.
RecFlushToNow ==
    /\ rec.on /\ rec.readAt < now
    /\ rec' = [rec EXCEPT !.readAt = now, !.got = @ \o Read(buf, rec.cursor, 0), !.cursor = now]
    /\ UNCHANGED <<now, dated, sink, pending, buf, ws, count, behind, offered>>

\* Recorder::flush: every sample later than the cursor is written.
RecFlush ==
    /\ rec.on /\ rec.readAt < now
    /\ LET batch == Read(buf, rec.cursor, 0) IN
       rec' = [rec EXCEPT !.readAt = now, !.got = @ \o batch,
                          !.cursor = IF batch = << >> THEN @ ELSE batch[Len(batch)].t]
    /\ UNCHANGED <<now, dated, sink, pending, buf, ws, count, behind, offered>>

\* A session subscribes: it starts a little in the past.
WsSub ==
    /\ ~ ws.on
    /\ ws' = Started(now - Past)
    /\ UNCHANGED <<now, dated, sink, pending, buf, rec, count, behind, offered>>

\* One data frame, of a bounded number of samples; `got` is the last of them.
WsFlush ==
    /\ ws.on
    /\ LET batch == Read(buf, ws.cursor, MaxOut) IN
       ws' = [ws EXCEPT !.got = IF batch = << >> THEN @ ELSE <<batch[Len(batch)]>>,
                        !.cursor = IF batch = << >> THEN @ ELSE batch[Len(batch)].t]
    /\ UNCHANGED <<now, dated, sink, pending, buf, rec, count, behind, offered>>

\* The recorder wakes twice a second and push follows publish at once: both far
\* within the horizon (330 s) less the skew (10 s by default).
Tick ==
    /\ now < MaxTime
    /\ rec.on => now - rec.readAt < Lag
    /\ pending # << >> => now - pending[1].at < Lag
    /\ now' = now + 1
    /\ UNCHANGED <<dated, sink, pending, buf, rec, ws, count, behind, offered>>

Init ==
    /\ now = 0
    /\ dated \in {"server", "source"}
    /\ sink = NewSink /\ pending = << >> /\ buf = << >>
    /\ rec = Off /\ ws = Off
    /\ count = 0 /\ behind = {} /\ offered = 0

Next ==
    \/ \E v \in Values, skew \in Skews \cup {NoDate} : Publish(v, skew)
    \/ Push
    \/ Reconfigure
    \/ RecStart \/ RecFlush \/ WsSub \/ WsFlush
    \/ Tick

Spec == Init /\ [][Next]_vars

-----------------------------------------------------------------------------
Sample == [t : Int, v : Values, n : 1..MaxPub, at : 0..MaxTime,
           own : BOOLEAN, first : BOOLEAN]

TypeOK ==
    /\ now \in 0..MaxTime /\ dated \in {"server", "source"}
    /\ sink \in [lastT : Int, lastV : Values \cup {0}, lastRet : Int]
    /\ Len(pending) <= 1 /\ \A i \in DOMAIN pending : pending[i] \in Sample
    /\ \A i \in DOMAIN buf : buf[i] \in Sample
    /\ \A r \in {rec, ws} :
          /\ r.on \in BOOLEAN /\ r.from \in Int /\ r.cursor \in Int /\ r.readAt \in 0..MaxTime
          /\ \A i \in DOMAIN r.got : r.got[i] \in Sample
    /\ count \in 0..MaxPub /\ behind \in SUBSET (1..MaxPub) /\ offered \in Values \cup {0}

\* The history is always sorted, so that the dichotomy of read() finds what a
\* plain filter would: the samples later than the cursor, all of them, whatever
\* order the dates of the equipment came in.
ReadsAreExact ==
    \A since \in {rec.cursor, ws.cursor} \cup {buf[i].t : i \in DOMAIN buf} :
       \A i \in DOMAIN buf : buf[i].t > since <=> i > Bisect(buf, since)

\* Whatever the clock of the equipment says, the date of a sample is that of its
\* reading but for the skew the link accepts or, before it, one step of the grid:
\* no sample falls outside of every visible window.
InsideWindow ==
    \A i \in DOMAIN buf :
       /\ buf[i].at <= now
       /\ IF buf[i].own THEN Abs(buf[i].t - buf[i].at) <= SkewMax
          ELSE buf[i].t <= buf[i].at /\ buf[i].at - buf[i].t < Period

\* The journal of a campaign is in chronological order and holds no sample
\* twice, though samples are inserted in the middle of the history and the
\* history is emptied by a new configuration.
JournalInOrder ==
    \A i, j \in DOMAIN rec.got :
       i < j => rec.got[i].t <= rec.got[j].t /\ rec.got[i].n # rec.got[j].n

\* What the campaign has passed it has written: a sample dated after its start
\* and no later than its cursor is in the journal, unless it was pushed behind
\* a sample already written.
Written(n) == \E k \in DOMAIN rec.got : rec.got[k].n = n
NeverSkipped ==
    \A i \in DOMAIN buf :
       rec.from < buf[i].t /\ buf[i].t <= rec.cursor
          => Written(buf[i].n) \/ buf[i].n \in behind

\* A sample dated by the server is never pushed behind the campaign, hence never
\* missed, but for the first one after a configuration, which the grid may date
\* before what the previous configuration delivered.
ServerDatesAhead ==
    dated = "server" =>
       \A i \in DOMAIN buf : buf[i].n \in behind => buf[i].first

\* With the dates of the server, once a session has nothing left to read what
\* it showed last is the last value the driver offered: neither thinning nor
\* decimation hides the latest transition.
LatestIsShown ==
    /\ dated = "server" /\ ws.got # << >> /\ pending = << >> /\ buf # << >>
    /\ Newest.t <= ws.cursor /\ ~ Newest.first
    => ws.got[1].n = Newest.n /\ Newest.v = offered

\* Making room for a new sample never drops one that the campaign has yet to
\* write; only a new configuration does.
UnreadIsKept ==
    [][rec.on /\ buf' # << >> =>
          \A i \in DOMAIN buf : buf[i].t > rec.cursor =>
             \E j \in DOMAIN buf' : buf'[j].n = buf[i].n]_vars

\* The journal of a campaign is what the history held: in order, once each, and
\* nothing passed over but what was pushed behind it (read, Recorder::flush).
JournalFaithful == TypeOK /\ ReadsAreExact /\ JournalInOrder /\ NeverSkipped

\* Dates are of their time: within the window shown, ahead of the readers when
\* the server gives them, and the newest is the one shown (publish, read).
DatesSound == InsideWindow /\ ServerDatesAhead /\ LatestIsShown
=============================================================================
