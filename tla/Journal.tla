------------------------------ MODULE Journal ------------------------------
(***************************************************************************)
(* The autonomous recorder (recorder.hpp) over the controller source       *)
(* (sim_source.hpp): one campaign of one variable, the file it appends to, *)
(* and another subscriber of the variable, a session.                      *)
(*                                                                         *)
(* The sampling thread, the journal thread and the requests each take a    *)
(* mutex for the whole of their work: one step each.  A campaign does not  *)
(* survive the process, its file does; the clock of the server then starts *)
(* again from zero, and only the ISO date of a row - wall0 + t - goes on.  *)
(*                                                                         *)
(* The file is its first line, its rows and what ends it; a row appended   *)
(* to a line that a crash cut short is lost in it (`whole` is FALSE).      *)
(***************************************************************************)
EXTENDS Sampling

CONSTANTS
    Periods,    \* periods that subscribers ask for
    Forced,     \* values that operators force
    Lag,        \* bound: how late the journal thread may be
    MaxTime,    \* bound: ticks of one life of the server
    MaxBoots,   \* bound: lives of the server
    None

ASSUME JournalAssumption ==
    /\ Periods \subseteq Int /\ Generated \notin Forced /\ None \notin Forced \cup {Generated}
    /\ Lag \in Nat \ {0} /\ Lag + CatchUp <= Horizon
    /\ MaxTime \in Nat /\ MaxBoots \in Nat \ {0}

VARIABLES
    now,        \* the clock of the server
    boot,       \* the life of the server
    chan,       \* the channel of the variable, or NoChannel
    holders,    \* who subscribes: "session", "campaign"
    forced,     \* forced_: the value forced, or None
    order,      \* ghost: the value asked for, and since when
    rec,        \* the campaign
    file,       \* <name>.csv
    aside       \* <name>.ancien.csv

vars == <<now, boot, chan, holders, forced, order, rec, file, aside>>
sourceVars == <<chan, holders, forced, order>>

NoChannel == [period |-> 0, next |-> 0, since |-> 0, born |-> 0, buf |-> << >>]
NoOrder == [v |-> None, at |-> 0]
NoRec == [on |-> FALSE, from |-> 0, cursor |-> 0, readAt |-> 0, header |-> FALSE]

\* head: "absent", "empty", "new" for the present header, "old" for any other.
NoFile == [head |-> "absent", rows |-> << >>, torn |-> FALSE]
OldFile == [head |-> "old", rows |-> << >>, torn |-> FALSE]
EmptyFile == [NoFile EXCEPT !.head = "empty"]

\* The dates of different lives of the server never meet.  A row is known by its
\* date: the values are left to the channel.
Iso(t) == boot * (MaxTime + 1) + t
Row(smp) == [iso |-> Iso(smp.t), t |-> smp.t, whole |-> TRUE]
Rows(batch) == [i \in 1..Len(batch) |-> Row(batch[i])]

-----------------------------------------------------------------------------
\* ------------------------------------------------------------- the source

Subscribed(ch, who, asked) ==
    IF who = {} THEN NewChannel(PeriodOf(asked), now) ELSE Tightened(ch, PeriodOf(asked), now)

Left(ch, who) == IF who = {} THEN NoChannel ELSE ch

Sample ==
    /\ holders # {}
    /\ chan' = Ticked(chan, now, IF forced = None THEN Generated ELSE forced)
    /\ UNCHANGED <<now, boot, holders, forced, order, rec, file, aside>>

\* {"c":"set"}, with or without "release".
Write(v) == v

SessionWrite(v) ==
    /\ forced' = Write(v)
    /\ order' = IF v = order.v THEN order ELSE [v |-> v, at |-> now]
    /\ UNCHANGED <<now, boot, chan, holders, rec, file, aside>>

SessionSub(asked) ==
    /\ "session" \notin holders
    /\ chan' = Subscribed(chan, holders, asked)
    /\ holders' = holders \cup {"session"}
    /\ UNCHANGED <<now, boot, forced, order, rec, file, aside>>

SessionUnsub ==
    /\ "session" \in holders
    /\ chan' = Left(chan, holders \ {"session"})
    /\ holders' = holders \ {"session"}
    /\ UNCHANGED <<now, boot, forced, order, rec, file, aside>>

-----------------------------------------------------------------------------
\* ----------------------------------------------------------- the campaign

\* What the stream of the campaign still holds is written: at most its header.
Closed(f) == IF rec.header THEN [f EXCEPT !.head = "new"] ELSE f

\* A file of another format is put aside; a new or empty one gets the header.
Fresh(f) == f.head \in {"absent", "empty", "old"}

\* Variant: the campaign starts a little in the past, as a session does.
FirstCursorPast == IF now = 0 THEN 0 ELSE now - 1

FirstCursor == now

\* Variant: any file that exists is appended to.
OpenedAnyway(f) == IF f.head = "absent" THEN EmptyFile ELSE f

Opened(f) == IF Fresh(f) THEN EmptyFile ELSE f

\* start(): the campaign of the name is stopped first, its reference released.
RecStart(asked) ==
    LET others == holders \ {"campaign"}
        f == IF rec.on THEN Closed(file) ELSE file IN
    /\ chan' = Subscribed(Left(chan, others), others, asked)
    /\ holders' = others \cup {"campaign"}
    /\ rec' = [on |-> TRUE, from |-> now, cursor |-> FirstCursor, readAt |-> now, header |-> Fresh(f)]
    /\ aside' = IF f.head = "old" THEN f ELSE aside
    /\ file' = Opened(f)
    /\ UNCHANGED <<now, boot, forced, order>>

\* stop(); a start() that names no valid variable stops the campaign all the same.
RecStop ==
    /\ rec.on
    /\ chan' = Left(chan, holders \ {"campaign"})
    /\ holders' = holders \ {"campaign"}
    /\ rec' = NoRec
    /\ file' = Closed(file)
    /\ UNCHANGED <<now, boot, forced, order, aside>>

\* start() when the file cannot be opened: the period may have been tightened.
RecStartFails(asked) ==
    LET others == holders \ {"campaign"}
        f == IF rec.on THEN Closed(file) ELSE file IN
    /\ chan' = Left(Subscribed(Left(chan, others), others, asked), others)
    /\ holders' = others
    /\ rec' = NoRec
    /\ aside' = IF f.head = "old" THEN f ELSE aside
    /\ file' = IF f.head = "old" THEN NoFile ELSE f
    /\ UNCHANGED <<now, boot, forced, order>>

\* flush(): the rows of the samples later than the cursor.
Appended(f, rows) ==
    IF rows = << >> THEN f
    ELSE [f EXCEPT !.rows = @ \o [rows EXCEPT ![1].whole = ~ f.torn], !.torn = FALSE]

Batch == Read(chan.buf, rec.cursor, 0)

Advanced(batch) == IF batch = << >> THEN rec.cursor ELSE batch[Len(batch)].t

RecFlush ==
    /\ rec.on
    /\ file' = Appended(Closed(file), Rows(Batch))
    /\ rec' = [rec EXCEPT !.cursor = Advanced(Batch), !.readAt = now, !.header = FALSE]
    /\ UNCHANGED <<now, boot, sourceVars, aside>>

-----------------------------------------------------------------------------
Time ==
    /\ now < MaxTime
    /\ rec.on => now - rec.readAt < Lag
    /\ now' = now + 1
    /\ UNCHANGED <<boot, sourceVars, rec, file, aside>>

\* The next life of the server, which finds the file as the crash left it.
Restart(f) ==
    /\ boot < MaxBoots
    /\ boot' = boot + 1
    /\ now' = 0
    /\ chan' = NoChannel /\ holders' = {}
    /\ forced' = None /\ order' = NoOrder
    /\ rec' = NoRec
    /\ file' = f
    /\ UNCHANGED aside

\* The process or the machine may stop while the journal is written: some rows
\* are there, the last one perhaps in part; a header in part is none.
Leftovers ==
    IF ~ rec.on THEN {file}
    ELSE LET whole(n) == Appended(Closed(file), SubSeq(Rows(Batch), 1, n)) IN
         {file} \cup {whole(n) : n \in 0..Len(Batch)}
         \cup (IF rec.header THEN {OldFile} ELSE {})
         \cup {[whole(n) EXCEPT !.torn = TRUE] : n \in 0..(Len(Batch) - 1)}

Init ==
    /\ now = 0 /\ boot = 1
    /\ chan = NoChannel /\ holders = {} /\ forced = None /\ order = NoOrder
    /\ rec = NoRec
    /\ file \in {NoFile, OldFile} /\ aside = NoFile

Next ==
    \/ Sample
    \/ \E v \in Forced \cup {None} : SessionWrite(v)
    \/ \E asked \in Periods : SessionSub(asked) \/ RecStart(asked) \/ RecStartFails(asked)
    \/ SessionUnsub \/ RecStop \/ RecFlush
    \/ Time
    \/ \E f \in Leftovers : Restart(f)

Spec == Init /\ [][Next]_vars

-----------------------------------------------------------------------------
Value == Forced \cup {Generated}
SampleType == [t : Int, v : Value]

FileType(f) ==
    /\ f.head \in {"absent", "empty", "new", "old"} /\ f.torn \in BOOLEAN
    /\ \A i \in DOMAIN f.rows :
          f.rows[i] \in [iso : Nat, t : Nat, whole : BOOLEAN]
    /\ f.head \in {"absent", "empty"} => f.rows = << >> /\ ~ f.torn

TypeOK ==
    /\ now \in 0..MaxTime /\ boot \in 1..MaxBoots
    /\ chan.period \in 0..MaxPeriod /\ chan.next \in Int /\ chan.since \in Int
    /\ \A i \in DOMAIN chan.buf : chan.buf[i] \in SampleType
    /\ holders \subseteq {"session", "campaign"} /\ (holders = {} <=> chan = NoChannel)
    /\ forced \in Forced \cup {None} /\ order \in [v : Forced \cup {None}, at : 0..MaxTime]
    /\ rec.on <=> "campaign" \in holders
    /\ rec.cursor \in 0..MaxTime /\ rec.from \in 0..MaxTime
    /\ FileType(file) /\ FileType(aside)
    /\ rec.on /\ ~ rec.header => file.head = "new"

\* Samples are dated on the grid of the period, each date once and in order, none
\* in the future: whoever tightened the period meanwhile, and however late the
\* sampling thread was.  Two variables of the same period share their dates.
SampledOnGrid ==
    LET buf == chan.buf IN
    /\ \A i \in 1..(Len(buf) - 1) : buf[i].t < buf[i + 1].t
    /\ \A i \in DOMAIN buf :
          /\ buf[i].t <= now /\ buf[i].t < chan.next * chan.period
          /\ buf[i].t > chan.since => buf[i].t % chan.period = 0

\* The journal is faithful: since the campaign started, every date of the grid
\* that the channel has been through is in the file or will be at the next
\* writing - whatever another session subscribes to, releases or tightens - but
\* for those that a suspended process gave up.
EveryDateJournaled ==
    rec.on =>
       \A k \in 0..(chan.next - 1) :
          LET t == k * chan.period IN
          t > rec.from /\ t > chan.since =>
             IF t > rec.cursor THEN \E i \in DOMAIN chan.buf : chan.buf[i].t = t
             ELSE \E i \in DOMAIN file.rows : file.rows[i].iso = Iso(t)

\* The rows of the file are in the order of their dates and none is there twice:
\* through campaigns stopped, replaced and started again, crashes and restarts.
JournalInOrder ==
    \A i \in 1..(Len(file.rows) - 1) : file.rows[i].iso < file.rows[i + 1].iso

\* Once a value is forced no sample shows another one, and once it is released
\* none shows it: but for what fills the history of a channel that was created
\* later, which is generated.
ForceInForce ==
    \A i \in DOMAIN chan.buf :
       chan.buf[i].t > order.at /\ chan.buf[i].t > chan.born =>
          chan.buf[i].v = IF order.v = None THEN Generated ELSE order.v

\* What a step may do to the file of a campaign.
Unmixed ==
    /\ file.head = "old" /\ file' # file => aside' = file /\ file'.rows = << >>
    /\ file.head = "new" => file'.head = "new" /\ Len(file'.rows) >= Len(file.rows)
                           /\ SubSeq(file'.rows, 1, Len(file.rows)) = file.rows

\* A file of another format is put aside as it is, never written to; one of this
\* format only grows.  In particular a header that a crash cut short is not taken
\* for a header.
NeverMixed == [][Unmixed]_vars

\* Every date of the grid is journaled, and no other is sampled (SimSource).
GridJournaled == TypeOK /\ SampledOnGrid /\ EveryDateJournaled

\* The file is in the order of its dates and holds the value then in force.
LinesInOrder == JournalInOrder /\ ForceInForce
=============================================================================
