# Diagweb in TLA+

This directory holds a TLA+ model of Diagweb, the diagnostic server of an
industrial controller and the browser application it serves: modules translated
from the source, TLC configurations that check them on small instances, and
theorems checked by TLAPS. `PROJECT.json` relates every definition to the lines
it stands for, every property to the runs that check it, and lists the hazards
the properties are for.

Paths below are relative to the repository; `server/` stands for
`src/server/src/`, `web/` for `src/web/js/`, `SPECS.md` for `src/docs/SPECS.md`.

## The system

Diagweb is one C++ process (`server/main.cpp`) and a page (`web/`). The process
has one thread per network link, a sampling thread, a journal thread (twice a
second), a maintenance thread (four times a second) and one thread per HTTP or
WebSocket connection. They share objects that each protect their state with one
mutex; **nothing is protected across two calls**, and that is where the hard
behaviours of the server are. The page has one thread and no mutex: its hard
behaviours are answers that cross, arrive late or never, timers that fire
between two of them, and several windows that write the same storage.

| Component | State | Operations | Talks to |
|---|---|---|---|
| Controller source (`sim_source.hpp`) | a channel per subscribed variable: period, number of the next sample, history, references; forced values | subscribe, unsubscribe, read, write, tick | sessions, recorder, capture trigger; the sampling thread |
| Network source (`protocol_source.hpp`) | configuration, a channel per point, a state per link, a thread per enabled link | apply, subscribe, unsubscribe, read, states; push, set_status, set_warning, bump_attempt from the threads | PUT /api/protocols, drivers, the same readers |
| Drivers (`drivers/`) | a socket and the state of a protocol | open, service, close | the `IPointSink` of their link |
| Recorder (`recorder.hpp`) | campaigns: variables, cursors, an open CSV file | start, stop, flush, render | sources; files |
| Capture (`capture.hpp`) | captures, quota, trigger, the variable observed | start, stop, delete, set_quota, set_trigger, service | tcpdump, .pcap files, `reglages.json`, a source |
| Sessions (`main.cpp`, `ws_session`) | the addresses subscribed, a cursor for each | sub, unsub, set, data frames | sources, a browser |
| Transport, layouts, LLDP, interfaces, audit | buffers, files, a table of neighbours | | |
| Stream client (`web/source-ws.js`) | socket, curves, references, pending writes, retry timer | connect, messages, subscribe, set, stop, start | a session |
| Simulated source and captures (`web/sim.js`, `web/netsim.js`) | the same, in the page | the same | nothing |
| Workspace (`web/app.js`, `dnd.js`, `mosaic.js`, `store.js`) | tabs, tiles, their places and variables, the saved session | gestures, moves between windows, journal, campaigns, reset | the source, other windows, HTTP |
| Charts and pages (`web/chart.js`, `network.js`, `protocols*.js`) | instants shown, scales, forms and lists | gestures, readings, orders | the source, HTTP |

What is hard in it, and what makes each part correct:

* **References.** Three kinds of holders take and give back references from their
  own threads, and read what subscribe() returned after its mutex is let go. A
  count must be the number of its holders, nothing a holder still reads may be
  destroyed, every reference must have somebody who will give it back.
* **Link threads against reconfiguration.** A request joins threads that are
  opening, serving, failing or sleeping while they report their state. The join
  must end; no report may reach the configuration that follows; a lost link must
  be tried again; what is saved must be what is in force, after any crash.
* **Dates.** Samples carry the server's or the equipment's date, arrive late and
  out of order, are thinned, put on a grid, inserted and trimmed, while readers go
  through the history with a cursor: every sample once, in order.
* **Files and processes.** A journal file lives longer than the process and may be
  cut anywhere; tcpdump runs outside; settings must survive a power cut.
* **The stream of a page.** Connections are cut with batches under way, the server
  restarts with its clock at zero, confirmations come late.
* **A workspace in several windows.** A tile dragged to another window must not
  be lost, and be twice only for a reason, whatever expires or reloads meanwhile.
* **Old answers.** What a page believes of the controller (campaigns, links,
  settings) comes from answers that others make old.

## The modules

| Module | Models | Run, proofs |
|---|---|---|
| `Subscriptions` | reference counts and their holders | `subscriptions`; `Subscriptions_proofs` |
| `Links` | threads of the links, PUT /api/protocols, the saved file | `links`, `links_live`; `Links_proofs` |
| `Config` | the window that edits links and points (`web/protocols*.js`) | `links`; `Links_proofs` |
| `Reset` | starting afresh (`web/app.js`, `store.js`) | `links`, `reset_tells`; `Links_proofs` |
| `Iec104` | a session of the IEC 60870-5-104 driver | `links`; `Links_proofs` |
| `J1939` | the transfers of the J1939 driver | `links`; `Links_proofs` |
| `History` | the deque of a channel, as pure operators | through the next ones |
| `Delivery` (extends `History`) | from `LinkSink::publish` to the journal and to a session | `delivery`; `Delivery_proofs` |
| `Campaign` | the campaigns the tabs of a page command (`web/app.js`) | `delivery`; `Delivery_proofs` |
| `Sampling` (extends `History`) | a channel of the controller source, as pure operators | through the next two |
| `Journal` (extends `Sampling`) | a campaign of the recorder over that channel, its file, crashes | `journal`; `Journal_proofs` |
| `Simulation` (extends `Sampling`) | the source simulated in the page (`web/sim.js`) | `journal`; `Journal_proofs` |
| `Capture` | captures, quota, trigger, settings | `capture`, `capture_settings`; `Capture_proofs` |
| `Pages` | the pages of the network menu (`web/network.js`) | `capture`; `Capture_proofs` |
| `NetSim` | the captures a page simulates (`web/netsim.js`) | `capture`; `Capture_proofs` |
| `Stream` | the stream client, its writes, the journal of a tab, over one session | `stream`, `stream_reconnect`; `Stream_proofs` |
| `Keeping` | the promise of a move: abstract specification | through `Move` |
| `Move` | tiles dragged between windows; implements `Keeping` | `move`; `Move_proofs` |
| `Mosaic` | where tiles lie, and how they make room | `page` |
| `Workspace` | tabs, tiles, their variables and subscriptions | `page` |
| `View` | the instants that charts and tables show, live or frozen | `page`; `Page_proofs` |
| `Scale` | the vertical scales of a chart | `page`; `Page_proofs` |

The granularity is that at which the program interleaves. In the server one step
is one critical section of a mutex, one read of an atomic flag, or one operation
on a file or a process; where a handler holds a mutex for the whole of its work it
is one step, with everything it calls. In the page one step is one callback: an
event, a timer, an answer, a gesture, with what it calls.

The modules of independent components share a run: `MCLinks`, `MCDelivery`,
`MCJournal`, `MCCapture` and `MCPage` **explore modules side by side**. Their variable `part` is chosen in the initial state and says which module
takes its steps; the others stay in their initial state. A behaviour is therefore
a behaviour of one module alone, each property is read under its own `part`, and
the states are the union of those of the modules, never their product: the
components in question share no variable in the code either. Where components do
interact, they are composed in a module (`Subscriptions`, `Delivery`, `Journal`,
`Stream`, `Move`).

An operator whose comment begins with "Variant" is no part of the model: it is
an operator of the model with a slip a programmer could make, and what each
property is tested against. `PROJECT.json` ("mutants") says which variant makes
which property fail.

### The server

**Subscriptions.** A holder's own note of a reference is a *ticket*: an entry of
the `subs` map of a session, the local `m` between the subscription and the line
that files it, an entry of a campaign, the trigger's `abonne_`. `held[a]` is the
set of tickets on address `a`, `refs[a]` the counter of the code; controller
channels are destroyed by their last release, and `dangling` is the set of sessions
whose `m` then points nowhere. For **network points** `apply()` destroys channels
whatever the counts are, so that `MetaStaysValid` and `RefsMatchHolders` are about
the controller's variables; the model has what happens otherwise (counts restart
from zero, releases stop at zero, a session that reads `m->addr` of a destroyed
channel reads anything).

**Links.** `runner[l].pc` follows the lambda of `start_all` line by line; `put[p]`
follows a request, and the main thread at start-up: the mutex, the flags, the joins,
the swap, the threads started one by one, then, outside the mutex, the truncation
and the writing of `protocols.json`. `Crash` may come at any step; the next life
loads the file as it is. `raced` is a ghost: the request that saved last may have
overlapped another one, and then the file may differ from what is in force.

**Delivery.** `Bisect`, `After`, `Decimated`, `Place` and `Trimmed` (`History`) are
`read()` and the body of `push()`; `Publish` is `LinkSink::publish`, `Push` the
later critical section, within `Lag` ticks, which is also how late the journal
thread may be. The code bounds neither; the horizon of the history is 330 seconds
and the threads wake after tenths of a second, whence `2 * Lag + SkewMax <=
Horizon` and `2 * Lag + Period <= Horizon`: without them a suspended journal thread
loses what was trimmed, as the code does.

**Journal.** One campaign and one session on one variable, forced values, the
sampling and the journal thread, and a file made of its first line, its rows and
what ends it. `Restart` begins a new life with any file that a crash may leave
(`Leftovers`). The date of a row in ISO form goes forward from one life to the next
(`Iso`: a life is followed by later dates); `t_s` counts from the start of the
server, and starts again. `Lag + CatchUp <= Horizon` says that the history outlives
what a late journal thread and a late sampling thread may add up to.

**Capture.** `ClientStart`, `ClientStop`, `ClientDelete` are the requests; a
configuration is two steps because the code sets the quota, and saves, before it
takes the mutex for the trigger. `Service` is the critical section of the
maintenance thread, `ServiceLaunch` what it does after letting the mutex go. A
trigger's mode and threshold are the set `on` of values for which it is active.

**Iec104, J1939** are two drivers behind `Links`' open, serve and close. The first
has the timers t1, t2, t3, the count w and the numbers modulo their modulus, over a
TCP socket that keeps order; the station's own timers are external. The second has
one source, its announcements and packets, a bus that loses frames, and ghosts that
say to which transfer each packet really belonged.

### The page

**Stream.** `server.life` numbers the lives of the server, a sample carries the
life that made it, and the server's clock is the time since it booted. `Open`,
`GiveUp`, `Refused`, `Dropped` and `Reconnect` are the handlers of the socket and
its timers, `Hello`, `Data` and `SetAnswer` the events; `Serve` and `Flush` are the loop
of `ws_session`, whose batches `Read` thins to `max_points` samples of an address, each
of which remembers in a ghost by how much (`step`). The journal of a tab is
`LogTick`; the ghosts `log.life` and `log.steady` say in which life it began and
which variables have been shown without a break since.

**Move** has several windows, each with its session and the timer of its save, the
drag of one pointer, the acceptances on the BroadcastChannel, the expirations and
the transfers that wait in localStorage. `copied` is the set of contents that have
a reason to be twice; `accident` is true after one of the two losses that the code
does not prevent (`TransferLost`, `Reload`).

**Campaign** has the calls under way and what each of them is worth; `sure` is the
set of tabs whose dot comes from an answer that nothing made old meanwhile.
**Config** has the list being edited, what the controller has, and forms that write
it letter by letter, during their save too; a window that shows what is no longer in the configuration is
`astray`. **Reset** has the ticked boxes, the requests with their three outcomes
(done; done but the answer lost; not done), and the opening that follows.
**Pages** has readings and orders that cross; **NetSim** and **Simulation** the two
simulations that stand for the controller in a page opened without one.
**Mosaic**, **Workspace**, **View** and **Scale** are the operator's gestures on
tiles, tabs, instants and scales.

## The runs

| Run | Instance | What it checks |
|---|---|---|
| `subscriptions` | one controller variable, one network point, two sessions (symmetric), a campaign of up to two variables, the trigger, one failed send | `TypeOK`, `RefsMatchHolders`, `MetaStaysValid`, `OnlyLiveHolders`, `NotedOnce` |
| `links` | *Links*: two links, three configurations, two clients, any number of crashes; *Iec104*: t2 < t1 < t3, numbers that wrap; *J1939*: three transfers of two packets; *Config*: an identifier for two links, one point; *Reset*: one layout | `UpMeansUp`, `OnlyCurrentConfig`, `LonePutPersists`; `SessionSound`; `MessagesWhole`; `Unambiguous`, `ListIsLive`; `ResetSound` |
| `links_live` | *Links* alone: two links, two configurations, one client, fairness | `ApplyEnds`, `KeepsTrying` |
| `delivery` | *Delivery*: period 2, horizon 4, threshold 2, skews -3, -2, +1, six instants, three publications; *Campaign*: two tabs whose cleaned names collide, two calls | `JournalFaithful`, `DatesSound`, `UnreadIsKept`; `DotTells` |
| `journal` | *Journal*: periods 1 and 2, horizon 3, two lives, one value forced or not; *Simulation*: horizon 2, hold 3 | `GridJournaled`, `LinesInOrder`, `NeverMixed`; `SimulationSound` |
| `capture` | *Capture*, twice: two interfaces and a quota that changes; one interface, two variables, four triggers; *Pages*: two calls, one interval left behind; *NetSim*: two interfaces | `DiskInHand`, `TriggerSound`, `ServiceSound`; `PagesHold` |
| `stream` | one address ahead by one, tolerance 1, history 2, batches of two samples at most, three ticks, two lives, two requests | `OneCurve`, `ConfirmedWasDone`, `JournalFollows`, `NoFalsePurge` |
| `move` | two contents, two windows, three screens, two drags | `MovedNotCopied`, `NeverLost` (the refinement of `Keeping`) |
| `page` | *Mosaic*: a table and two charts, two columns; *Workspace*: two variables, two tabs, two tiles that may both be charts; *View*: a chart and a table; *Scale*: two curves | `MosaicSettled`, `MosaicSteady`; `WorkspaceSound`, `GesturesKept`; `ValuesOfTheirInstant`, `FrozenStands`; `ScalesRight` |
| `stream_reconnect` | no history, one tick, two lives | finds `Reconnects` violated |
| `reset_tells` | one layout | finds `ResetTells` violated |
| `capture_settings` | one interface, two variables, four triggers | finds `SettingsSurvive` violated |

**Why the bounds are enough.** *Subscriptions*: two sessions, a campaign that may
name the variable twice and the trigger give every pair of holders. *Links*: two
links so that joins and starts happen one after the other, two clients so that
requests wait for the mutex and overlap in their saves. *Delivery*: three samples
are one to insert between, before or after two others, with `Reach` 3 so that one
may be out of reach; a session takes one sample at most, so that decimation happens
with two; skews are on both sides of the threshold and on it. `OneReader` drops the
states where campaign and session are both on: a reader changes nothing but itself
and no property relates the two. *Journal*: with periods 1 and 2 one grid is half of
the other, so that tightening happens; two lives give a crash with every leftover.
*Capture*: the caps matter when captures of two interfaces run together under a
quota that changes; three captures allow one more after an end or a deletion.
*Stream*: history 2 and three ticks hold a gap, a duplicate and a batch that comes
after a restart, and batches of two samples have three to thin; two requests are
enough for one to take the other's answer.
`WritesApart` explores writes with little data, with which they share no variable.
*Move*: two drags make a second drag before the acceptance of the first;
`BeforeAccident` explores nothing after an accident, when nothing is promised.
*Page* and the other parts: the smallest instances in which every action, and every
disjunct of every action, is taken. For what is proved below the theorems remove
the bounds.

Deadlock is not checked in `delivery` (its instants and publications run out) nor
in `stream` and `stream_reconnect` (time, lives and requests do).

**Fairness.** `Links!Fairness` is weak and per thread: a link's thread, a request
and its save keep running. Every call a runner makes is bounded by a timeout in
the drivers and the operating system schedules the threads; nothing is assumed of
clients, of publications, or of whether a driver ever opens, and the mutex is not
assumed to be given in turn, which is why `ApplyEnds` is about the request that has
the mutex. `links_live` explores the first part alone (`LiveSpec`). `Stream!Fairness`
says that the timers of the browser fire, that events that came are delivered, that
systemd restarts the server and that its loop turns; strong fairness of `Open` and
`Receive` excludes a network that cuts every connection before its greeting, and
`Reconnects` fails in spite of it.

## The proofs

Every theorem holds for every value of the constants that satisfies the assumption
named in its module. Each `*_proofs` module has the same layout: the inductive
invariant with its parts, lemmas on operators, one lemma per action or per group of
actions (`XKeeps`), one for the initial states and one for a step, and the theorems,
whose last step is temporal. `PROJECT.json` ("theorems") lists them.

| Module | Theorems | For any |
|---|---|---|
| `Subscriptions_proofs` | `TypeCorrect`, `CountsExact`, `MetadataSafe`, `HoldersLive`, `NotesUnique` | addresses, sessions, campaigns, variables per campaign |
| `Links_proofs` | `UpIsMeant`, `ConfigIsCurrent`, `LonePutIsSaved`; `NamesAreUnambiguous`, `FormsAreLive`; `ErasedOrSaid`; `SessionsAreSound`; `TransfersAreWhole` | links, settings, configurations, clients; identifiers, files, links of a window; layouts; delays, windows, modulus; packets per transfer, delay T1, transfers |
| `Delivery_proofs` | `JournalsAreFaithful`, `DatesAreSound`, `UnreadStaysInTheHistory`; `DotsAreTrue` | periods, skews, horizon, depth and reach of the history, lateness; tabs, names, ways of cleaning them, calls under way |
| `Journal_proofs` | `EveryDateIsJournaled`, `RowsAreInOrder`, `FilesNeverMix`; `SimulationIsSound` | periods, values, horizon, lateness, lives; horizon and hold of a page |
| `Capture_proofs` | `TriggerIsSound`, `ServiceIsSound`, `DiskStaysInHand`; `PagesStay` | interfaces, variables, quotas, durations, triggers; captures and settings of the pages, rates of the simulated ones |
| `Stream_proofs` | `ConfirmationsAreTrue`, `NothingPurgedInVain`, `CurvesAreWhole`, `NothingPassedOver` | addresses, clocks ahead, tolerance, history, lives, requests, queues |
| `Move_proofs` | `TilesAreKept` (refinement of `Keeping`), `MovesAreNoCopies` | tiles, windows, drags; finitely many screens |
| `Page_proofs` | `ValuesRight`, `Frozen`; `Scales` | tiles, windows, horizon, hold, clocks; curves, units, ranges |

Each of them states a property that a run checks, and over the specification of
that run or one that it contains: `Spec` is the specification of a component,
`MCSpec` and `PageSpec` those of the modules explored side by side, for the
properties that are read under a `part`. The latter follow from a theorem about the
part's own specification (`ErasingInvariant`, `CampaignsInvariant`, ...), the other
parts leaving its variables alone.

**Assumptions.** Every one of them is an `ASSUME` that TLC evaluates in the runs.
`SubscriptionsAssumption`, `LinksAssumption`, `MoveAssumption`, `CaptureAssumption`,
`StreamAssumption`, `CampaignAssumption`, `ScaleAssumption` say that the sets of
model values are what their names say (families disjoint, `None` no member of any of
them, bounds natural numbers), and that the sets over which something is counted,
summed or sent in a list are finite; `TransfersAssumption`, `PagesAssumption`,
`SimAssumption`, `SamplingAssumption`, `SimulationAssumption` that the sizes are
numbers and are not nothing. `ConfigAssumption` says that a file read is a list
within the bound and that the identifier refused is none of those typed;
`SessionAssumption` that the delays are numbers, that `t3` and the window `w` are
not nothing (`iec104.hpp:119` has a second at least), and that the station leaves
fewer frames without an acknowledgement than there are sequence numbers, without
which no reader of them could tell two frames apart. None of these bounds what the program does: a longer
history, a faster clock or one more client is another value of the constants.

Three assume something of the time. `DeliveryAssumption` has `2 * Lag + SkewMax <=
Horizon` and `2 * Lag + Period <= Horizon`, `JournalAssumption` has `Lag + CatchUp
<= Horizon`: a thread that is late by less than what the history keeps. (The threshold
`clockSkewS` of a link is whatever the operator enters: one beyond the horizon is
outside of what is proved.) They are the weakest the proofs found, and each was found by one that failed: with `Lag` and the
longest period alone below the horizon, TLC finds a date of the grid that was
trimmed before the journal came, the sampling thread having caught up late just
before. In the code the horizon is 330 seconds, the sampling thread of the controller
catches up two seconds and gives up beyond (`server/sim_source.hpp:286`), and the
journal thread wakes every half second. `ViewAssumption` has `Lag <= Horizon`, where `Lag` is how far
ahead of the samples the clock of a page may run.

**Subscriptions.** `RefsMatchHolders` says that a counter equals a cardinality. It
is not inductive: a step that adds a ticket must add a *new* one, and one that
drops a ticket must have had it. `IInv` is the conjunction of all the properties
(`OnlyLiveHolders` says that a session about to subscribe holds no metadata ticket,
`NotedOnce` that a campaign's next entry is free and that the trigger's ticket is)
with two facts: every set of tickets is finite, and only a session that waits to
answer can dangle. `MetaStaysValid` comes out of the counting: a session that waits
to read the metadata of `a` has its ticket in `held[a]`, so that the count is at
least one after any other release.

**Links.** That "up" is an open driver is not inductive either: the report and the
thread are in different variables. `LInv` says where the thread of a link shown
"up" may be (`ShownUp`), that threads exist outside of an apply only under the
configuration in force, with their flag down (`Threads`), that one process is in
the middle of an apply and has the mutex (`OneApply`), and what the file holds at
each point of a request that is alone (`Saved`). `ConfigIsCurrent` follows from
`Belongs`, in which a sample, a counter or a state is that of the link's own
settings.

**Move.** The refinement mapping of `Keeping` takes for `held` the tiles that a
window shows or that wait for one. What makes it hold is `Somewhere`: every tile
not closed is on a screen that *stays*, that is, that no acceptance under way will
remove, or waits for its window. `Carried` ties a drag and its acceptance to the
object that was taken, through reloads that bring objects back under their former
numbers (`Sessions`), and `Once` and `InHand` say when a tile that stays is the
only one, which `MovesAreNoCopies` needs. `TilesAreKept` then maps `Init` to
`Init`, and each action to `Close`, `Return`, `Accident` or a stutter.

**Stream.** Four invariants, each resting on the ones before. `Typed` is the type of
the state, with samples in order in every curve and message. `Confirmed` follows a
write through both queues: an address is either spoiled by a request that was given
up, or its command and its answer are together once at most on their way and are of
the request that waits (`Matched`). `Conn(L)` says that the socket belongs to life
`L` of the server: what is under way is of that life and within its clock, a hello
is the first message of its connection, and what is held is of an earlier life, or
below that clock by the equipment's advance; whence `NothingPurgedInVain`, a
purge needing a sample beyond the hello and the tolerance. `Flow` links the curve,
the batches under way and the server's cursor into one chain: each batch begins
where the one before it ends, or has the whole history behind it, or is of the
beginning of a life, and its samples are evenly thinned when there are too many to
send (`Sampled`, `Spread`); whence `CurvesAreWhole`, gap by gap. `Journaled` says of the
rows of the journal that they end at the date it goes on from (`LogKept`), and of a
variable shown without a break that what it holds is of the journal's life or later,
that its newest sample is not before the last row, and that each sample is in the
rows or later than they are (`Following`). The last part needs the hypothesis that
`JournalFollows` has: with an equipment ahead by more than the tolerance a false
purge empties the curve, and what comes again is older than the rows.

**Delivery.** The history is sorted by date and filled by order of arrival, and a
reader asks for what is newer than a date. The lemmas on `History` come first: the
search by dichotomy returns the first sample newer than the date (`After`), whatever
the length, and inserting, thinning and trimming keep the order and nothing else.
`Prompt` is what makes `UnreadIsKept` inductive: what the campaign has not read yet
is younger than the horizon at the latest instant it may be read. `Journaled` says
that the cursor is the date of what was written last and that what it passed is
written or was pushed behind it, and `Sunk`, `Coming` and `Latest` relate, with the
dates of the server, what the sink dated last, the sample on its way and the newest
one of the history.

**Journal.** `Entire` says where each date of the grid is that the channel has been
through since the campaign began: in the file if the cursor has passed it, else
still held, and too young to be dropped. A tightening changes the grid, and the
dates that count are those after it (`since`). `Filed` says that the rows go forward
up to the cursor, whence no row twice, that the present is after all of them when no
campaign runs, whatever a crash left, and that the header is written or still to be.

**Simulation.** The same channel without a journal: `SimHeld` says that a date is
held if the horizon or a frozen tile looks at it (`ToHold`), `SimOfThis` that what is
held, and what comes next, is of the capture under way, and `SimShown` that the last
sample shows the value in force.

**Capture.** `Sound` says that a capture that runs is named after its interface and
has its file, so that a start, which writes on the file of its interface, or a
failed one, which deletes it, never takes the file of another. `Following` says
that the trigger in force and the trigger saved both name the variable observed: it
is why `set_quota` may save at any moment. The disk is about sums over sets of files:
they are proved additive by induction on the set (`FiniteInduction`), and the bound
is inductive with what each capture was given to write (`Capped`, `Bounded`): one
that starts gets what is left of the quota, so that the files and all that tcpdump
may still write come to no more than one quota for each interface.

**Pages, NetSim.** `PageBehind` says it of every reading, answered or not: what it
carries as over is over, since a capture that is over does not run again; and
`PageFormThere` that what is shown has the fields typed. In a page that answers
itself, captures are one for each interface (`SimApart`), and what an answer does,
durations, quota, trigger, leaves none overdue. `charged` is a ghost: the captures seen
at work with the trigger armed that still are; the end of the condition leaves none.

**View.** `Frozen` is about two states. What makes it so is that the source holds
from before the start of every chart that it was told of (`ViewHeldSince`), and that
what it holds is the end of what was recorded (`ViewEndKept`), so that no sample is
missing in the middle of a view. **Scale.** A scale covers what is drawn because
what is drawn is on a scale that exists (`ScaleOnScale`), and the ends of a union of
ranges are reached.

**Campaign.** `CampSound` says of a call under way what it is worth: a command whose
news are still good bears the name its tab has now, and an answer that came back
good is what runs now. `CampAlike` says that the saved session describes the tabs
that are open, so that a page opened again asks for the campaigns of its own tabs.

**Reset.** `EraseDone` says on the way what `ResetSound` says at the end: a part
already passed is gone unless a request failed, and while layouts are being deleted
those that remain are in the list. `EraseSown` says that nothing writes the session
between the erasing and the opening.

**J1939.** `JayPure`, `JayAlone` and `JayPurged`: what a session without an excuse
received is of its own transfer, no other transfer of its source is under way while a
packet can still reach it, and `tick()` drops it in time. A bus that is lost takes the
session with it: the thread of the link makes a new driver for each attempt.

**Config.** Names are right because `normalize`, whatever it is given, returns a list
without doubles (`ConfNormal`): its fold over links and points is followed element
by element. That it changes nothing of such a list (`ConfNormalIs`) is what makes
the window and the controller agree after a save. `ConfInv` says of a save under way
that it bears what the page holds unless something came after it (`ConfBears`) and
knows the link it comes back to (`ConfBack`), of a reading that it bears what the
controller holds unless another station wrote meanwhile (`ConfHeard`), and of the
form that the list has its link (`ConfView`).

**Iec104.** Sequence numbers come around, and nothing about an order is inductive on
remainders. `IecInv` puts naturals behind them, `a <= x <= y <= v`: what the station
had acknowledged, what the acknowledgements under way tell, what the driver has
read, what was sent, `v` no further than `K` from `a`; along both queues the numbers
are the remainders of functions that do not decrease (`IecDown`, `IecUp`). `pump`
reads all that came at once: its recursive function is shown to exist by induction
on the queue, then followed frame by frame (`IecSo`), whence a number expected is
the number that comes. An acknowledgement is in time because the age of the oldest
frame owed is not above the age the driver counts (`IecTimed`), but for what came
with the confirmation of STARTDT, and no data comes before it (`IecBegun`).
`IecClock` bounds the silence by `t3`, then by the age of the test, and says that
nothing is due any more once a driver was served. `IecAnswering` is about a station
that reads and answers within the tick: what it is asked is on its way to it, or its
answer on the way back, so that no age has grown when the driver is served and no
delay runs out.

**What is only model-checked.** Liveness (`ApplyEnds`, `KeepsTrying`, and what
`stream_reconnect` refutes): fairness is out of the prover's reach. In a page,
`MosaicSettled` and `MosaicSteady`, where the layout is settled by passes over the
tiles until none moves, and `WorkspaceSound` and `GesturesKept`. Induction over
naturals and finite sets was within reach (the sums of `Capture`, the dichotomy of
`History`, the fold of `normalize`, the frames of `pump`), each time stated on a set
of numbers or of subsets and not on an operator; a termination over two dimensions
that are pushed in turns, as the mosaic's, was not attempted.

## What the code and its documents disagree about

Three disagreements have a run that exhibits them, and an entry under "findings".

* `Reconnects` (`stream_reconnect`): `SPECS.md:627-629` says that a lost stream is
  reconnected. A page whose first attempt is refused never tries again
  (`web/source-ws.js:195-201`); one that gets no greeting in four seconds does, since
  the delay settles the promise before the socket closes (`:177-179`).
* `ResetTells` (`reset_tells`): `web/app.js:2333-2335` says that a failed call leaves
  the page up to say so. A failed reading of the links switches to the browser's
  configuration without an error (`web/protocols.js:919-920`); the browser is erased
  with the links of the controller still there. `ErasedOrSaid` therefore spares the
  links.
* `SettingsSurvive` (`capture_settings`): `server/capture.hpp:452-457` says that the
  trigger survives a restart; one that observes the same variable is not saved
  (`:334`).

The others were met while modelling. The properties name them as exceptions or leave
them out of what they promise.

*Server.*

* `server/main.cpp:804-807` speaks of a single reference per address and session,
  without a leak: a client that leaves between the subscription and the answer leaves
  one (`:803`). `RefsMatchHolders` counts them (`leaked`).
* `server/protocol_source.hpp:309-314` and `:360-365` say that a transition is never
  antedated on the grid; the first sample of a period is, be it a transition (`:370`).
* `server/recorder.hpp:168-169` says one line per instant; lines are keyed by the
  seconds since the start of the server (`:245`), and rows of two lives meet.
* IEC 104: `open()` resets `first_unacked_` after reading frames that came with the
  confirmation of STARTDT; without a general interrogation these are not
  acknowledged within t2 (`drivers/iec104/iec104.hpp:61-82`, against the comment of
  `:92`). A frame of information sent acknowledges what was received but does not
  reset `unacked_`, whence an early acknowledgement.
* J1939: an RTS is answered whatever its destination, and not taken when nothing asks;
  an announcement lost within T1 of an unfinished transfer, or two transfers led by
  one source, mix. `MessagesWhole` names these two cases.
* CANopen (not modelled): the late answer to a former request of the same object is
  taken; the points after the first starve when it is due again
  (`drivers/canopen/canopen.hpp:86-103`).

*Stream, simulated sources.*

* An equipment ahead by more than the tolerance looks like a restart of the server
  and has every curve purged; what comes again may be older than the journal's rows
  and is then never written (`NoFalsePurge` and `JournalFollows` name it).
* A variable added after `start()` is filled over the whole horizon, before the start
  of the capture, against the comment of `web/sim.js:263-268`; one forced before it
  is subscribed shows generated values until its next sample.
* `web/netsim.js`: after a reload the trigger is enabled and nothing subscribes its
  variable (against `:284-285`); a falling edge ends every capture, those started by
  hand too, unlike the server, and a trigger that is disabled ends none (`:131-150`); `armed` is carried over to a new trigger; every "Apply"
  takes another reference.

*Views.*

* `SPECS.md:328` promises the value of a frozen instant; the frozen history is held
  from that instant (`web/app.js:2558`), so that the trimming drops the sample then
  in force, and "—" replaces it after some 350 seconds.
* A table frozen before a restart of the server, whose clock went back, shows the
  present again. Duplicating a chart loses the ranges set by hand
  (`web/chart.js:588`, against `serialize`, `:1984-1996`).

*Workspace.*

* The tile under the hand moves: `web/mosaic.js:68-72` and `SPECS.md:181-182` say that it
  never does, `mosaic.js:190-192` and `SPECS.md:186-189` that a tile lands exactly where
  its ghost is. It is never pushed, but it rises with the others: when it is made
  narrower, when a tile above it leaves, when it is dropped over a hole
  (`MosaicSteady`).
* `SPECS.md:176-177` says that a layout is carried as it is from one station to another.
  Tiles are created one by one and rise before those above them exist
  (`web/app.js:1338-1419`): a layout may be rearranged when it is read back, once
  (`ReadBack`).
* `SPECS.md:451` has the session saved continuously. "Copier vers" of a series
  (`web/chart.js:1267-1277`) and the variable that forcing brings into a table
  (`web/app.js:983-985`) arm no save: what they add is missing after a reload if nothing
  else is done (`EveryGestureSaved`).
* `SPECS.md:92-94` has what is moved keep its configuration. The row of a table dragged
  elsewhere loses its name (`web/app.js:668-687`; `NamesKept`). A table moved to another
  tab loses its curves, against `SPECS.md:81-83`: it is closed before it is made again,
  and the source forgets those that no other tile shows (`web/app.js:473-484`;
  `KeepsHistory`).

*Configuration, pages, campaigns, layouts.*

* An identifier half typed is dropped at the next save; « Annuler » whose reading
  fails keeps the edits and switches to the browser's configuration; a window whose
  link is gone goes on editing nothing; of two stations the last PUT wins;
  « Points… » crossed with « Annuler » leaves an orphan link.
  `src/tools/bench.mjs` has another read-modify-write of the same list.
* A failed refresh of the capture page replaces its forms while `form` stays true:
  they cannot be reached any more (`web/network.js:64-69`, `:229`).
* The interval of the audit does not die with its page, against the comment of
  `web/network.js:65`, when the text of the report takes its place: at its next turn it
  closes that text, or whatever page or window was opened since, with what is typed
  there (`:46`, `:66`). `TypedKept` is about forms that stay open.
* A page that opens POSTs the start of the campaigns of its session, and restarts
  them (against `web/app.js:3018-3022` and `SPECS.md:525-526`); a failed reading of
  the status counts as an empty list; names that are the same once cleaned are one
  campaign; a failed stop puts the dot out all the same.
* Closing the reset window during the erasing stops nothing, and its boxes stay
  live; « vierge » without the new navigation opens the same tabs again; a pending
  save of the session brings the tabs back.
* At start the session comes before the starred layout (`web/app.js:2999`), where
  `SPECS.md:455-456` has the session only when no layout is starred (`:465` says what
  the code does); a save is announced even if localStorage refuses it; layouts saved
  on the controller cannot be opened from the page; `configCsv` reads `data.table`
  (`web/store.js:185`) where `serializeConfig` writes `tables` (`web/app.js:1161`).

## What is not modelled

* The encodings: HTTP, WebSocket frames, JSON, the drivers' frames, CSV quoting;
  the drivers other than the two above, and the parsers of addresses (routing in
  `CompositeSource` is by model values).
* In `Links`, POST /api/protocols/test, which opens a driver of its own.
* In `Journal`, several variables per campaign, the rendering by variable, the
  deletion of a journal, and a file of a former format that cannot be renamed
  (`server/recorder.hpp:97` ignores the failure and appends to it).
* In `Capture`, the listing of interfaces, the filter given to tcpdump, two saves of
  the settings at the same instant, and the rounding of what a capture may write to
  megabytes, one at least (`server/capture.hpp:223-224`). In `Config`, two calls under way at once.
* In `Campaign`, the delay of the save of the session.
* The log of screens, the appearance, LLDP and interfaces on the server; drawing,
  menus, presentation, translation, CSV exports in the page; the test bench, the
  packaging and the built pages.

## Plan

Done: the components above, their runs, the theorems of eight modules: every safety
invariant that a run checks but two.

1. `WorkspaceSound` and `GesturesKept` of `Workspace`, then `MosaicSettled`, which
   needs what a pass of the layout leaves where it is.
2. CANopen and Modbus behind `Links`, with the deadline of an SDO transaction.
3. Several variables per campaign in `Journal`.
4. That a window which closes loses no tile the other one holds, in `Move`.
