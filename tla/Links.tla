------------------------------- MODULE Links -------------------------------
(***************************************************************************)
(* The life of the network links (protocol_source.hpp, ProtocolSource).    *)
(*                                                                         *)
(* Each enabled link has a thread, its runner, that opens the driver,      *)
(* serves it, publishes samples and reports its state until its stop flag  *)
(* is up.  PUT /api/protocols replaces the whole configuration: under      *)
(* apply_mu_ it raises the flags, joins the threads, rebuilds channels and *)
(* states and starts the new runners; then, outside that mutex, it saves   *)
(* the configuration for the next start of the server.                     *)
(*                                                                         *)
(* Every critical section of mu_, every read of a stop flag and every file *)
(* operation is one step.  The state "up" stands for "sim" as well, its    *)
(* name under --sim-protocols.  A configuration is what from_json makes of *)
(* a request; to_json writes it so that from_json reads the same back.     *)
(***************************************************************************)
EXTENDS Naturals, FiniteSets

CONSTANTS
    Links,      \* link identifiers
    Working,    \* settings of an enabled link whose protocol has a driver
    Declared,   \* ... whose driver is declared but not implemented
    Unknown,    \* ... whose protocol is unknown
    Disabled,   \* settings of a disabled link
    Absent,     \* a link that the configuration does not have
    Configs,    \* the configurations that clients may send
    Demo,       \* the configuration of --sim-links, None without the option
    Clients,    \* the clients of PUT /api/protocols
    Boot,       \* the main thread, which applies the saved configuration
    None

Enabled == Working \cup Declared \cup Unknown
Setting == Enabled \cup Disabled
Config == [Links -> Setting \cup {Absent}]
NoLink == [l \in Links |-> Absent]
Procs == Clients \cup {Boot}

ASSUME LinksAssumption ==
    /\ Absent \notin Setting /\ None \notin Working /\ None \notin Procs
    /\ Working \cap (Declared \cup Unknown) = {} /\ Enabled \cap Disabled = {}
    /\ Configs \subseteq Config /\ Demo \in Configs \cup {None}
    /\ Boot \notin Clients

VARIABLES
    config,     \* config_
    status,     \* status_: link -> its entry, or NoStatus
    chan,       \* link -> the settings under which the samples held were published
    runner,     \* link -> its thread
    put,        \* process -> where its apply-and-save is
    lock,       \* who holds apply_mu_
    file,       \* protocols.json: absent, empty, torn or holding a configuration
    raced       \* ghost: the last save may have overlapped another request

vars == <<config, status, chan, runner, put, lock, file, raced>>

\* `by` is the setting whose runner last reported the counters, `warn` (ghost)
\* tells a warning of the present attempt from one of an earlier attempt.
NoStatus == [state |-> "none", tried |-> FALSE, warn |-> "no", by |-> None]
NoRunner == [pc |-> "none", stop |-> FALSE, cfg |-> Absent]
NoPut == [pc |-> "idle", cfg |-> NoLink]

\* What protocols.json holds; only `Holding` can be read back.
File(state) == [state |-> state, cfg |-> NoLink]
Holding(cfg) == [state |-> "whole", cfg |-> cfg]

Has(cfg, l) == cfg[l] # Absent

-----------------------------------------------------------------------------
\* ------------------------------------------- what a runner tells the source

\* set_status: an entry is created when there is none; a warning belongs to
\* the state that produced it.
SetStatus(l, s) ==
    status' = [status EXCEPT ![l].state = s,
                             ![l].warn = IF status[l].state = s THEN @ ELSE "no"]

\* set_warning and report do nothing for a link that has no entry.
Warn(l) ==
    /\ runner[l].pc \in {"open", "serve"}
    /\ status[l].state # "none"
    /\ status' = [status EXCEPT ![l].warn = "now"]
    /\ UNCHANGED <<config, chan, runner, put, lock, file, raced>>

\* push: a sample for a point that has a channel.
Publish(l) ==
    /\ runner[l].pc \in {"open", "serve"}
    /\ Has(config, l)
    /\ chan' = [chan EXCEPT ![l] = @ \cup {runner[l].cfg}]
    /\ UNCHANGED <<config, status, runner, put, lock, file, raced>>

\* Twice a second at most, after a publication.
Report(l) ==
    /\ runner[l].pc \in {"open", "serve"}
    /\ chan[l] # {} /\ status[l].state # "none"
    /\ status' = [status EXCEPT ![l].by = runner[l].cfg]
    /\ UNCHANGED <<config, chan, runner, put, lock, file, raced>>

-----------------------------------------------------------------------------
\* ------------------------------------------------------- the runner's thread

\* From pc `from` to pc `to`.
Go(l, from, to) ==
    /\ runner[l].pc = from
    /\ runner' = [runner EXCEPT ![l].pc = to]

\* while (!raw->stop), then make_driver.
Top(l) ==
    /\ Go(l, "top", IF runner[l].stop THEN "exit" ELSE "make")
    /\ UNCHANGED <<config, status, chan, put, lock, file, raced>>

\* An unknown protocol, or a declared one: the thread ends there.
Undrivable(l) ==
    /\ runner[l].cfg \notin Working
    /\ Go(l, "make", "exit")
    /\ SetStatus(l, IF runner[l].cfg \in Declared THEN "todo" ELSE "down")
    /\ UNCHANGED <<config, chan, put, lock, file, raced>>

\* bump_attempt, then open().
Attempt(l) ==
    /\ runner[l].cfg \in Working
    /\ Go(l, "make", "open")
    /\ status' = IF status[l].state = "none" THEN status
                 ELSE [status EXCEPT ![l].tried = TRUE,
                                     ![l].warn = IF @ = "now" THEN "old" ELSE @]
    /\ UNCHANGED <<config, chan, put, lock, file, raced>>

Opened(l) ==
    /\ Go(l, "open", "opened")
    /\ UNCHANGED <<config, status, chan, put, lock, file, raced>>

Refused(l) ==
    /\ Go(l, "open", "refused")
    /\ UNCHANGED <<config, status, chan, put, lock, file, raced>>

SayUp(l) ==
    /\ Go(l, "opened", "loop")
    /\ SetStatus(l, "up")
    /\ UNCHANGED <<config, chan, put, lock, file, raced>>

SayRefused(l) ==
    /\ Go(l, "refused", "sleep")
    /\ SetStatus(l, "down")
    /\ UNCHANGED <<config, chan, put, lock, file, raced>>

\* Variant: the flag is not looked at while the link works.
LoopDeaf(l) ==
    /\ Go(l, "loop", "serve")
    /\ UNCHANGED <<config, status, chan, put, lock, file, raced>>

\* while (!raw->stop) around service().
Loop(l) ==
    /\ Go(l, "loop", IF runner[l].stop THEN "close" ELSE "serve")
    /\ UNCHANGED <<config, status, chan, put, lock, file, raced>>

Served(l) ==
    /\ Go(l, "serve", "loop")
    /\ UNCHANGED <<config, status, chan, put, lock, file, raced>>

\* Variant: the loss is not reported.
LostSilently(l) ==
    /\ Go(l, "serve", "close")
    /\ UNCHANGED <<config, status, chan, put, lock, file, raced>>

\* service() returns false.
Lost(l) ==
    /\ Go(l, "serve", "lost")
    /\ UNCHANGED <<config, status, chan, put, lock, file, raced>>

SayLost(l) ==
    /\ Go(l, "lost", "close")
    /\ SetStatus(l, "down")
    /\ UNCHANGED <<config, chan, put, lock, file, raced>>

\* Variant: a lost link is given up.
CloseForGood(l) ==
    /\ Go(l, "close", "exit")
    /\ UNCHANGED <<config, status, chan, put, lock, file, raced>>

\* close(), then the back-off unless the link is stopped.
Close(l) ==
    /\ Go(l, "close", IF runner[l].stop THEN "top" ELSE "sleep")
    /\ UNCHANGED <<config, status, chan, put, lock, file, raced>>

\* sleep_backoff ends with its delay or with the stop flag.
Wake(l) ==
    /\ Go(l, "sleep", "top")
    /\ UNCHANGED <<config, status, chan, put, lock, file, raced>>

RunnerStep(l) ==
    \/ Top(l) \/ Undrivable(l) \/ Attempt(l) \/ Opened(l) \/ Refused(l)
    \/ SayUp(l) \/ SayRefused(l) \/ Loop(l) \/ Served(l) \/ Lost(l)
    \/ SayLost(l) \/ Close(l) \/ Wake(l)

-----------------------------------------------------------------------------
\* -------------------------------------------------------------- PUT and boot

At(p, pc) == put[p].pc = pc
GoTo(p, pc) == put' = [put EXCEPT ![p].pc = pc]

\* A request arrives once the server listens, that is after its own apply.
PutBegin(c, cfg) ==
    /\ At(Boot, "idle") /\ At(c, "idle")
    /\ put' = [put EXCEPT ![c] = [pc |-> "lock", cfg |-> cfg]]
    /\ raced' = (\E d \in Clients : ~ At(d, "idle"))
    /\ UNCHANGED <<config, status, chan, runner, lock, file>>

ApplyLock(p) ==
    /\ At(p, "lock") /\ lock = None
    /\ lock' = p
    /\ GoTo(p, "flag")
    /\ UNCHANGED <<config, status, chan, runner, file, raced>>

\* stop_all: every flag, then every join.
RaiseStops(p) ==
    /\ At(p, "flag")
    /\ runner' = [l \in Links |-> IF runner[l].pc = "none" THEN runner[l]
                                  ELSE [runner[l] EXCEPT !.stop = TRUE]]
    /\ GoTo(p, "join")
    /\ UNCHANGED <<config, status, chan, lock, file, raced>>

JoinAll(p) ==
    /\ At(p, "join")
    /\ \A l \in Links : runner[l].pc \in {"none", "exit"}
    /\ runner' = [l \in Links |-> [runner[l] EXCEPT !.pc = "none"]]
    /\ GoTo(p, "swap")
    /\ UNCHANGED <<config, status, chan, lock, file, raced>>

\* Variant: the channels are kept.
SwapKeeping(p) ==
    /\ At(p, "swap")
    /\ config' = put[p].cfg
    /\ status' = [l \in Links |->
                     IF ~ Has(put[p].cfg, l) THEN NoStatus
                     ELSE [NoStatus EXCEPT !.state = IF put[p].cfg[l] \in Enabled
                                                     THEN "down" ELSE "off"]]
    /\ GoTo(p, "start")
    /\ UNCHANGED <<chan, runner, lock, file, raced>>

\* Under mu_: the configuration, the channels and the states are new.
Swap(p) ==
    /\ At(p, "swap")
    /\ config' = put[p].cfg
    /\ chan' = [l \in Links |-> {}]
    /\ status' = [l \in Links |->
                     IF ~ Has(put[p].cfg, l) THEN NoStatus
                     ELSE [NoStatus EXCEPT !.state = IF put[p].cfg[l] \in Enabled
                                                     THEN "down" ELSE "off"]]
    /\ GoTo(p, "start")
    /\ UNCHANGED <<runner, lock, file, raced>>

\* start_all, one thread after the other ...
Start(p, l) ==
    /\ At(p, "start")
    /\ config[l] \in Enabled /\ runner[l].pc = "none"
    /\ runner' = [runner EXCEPT ![l] = [pc |-> "top", stop |-> FALSE, cfg |-> config[l]]]
    /\ UNCHANGED <<config, status, chan, put, lock, file, raced>>

\* Variant: the configuration applied is not saved.
AppliedUnsaved(p) ==
    /\ At(p, "start")
    /\ \A l \in Links : config[l] \in Enabled => runner[l].pc # "none"
    /\ lock' = None
    /\ put' = [put EXCEPT ![p] = NoPut]
    /\ UNCHANGED <<config, status, chan, runner, file, raced>>

\* ... then apply returns, and a request goes on to save.
Applied(p) ==
    /\ At(p, "start")
    /\ \A l \in Links : config[l] \in Enabled => runner[l].pc # "none"
    /\ lock' = None
    /\ GoTo(p, IF p = Boot THEN "idle" ELSE "save")
    /\ UNCHANGED <<config, status, chan, runner, file, raced>>

\* save_protocols opens the file and truncates it ...
SaveOpen(c) ==
    /\ At(c, "save")
    /\ file' = File("empty")
    /\ GoTo(c, "write")
    /\ UNCHANGED <<config, status, chan, runner, lock, raced>>

\* ... and writes from its beginning.  Over what another request wrote since,
\* the tail of a longer text may remain.
SaveWrite(c) ==
    /\ At(c, "write")
    /\ \/ file' = Holding(put[c].cfg)
       \/ file \notin {File("empty"), Holding(put[c].cfg)} /\ file' = File("torn")
    /\ put' = [put EXCEPT ![c] = NoPut]
    /\ UNCHANGED <<config, status, chan, runner, lock, raced>>

\* load_protocols; an absent file is replaced by the demonstration links, an
\* unreadable one is ignored.
AfterLoad(f) == IF f.state = "absent" /\ Demo # None THEN Holding(Demo) ELSE f
Loaded(f) == f.cfg

\* The process ends at any moment, and systemd starts it again.
Crash ==
    /\ config' = NoLink
    /\ status' = [l \in Links |-> NoStatus]
    /\ chan' = [l \in Links |-> {}]
    /\ runner' = [l \in Links |-> NoRunner]
    /\ file' = AfterLoad(file)
    /\ put' = [p \in Procs |-> IF p = Boot THEN [pc |-> "lock", cfg |-> Loaded(AfterLoad(file))]
                               ELSE NoPut]
    /\ lock' = None
    /\ raced' = FALSE

Init ==
    /\ file = AfterLoad(File("absent"))
    /\ config = NoLink
    /\ status = [l \in Links |-> NoStatus]
    /\ chan = [l \in Links |-> {}]
    /\ runner = [l \in Links |-> NoRunner]
    /\ put = [p \in Procs |-> IF p = Boot THEN [pc |-> "lock", cfg |-> Loaded(file)]
                              ELSE NoPut]
    /\ lock = None
    /\ raced = FALSE

ApplyStep(p) ==
    \/ ApplyLock(p) \/ RaiseStops(p) \/ JoinAll(p) \/ Swap(p) \/ Applied(p)
    \/ \E l \in Links : Start(p, l)

SaveStep(c) == SaveOpen(c) \/ SaveWrite(c)

Next ==
    \/ \E l \in Links : RunnerStep(l) \/ Warn(l) \/ Publish(l) \/ Report(l)
    \/ \E c \in Clients, cfg \in Configs : PutBegin(c, cfg)
    \/ \E p \in Procs : ApplyStep(p)
    \/ \E c \in Clients : SaveStep(c)
    \/ Crash

Spec == Init /\ [][Next]_vars

\* Every thread keeps running, and the calls a runner makes return: drivers
\* bound open() and service() by timeouts.  No client has to send anything, no
\* driver has to publish, and the mutex promises no turn.
Fairness ==
    /\ \A l \in Links : WF_vars(RunnerStep(l))
    /\ \A p \in Procs : WF_vars(ApplyStep(p))
    /\ \A c \in Clients : WF_vars(SaveStep(c))

FairSpec == Spec /\ Fairness

-----------------------------------------------------------------------------
States == {"none", "off", "down", "up", "todo"}

TypeOK ==
    /\ config \in Config
    /\ status \in [Links -> [state : States, tried : BOOLEAN,
                             warn : {"no", "now", "old"}, by : Setting \cup {Absent, None}]]
    /\ chan \in [Links -> SUBSET (Setting \cup {Absent})]
    /\ runner \in [Links ->
          [pc : {"none", "top", "make", "open", "opened", "refused", "loop", "serve",
                 "lost", "close", "sleep", "exit"},
           stop : BOOLEAN, cfg : Setting \cup {Absent}]]
    /\ put \in [Procs -> [pc : {"idle", "lock", "flag", "join", "swap", "start", "save", "write"},
                          cfg : Config]]
    /\ lock \in Procs \cup {None}
    /\ file \in [state : {"absent", "empty", "torn", "whole"}, cfg : Config]
    /\ raced \in BOOLEAN

\* A link shown "up" has its driver open, unless its runner was told to stop:
\* no state outlives the connection it describes.
DriverOpen(l) == runner[l].pc \in {"loop", "serve", "lost", "close"}
UpIsOpen ==
    \A l \in Links : status[l].state = "up" => DriverOpen(l) \/ runner[l].stop

\* What is shown and kept belongs to the configuration in force: a state for
\* each of its links and no other, samples and counters published under its
\* settings, and no thread running under others unless it was told to stop.
OnlyCurrentConfig ==
    \A l \in Links :
       /\ status[l].state # "none" <=> Has(config, l)
       /\ chan[l] \subseteq {config[l]}
       /\ status[l].by \in {None, config[l]}
       /\ runner[l].pc # "none" /\ ~ runner[l].stop => runner[l].cfg = config[l]

\* A link shown "up" was opened under this configuration, and the warning next
\* to it comes from this very connection, not from one it has lost since.
StatusOfThisSession ==
    \A l \in Links : status[l].state = "up" => status[l].tried /\ status[l].warn # "old"

\* What a client is told of a link is so: "up" is a driver that is open, under
\* this configuration, with the warning of this connection (states()).
UpMeansUp == TypeOK /\ UpIsOpen /\ StatusOfThisSession

\* Once no request is in progress, the server would come back with the links it
\* has, unless two requests overlapped - through any crash and restart.
Quiet == \A p \in Procs : At(p, "idle")
LonePutPersists == Quiet /\ ~ raced => config = Loaded(file)

\* A request that got apply_mu_ ends: whatever the threads are doing when their
\* flags are raised, the joins return.
ApplyEnds == \A p \in Procs : At(p, "flag") ~> ~ At(p, "flag") /\ lock # p

\* A link that was refused or lost is tried again, unless it is stopped.
KeepsTrying ==
    \A l \in Links :
       runner[l].pc \in {"refused", "lost"} ~> runner[l].pc = "open" \/ runner[l].stop
                                               \/ runner[l].pc = "none"
=============================================================================
