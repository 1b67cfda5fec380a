------------------------------ MODULE Capture ------------------------------
(***************************************************************************)
(* Packet captures (capture.hpp, CaptureManager): tcpdump processes, the   *)
(* files they write, the disk quota and the trigger that follows a         *)
(* variable.                                                               *)
(*                                                                         *)
(* HTTP requests start, stop and delete captures and set quota and         *)
(* trigger; the maintenance thread calls service() four times a second.    *)
(* Each takes the mutex for the whole of its work, hence one step, but for *)
(* service(), which starts a triggered capture after it has let the mutex  *)
(* go, and for the configuration, whose quota is set before and outside.   *)
(* The directory and the settings file survive a restart, the clock of the *)
(* server starts again from zero and systemd kills the children.           *)
(*                                                                         *)
(* A capture is identified by its file name, <<interface, second of its    *)
(* start>>; `k` numbers the captures of this start of the server, 0 for those of    *)
(* before: a ghost that tells two captures of the same name apart.         *)
(***************************************************************************)
EXTENDS Integers, FiniteSetsExt

CONSTANTS
    Ifaces,     \* network interfaces of the machine
    Addrs,      \* variables a trigger may name
    Known,      \* ... that the sources accept to subscribe
    Values,     \* their values
    Quotas,     \* values of the quota, in units of file size
    Durations,  \* durations asked for, in seconds; 0 is "until stopped"
    Triggers,   \* the triggers a client may set
    NoTrigger,  \* the trigger of a first start, disabled
    MaxSec,     \* bound: seconds after a start of the server
    MaxRuns,    \* bound: captures started
    None

Id == Ifaces \X (0..MaxSec)

\* Trigger: [enabled, addr, on, iface, dur]; `on` is the set of values for which
\* mode and threshold say "active".
Trigger == [enabled : BOOLEAN, addr : Addrs \cup {None}, on : SUBSET Values,
            iface : Ifaces, dur : Durations]

ASSUME CaptureAssumption ==
    /\ Known \subseteq Addrs /\ None \notin Addrs \cup Ifaces \cup Nat
    /\ Quotas \subseteq Nat \ {0} /\ Durations \subseteq Nat
    /\ IsFiniteSet(Ifaces) /\ IsFiniteSet(Quotas)  \* set_quota clamps
    /\ Triggers \subseteq Trigger /\ NoTrigger \in Trigger /\ ~ NoTrigger.enabled
    /\ MaxSec \in Nat /\ MaxRuns \in Nat

VARIABLES
    clock,      \* seconds since the start of the server
    runs,       \* runs_
    files,      \* the .pcap files: id -> size, or None
    started,    \* captures started so far
    quota,      \* quota_
    trig,       \* trigger_
    armed,      \* trigger_.armed
    observed,   \* abonne_: the variable really subscribed, or None
    seen,       \* valeur_ when vue_, else None
    current,    \* the last sample of each variable subscribed to, None before one
    saved,      \* reglages.json: quota and trigger
    config,     \* the trigger of a configuration request whose quota is set
    launch      \* what service() starts after letting the mutex go

vars == <<clock, runs, files, started, quota, trig, armed, observed, seen,
          current, saved, config, launch>>
captureVars == <<runs, files, started>>
triggerVars == <<trig, armed, observed, seen, saved, config>>

NoLaunch == [iface |-> None, dur |-> 0, at |-> 0]
NoConfig == [pending |-> FALSE, trigger |-> NoTrigger]

Running(r) == r.state = "running"

\* occupe(): the size of all the .pcap files.
Occupied == MapThenSumSet(LAMBDA id : files[id], {id \in Id : files[id] # None})

Ended(r) == [r EXCEPT !.state = "ended", !.exited = FALSE]
EndAll(S, which(_)) == {IF Running(r) /\ which(r) THEN Ended(r) ELSE r : r \in S}

-----------------------------------------------------------------------------
\* ------------------------------------------------------ demarrer, arreter, ...

\* demarrer refuses a second capture of an interface, or a full disk.
MayStart(iface) ==
    /\ \A r \in runs : ~ (Running(r) /\ r.iface = iface)
    /\ Occupied < quota

\* Variant: each capture may fill the quota by itself.
StartRunsFull(iface, dur, at) ==
    /\ MayStart(iface) /\ started < MaxRuns
    /\ started' = started + 1
    /\ runs' = runs \cup {[k |-> started + 1, id |-> <<iface, at>>, iface |-> iface,
                           state |-> "running", dur |-> dur, at |-> at,
                           exited |-> FALSE, cap |-> quota]}
    /\ files' = [files EXCEPT ![<<iface, at>>] = 0]

\* tcpdump runs: it has truncated its file and writes at most what was left.
StartRuns(iface, dur, at) ==
    /\ MayStart(iface) /\ started < MaxRuns
    /\ started' = started + 1
    /\ runs' = runs \cup {[k |-> started + 1, id |-> <<iface, at>>, iface |-> iface,
                           state |-> "running", dur |-> dur, at |-> at,
                           exited |-> FALSE, cap |-> quota - Occupied]}
    /\ files' = [files EXCEPT ![<<iface, at>>] = 0]

\* tcpdump dies within 150 ms: its file goes, the capture is not recorded.
StartDies(iface, at) ==
    /\ MayStart(iface)
    /\ files' = [files EXCEPT ![<<iface, at>>] = None]
    /\ UNCHANGED <<runs, started>>

StartRefused(iface) == ~ MayStart(iface) /\ UNCHANGED captureVars

Demarrer(iface, dur, at) ==
    StartRuns(iface, dur, at) \/ StartDies(iface, at) \/ StartRefused(iface)

ClientStart(iface, dur) ==
    /\ Demarrer(iface, dur, clock)
    /\ UNCHANGED <<clock, quota, triggerVars, current, launch>>

\* arreter: SIGINT, then SIGKILL, to the capture named, or to all of them.
ClientStop(id) ==
    /\ \E r \in runs : Running(r) /\ id \in {None, r.id}
    /\ runs' = EndAll(runs, LAMBDA r : id \in {None, r.id})
    /\ UNCHANGED <<clock, files, started, quota, triggerVars, current, launch>>

\* supprimer: never the file of a capture that runs.
ClientDelete(id) ==
    /\ files[id] # None \/ \E r \in runs : r.id = id
    /\ \A r \in runs : ~ (r.id = id /\ Running(r))
    /\ files' = [files EXCEPT ![id] = None]
    /\ runs' = {r \in runs : r.id # id}
    /\ UNCHANGED <<clock, started, quota, triggerVars, current, launch>>

\* tcpdump writes; at its cap (-C, -W 1) it starts its file again.
Grow(r) ==
    /\ Running(r) /\ ~ r.exited
    /\ files' = [files EXCEPT ![r.id] = IF @ < r.cap THEN @ + 1 ELSE 0]
    /\ UNCHANGED <<clock, runs, started, quota, triggerVars, current, launch>>

\* tcpdump ends by itself, of a full disk or a lost interface.
Exits(r) ==
    /\ Running(r) /\ ~ r.exited
    /\ runs' = (runs \ {r}) \cup {[r EXCEPT !.exited = TRUE]}
    /\ UNCHANGED <<clock, files, started, quota, triggerVars, current, launch>>

-----------------------------------------------------------------------------
\* --------------------------------------------------- quota and trigger

\* set_quota, which saves the settings with the trigger of the moment ...
ConfigQuota(q, t) ==
    /\ ~ config.pending
    /\ quota' = q
    /\ saved' = [quota |-> q, trigger |-> trig]
    /\ config' = [pending |-> TRUE, trigger |-> t]
    /\ UNCHANGED <<clock, captureVars, trig, armed, observed, seen, current, launch>>

\* ... then set_trigger.  It returns early when the variable to observe stays
\* the same; otherwise it subscribes, if the source accepts, and saves.
Wanted(t) == IF t.enabled /\ t.addr # None THEN t.addr ELSE None

\* Variant: the settings are saved by the quota only.
ConfigTriggerUnsaved ==
    /\ config.pending
    /\ LET t == config.trigger
           taken == IF Wanted(t) \in Known THEN Wanted(t) ELSE None IN
       /\ trig' = t /\ observed' = taken
       /\ armed' = (armed /\ (Wanted(t) = observed \/ taken = None))
    /\ config' = NoConfig
    /\ UNCHANGED <<clock, captureVars, quota, seen, saved, current, launch>>

\* set_trigger.
ConfigTrigger ==
    /\ config.pending
    /\ LET t == config.trigger
           taken == IF Wanted(t) \in Known THEN Wanted(t) ELSE None IN
       /\ trig' = t
       /\ IF Wanted(t) = observed
          THEN UNCHANGED <<observed, armed, saved>>
          ELSE /\ observed' = taken
               /\ armed' = (armed /\ taken = None)
               /\ saved' = [quota |-> quota, trigger |-> t]
    /\ config' = NoConfig
    /\ UNCHANGED <<clock, captureVars, quota, seen, current, launch>>

\* The variables live their life.
NewSample(a, v) ==
    /\ current[a] # v
    /\ current' = [current EXCEPT ![a] = v]
    /\ UNCHANGED <<clock, captureVars, quota, triggerVars, launch>>

-----------------------------------------------------------------------------
\* ---------------------------------------------------------------- service

\* What has ended by itself, then what has lasted its time.
Expired(r) == r.exited \/ (r.dur > 0 /\ clock - r.at >= r.dur)
AfterTime == EndAll(runs, Expired)

\* Past the quota every capture stops.
AfterQuota == IF Occupied < quota THEN AfterTime ELSE EndAll(AfterTime, LAMBDA r : TRUE)

\* appliquer_trigger: on a rising edge a capture is to be started, on a falling
\* edge those of the interface end.
Watching == trig.enabled /\ observed # None

\* Variant: the first value decides for ever.
LastSeenKept == IF seen # None THEN seen ELSE IF Watching THEN current[observed] ELSE None

\* valeur_, after read().
LastSeen == IF Watching /\ current[observed] # None THEN current[observed] ELSE seen
Active == LastSeen \in trig.on

Service ==
    /\ launch = NoLaunch
    /\ UNCHANGED <<clock, files, started, quota, trig, observed, saved, config, current>>
    /\ seen' = LastSeen
    /\ IF Watching /\ LastSeen # None /\ Active # armed
       THEN /\ armed' = Active
            /\ launch' = IF Active
                         THEN [iface |-> trig.iface, dur |-> trig.dur, at |-> clock]
                         ELSE NoLaunch
            /\ runs' = IF Active THEN AfterQuota
                       ELSE EndAll(AfterQuota, LAMBDA r : r.iface = trig.iface)
       ELSE /\ runs' = AfterQuota
            /\ UNCHANGED <<armed, launch>>

\* The mutex was let go in between: demarrer checks everything again.
ServiceLaunch ==
    /\ launch # NoLaunch
    /\ Demarrer(launch.iface, launch.dur, launch.at)
    /\ launch' = NoLaunch
    /\ UNCHANGED <<clock, quota, triggerVars, current>>

Tick ==
    /\ clock < MaxSec
    /\ clock' = clock + 1
    /\ UNCHANGED <<captureVars, quota, triggerVars, current, launch>>

-----------------------------------------------------------------------------
\* charger: the settings come back and the trigger subscribes again.
Resume(s) ==
    /\ quota' = s.quota /\ trig' = s.trigger
    /\ observed' = IF Wanted(s.trigger) \in Known THEN Wanted(s.trigger) ELSE None
    /\ armed' = FALSE /\ seen' = None

\* The service stops or crashes, and starts again: relire_fichiers lists what is
\* on the disk.
Restart ==
    /\ clock' = 0
    /\ runs' = {[k |-> 0, id |-> id, iface |-> id[1], state |-> "ended",
                 dur |-> 0, at |-> 0, exited |-> FALSE, cap |-> 0]
                : id \in {i \in Id : files[i] # None}}
    /\ Resume(saved)
    /\ config' = NoConfig /\ launch' = NoLaunch
    /\ current' = [a \in Known |-> None]
    /\ UNCHANGED <<files, started, saved>>

Init ==
    /\ clock = 0 /\ runs = {} /\ started = 0
    /\ files = [id \in Id |-> None]
    /\ quota \in Quotas /\ saved = [quota |-> quota, trigger |-> NoTrigger]
    /\ trig = NoTrigger /\ armed = FALSE /\ observed = None /\ seen = None
    /\ current = [a \in Known |-> None]
    /\ config = NoConfig /\ launch = NoLaunch

Next ==
    \/ \E iface \in Ifaces, dur \in Durations : ClientStart(iface, dur)
    \/ \E id \in Id \cup {None} : ClientStop(id)
    \/ \E id \in Id : ClientDelete(id)
    \/ \E r \in runs : Grow(r) \/ Exits(r)
    \/ \E q \in Quotas, t \in Triggers : ConfigQuota(q, t)
    \/ ConfigTrigger
    \/ \E a \in Known, v \in Values : NewSample(a, v)
    \/ Service \/ ServiceLaunch
    \/ Tick \/ Restart

Spec == Init /\ [][Next]_vars

-----------------------------------------------------------------------------
Run == [k : 0..MaxRuns, id : Id, iface : Ifaces, state : {"running", "ended"},
        dur : Nat, at : 0..MaxSec, exited : BOOLEAN, cap : Nat]

TypeOK ==
    /\ clock \in 0..MaxSec /\ started \in 0..MaxRuns
    /\ runs \subseteq Run
    /\ files \in [Id -> Nat \cup {None}]
    /\ quota \in Quotas /\ trig \in Trigger /\ armed \in BOOLEAN
    /\ observed \in Known \cup {None} /\ seen \in Values \cup {None}
    /\ current \in [Known -> Values \cup {None}]
    /\ saved \in [quota : Quotas, trigger : Trigger]
    /\ config \in [pending : BOOLEAN, trigger : Trigger]
    /\ launch \in [iface : Ifaces \cup {None}, dur : Nat, at : 0..MaxSec]

\* Two captures never run on the same interface, though the trigger decides to
\* start one under the mutex and starts it after letting it go.
OnePerInterface ==
    \A r, s \in runs : Running(r) /\ Running(s) /\ r.iface = s.iface => r = s

\* Every file that counts against the quota is listed, hence can be deleted;
\* and a capture that runs has its file, whatever was deleted or restarted.
FilesAreListed ==
    /\ \A id \in Id : files[id] # None => \E r \in runs : r.id = id
    /\ \A r \in runs : Running(r) => files[r.id] # None

\* After a pass of the maintenance thread nothing runs past the quota, nor past
\* the duration that was asked.
NothingOverstays ==
    [][Service => \A r \in runs' : Running(r) =>
                     /\ Occupied < quota /\ ~ r.exited
                     /\ r.dur > 0 => clock - r.at < r.dur]_vars

\* The variable observed will be observed after a restart: whatever sequence of
\* configurations, refused subscriptions and early returns led to it.
ObservedSurvives == observed # None => Wanted(saved.trigger) = observed

\* Every pass of the maintenance thread follows the variable observed: it starts
\* a capture when it finds it active and the last pass did not, never again
\* while it stays so, and leaves none on the interface when it falls back.
TriggerFollows ==
    [][Service /\ Watching /\ current[observed] # None =>
          LET active == current[observed] \in trig.on IN
          /\ armed' = active
          /\ launch' # NoLaunch <=> active /\ ~ armed
          /\ armed /\ ~ active => ~ \E r \in runs' : Running(r) /\ r.iface = trig.iface]_vars

\* What a pass of the maintenance thread leaves.
ServiceSound == NothingOverstays /\ TriggerFollows

\* Even if the maintenance thread never came back, what tcpdump may still write
\* keeps the disk within one quota per interface: however captures started, ended,
\* were deleted or restarted, and whatever the quota was meanwhile.
Growth ==
    LET work == {r \in runs : Running(r)}
        left == [r \in work |-> r.cap - files[r.id]]
    IN MapThenSumSet(LAMBDA r : left[r], work)
DiskBounded == Occupied + Growth <= Cardinality(Ifaces) * Max(Quotas)

\* What is on the disk is known and bounded (quota, list and delete).
DiskInHand == TypeOK /\ FilesAreListed /\ DiskBounded

\* The trigger neither doubles a capture nor forgets its variable (service,
\* configure).
TriggerSound == OnePerInterface /\ ObservedSurvives

\* What the comment of enregistrer() promises ("Le declencheur et le quota
\* survivent au redemarrage"): between two requests, the settings on the disk
\* are the settings in force.
SettingsSurvive ==
    ~ config.pending => saved = [quota |-> quota, trigger |-> trig]
=============================================================================
