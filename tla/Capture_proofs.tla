--------------------------- MODULE Capture_proofs ---------------------------
(***************************************************************************)
(* Captures: one per interface, each with its file and each file listed;   *)
(* the trigger observes the variable it will observe after a restart; what *)
(* a pass of the maintenance thread leaves; and what the disk may come to. *)
(* For any interfaces, quotas, durations and triggers. Then the pages that *)
(* show them (Pages) and those a page simulates (NetSim).                  *)
(*                                                                         *)
(* Sound says of a set of captures and of the files what the operations    *)
(* rely on: a capture that runs is named after its interface, which is why *)
(* a start, that writes on the file of its interface, or its death, that   *)
(* deletes it, never takes the file of another that runs. Following says   *)
(* that the trigger in force names the variable observed, which is why     *)
(* the quota may save it at any moment.                                    *)
(*                                                                         *)
(* The disk is about sums, of sizes and of what is left to write. They     *)
(* exist by induction on the set they are over, FiniteInduction, which     *)
(* says it of a set of sets where the library says it of a predicate. The  *)
(* bound is inductive once Room is: what a capture may write is at most a  *)
(* quota, so that one that starts adds no more than its interface counts.  *)
(***************************************************************************)
EXTENDS MCCapture, Sequences, FunctionTheorems, FiniteSetTheorems, WellFoundedInduction, TLAPS

\* A capture: its file is named after its interface.
RunOK(r) ==
  /\ r \in [k : 0..MaxRuns, id : Id, iface : Ifaces, state : {"running", "ended"},
            dur : Nat, at : 0..MaxSec, exited : BOOLEAN, cap : {r.cap}]
  /\ r.id[1] = r.iface

\* What is said of the captures S and of the files F.
Sound(S, F) ==
  /\ F \in [Id -> Nat \cup {None}]
  /\ \A r \in S : RunOK(r)
  /\ \A r, s \in S : Running(r) /\ Running(s) /\ r.iface = s.iface => r = s
  /\ \A id \in Id : F[id] # None => \E r \in S : r.id = id
  /\ \A r \in S : Running(r) => F[r.id] # None

LaunchOK(l) == l = NoLaunch \/ l \in [iface : Ifaces, dur : Durations, at : 0..MaxSec]

Typed ==
  /\ clock \in 0..MaxSec /\ started \in 0..MaxRuns
  /\ quota \in Quotas /\ trig \in Trigger /\ armed \in BOOLEAN
  /\ observed \in Known \cup {None}
  /\ saved \in [quota : Quotas, trigger : Trigger]
  /\ config.trigger \in Trigger
  /\ LaunchOK(launch)

Following ==
  observed # None => Wanted(trig) = observed /\ Wanted(saved.trigger) = observed

CInv == Typed /\ Sound(runs, files) /\ Following

-----------------------------------------------------------------------------
(* The operators.                                                          *)

LEMMA NoneIsApart ==
  None \notin Nat /\ None \notin Ifaces /\ None \notin Addrs /\ None \notin Known
  BY CaptureAssumption

LEMMA EndedIs ==
  ASSUME NEW r, RunOK(r)
  PROVE  /\ RunOK(Ended(r)) /\ ~Running(Ended(r))
         /\ Ended(r).id = r.id /\ Ended(r).iface = r.iface
  BY DEF RunOK, Ended, Running

\* T is S with some of its captures ended.
Ends(S, T) ==
  /\ \A x \in T : x \in S \/ \E r \in S : x = Ended(r)
  /\ \A r \in S : r \in T \/ Ended(r) \in T

LEMMA EndsKeeps ==
  ASSUME NEW S, NEW T, NEW F, Sound(S, F), Ends(S, T)
  PROVE  Sound(T, F)
<1>1. \A r \in S : RunOK(r)
  BY DEF Sound
<1>2. \A x \in T : RunOK(x)
  BY <1>1, EndedIs DEF Ends
<1>3. \A x \in T : Running(x) => x \in S
  BY <1>1, EndedIs DEF Ends
<1>4. ASSUME NEW id \in Id, F[id] # None
      PROVE  \E x \in T : x.id = id
  <2>1. PICK r \in S : r.id = id
    BY <1>4 DEF Sound
  <2>2. Ended(r).id = id
    BY <1>1, <2>1, EndedIs
  <2>3. QED
    BY <2>1, <2>2 DEF Ends
<1>5. QED
  BY <1>2, <1>3, <1>4 DEF Sound

\* The end of a duration and the quota end some of the captures.
LEMMA TimeEnds == Ends(runs, AfterTime)
  BY DEF Ends, EndAll, AfterTime

LEMMA QuotaEnds == Ends(AfterTime, AfterQuota)
<1>1. CASE Occupied < quota
  BY <1>1 DEF Ends, AfterQuota
<1>2. CASE ~(Occupied < quota)
  BY <1>2 DEF Ends, AfterQuota, EndAll
<1>3. QED
  BY <1>1, <1>2

\* A capture that starts: it has the interface for itself.
LEMMA StartsSound ==
  ASSUME Sound(runs, files), NEW iface \in Ifaces, NEW r, RunOK(r),
         r.iface = iface, MayStart(iface), r.id \in Id
  PROVE  Sound(runs \cup {r}, [files EXCEPT ![r.id] = 0])
<1> DEFINE F == [files EXCEPT ![r.id] = 0]
<1>1. files \in [Id -> Nat \cup {None}] /\ \A s \in runs : RunOK(s)
  BY DEF Sound
<1>2. /\ F \in [Id -> Nat \cup {None}] /\ F[r.id] = 0
      /\ \A id \in Id : id # r.id => F[id] = files[id]
  BY <1>1
<1>3. 0 # None
  BY NoneIsApart
<1> HIDE DEF F
<1>4. \A s \in runs : Running(s) => s.iface # iface
  BY DEF MayStart
<1>5. \A s, t \in runs \cup {r} : Running(s) /\ Running(t) /\ s.iface = t.iface => s = t
  BY <1>4 DEF Sound
<1>6. \A id \in Id : F[id] # None => \E s \in runs \cup {r} : s.id = id
  BY <1>2 DEF Sound
<1>7. \A s \in runs \cup {r} : Running(s) => F[s.id] # None
  <2>1. \A s \in runs : s.id \in Id
    BY <1>1 DEF RunOK
  <2>2. QED
    BY <1>2, <1>3, <2>1 DEF Sound
<1>8. QED
  BY <1>1, <1>2, <1>5, <1>6, <1>7 DEF Sound, F

\* A file goes with the captures of its name, none of which runs.
LEMMA FileGoes ==
  ASSUME Sound(runs, files), NEW id \in Id, NEW T,
         \A r \in runs : r.id = id => ~Running(r),
         T \subseteq runs, \A r \in runs : r.id # id => r \in T
  PROVE  Sound(T, [files EXCEPT ![id] = None])
<1> DEFINE F == [files EXCEPT ![id] = None]
<1>1. files \in [Id -> Nat \cup {None}] /\ \A s \in runs : RunOK(s)
  BY DEF Sound
<1>2. /\ F \in [Id -> Nat \cup {None}] /\ F[id] = None
      /\ \A i \in Id : i # id => F[i] = files[i]
  BY <1>1
<1> HIDE DEF F
<1>3. \A i \in Id : F[i] # None => \E s \in T : s.id = i
  BY <1>2 DEF Sound
<1>4. \A s \in T : Running(s) => F[s.id] # None
  <2>1. \A s \in runs : s.id \in Id
    BY <1>1 DEF RunOK
  <2>2. QED
    BY <1>2, <2>1 DEF Sound
<1>5. QED
  BY <1>1, <1>2, <1>3, <1>4 DEF Sound, F

\* demarrer, whatever comes of it.
LEMMA DemarrerSound ==
  ASSUME CInv, NEW iface \in Ifaces, NEW dur \in Durations, NEW at \in 0..MaxSec,
         Demarrer(iface, dur, at)
  PROVE  Sound(runs, files)' /\ started' \in 0..MaxRuns
<1>1. Sound(runs, files) /\ started \in 0..MaxRuns
  BY DEF CInv, Typed
<1> DEFINE id == <<iface, at>>
<1>2. id \in Id /\ id[1] = iface
  BY DEF Id
<1>3. CASE StartRuns(iface, dur, at)
  <2> DEFINE c == quota - Occupied
             r == [k |-> started + 1, id |-> id, iface |-> iface, state |-> "running",
                   dur |-> dur, at |-> at, exited |-> FALSE, cap |-> c]
  <2>1. /\ MayStart(iface) /\ started < MaxRuns /\ started' = started + 1
        /\ runs' = runs \cup {r} /\ files' = [files EXCEPT ![id] = 0]
    BY <1>3 DEF StartRuns
  <2>2. started + 1 \in 0..MaxRuns /\ dur \in Nat
    BY <1>1, <2>1, CaptureAssumption
  <2> HIDE DEF c, id
  <2>3. RunOK(r) /\ r.id = id /\ r.iface = iface
    BY <1>2, <2>2 DEF RunOK
  <2> HIDE DEF r
  <2>4. Sound(runs \cup {r}, [files EXCEPT ![r.id] = 0])
    BY <1>1, <1>2, <2>1, <2>3, StartsSound
  <2>5. QED
    BY <2>1, <2>2, <2>3, <2>4 DEF Sound
<1>4. CASE StartDies(iface, at)
  <2>1. MayStart(iface) /\ files' = [files EXCEPT ![id] = None] /\ runs' = runs /\ started' = started
    BY <1>4 DEF StartDies
  <2> HIDE DEF id
  <2>2. ASSUME NEW r \in runs, r.id = id PROVE ~Running(r)
    <3>1. r.iface = iface
      BY <1>1, <1>2, <2>2 DEF Sound, RunOK
    <3>2. QED
      BY <2>1, <3>1 DEF MayStart
  <2>3. Sound(runs, [files EXCEPT ![id] = None])
    BY <1>1, <1>2, <2>2, FileGoes
  <2>4. QED
    BY <1>1, <2>1, <2>3
<1>5. CASE StartRefused(iface)
  BY <1>1, <1>5 DEF StartRefused, captureVars
<1>6. QED
  BY <1>3, <1>4, <1>5 DEF Demarrer

-----------------------------------------------------------------------------
(* The steps.                                                              *)

\* What the trigger and the settings are about stays.
SettingsStay == UNCHANGED <<quota, trig, armed, observed, saved, config>>

LEMMA StartKeeps ==
  ASSUME CInv,
         \/ \E iface \in Ifaces, dur \in Durations : ClientStart(iface, dur)
         \/ ServiceLaunch
  PROVE  CInv'
<1>1. Typed /\ Following
  BY DEF CInv
<1>2. PICK iface \in Ifaces, dur \in Durations, at \in 0..MaxSec : Demarrer(iface, dur, at)
  <2>1. CASE \E iface \in Ifaces, dur \in Durations : ClientStart(iface, dur)
    BY <1>1, <2>1 DEF ClientStart, Typed
  <2>2. CASE ServiceLaunch
    BY <1>1, <2>2 DEF ServiceLaunch, Typed, LaunchOK
  <2>3. QED
    BY <2>1, <2>2
<1>3. SettingsStay /\ clock' = clock /\ (launch' = launch \/ launch' = NoLaunch)
  BY DEF ClientStart, ServiceLaunch, SettingsStay, triggerVars
<1>4. Sound(runs, files)' /\ started' \in 0..MaxRuns
  BY <1>2, DemarrerSound
<1>5. QED
  BY <1>1, <1>3, <1>4 DEF CInv, Typed, LaunchOK, Following, Wanted, SettingsStay

LEMMA StopKeeps ==
  ASSUME CInv, NEW id \in Id \cup {None}, ClientStop(id)
  PROVE  CInv'
<1>1. /\ runs' = EndAll(runs, LAMBDA r : id \in {None, r.id}) /\ files' = files
      /\ SettingsStay /\ UNCHANGED <<clock, launch, started>>
  BY DEF ClientStop, SettingsStay, triggerVars
<1>2. Sound(runs', files)
  <2>1. Ends(runs, runs')
    BY <1>1 DEF Ends, EndAll
  <2>2. QED
    BY <2>1, EndsKeeps DEF CInv
<1>3. QED
  BY <1>1, <1>2 DEF CInv, Typed, Sound, Following, Wanted, SettingsStay

LEMMA DeleteKeeps ==
  ASSUME CInv, NEW id \in Id, ClientDelete(id)
  PROVE  CInv'
<1>1. /\ \A r \in runs : r.id = id => ~Running(r)
      /\ files' = [files EXCEPT ![id] = None] /\ runs' = {r \in runs : r.id # id}
      /\ SettingsStay /\ UNCHANGED <<clock, launch, started>>
  BY DEF ClientDelete, SettingsStay, triggerVars
<1>2. /\ runs' \subseteq runs /\ \A r \in runs : r.id # id => r \in runs'
  BY <1>1
<1>3. Sound(runs, files)
  BY DEF CInv
<1>4. Sound(runs', [files EXCEPT ![id] = None])
  BY <1>1, <1>2, <1>3, FileGoes
<1>5. QED
  BY <1>1, <1>4 DEF CInv, Typed, Sound, Following, Wanted, SettingsStay

LEMMA GrowKeeps ==
  ASSUME CInv, NEW r \in runs, Grow(r)
  PROVE  CInv'
<1>1. /\ files' = [files EXCEPT ![r.id] = IF files[r.id] < r.cap THEN files[r.id] + 1 ELSE 0]
      /\ runs' = runs /\ Running(r)
      /\ SettingsStay /\ UNCHANGED <<clock, launch, started>>
  BY DEF Grow, SettingsStay, triggerVars
<1>2. /\ files \in [Id -> Nat \cup {None}] /\ r.id \in Id /\ files[r.id] # None
  BY <1>1 DEF CInv, Sound, RunOK
<1> DEFINE n == IF files[r.id] < r.cap THEN files[r.id] + 1 ELSE 0
<1>3. n \in Nat /\ n # None
  <2>1. files[r.id] \in Nat
    BY <1>2
  <2>2. n \in Nat
    BY <2>1
  <2>3. QED
    BY <2>2, NoneIsApart
<1> HIDE DEF n
<1>4. /\ files' \in [Id -> Nat \cup {None}]
      /\ \A id \in Id : files'[id] # None <=> files[id] # None
  BY <1>1, <1>2, <1>3 DEF n
<1>5. \A s \in runs : s.id \in Id
  BY DEF CInv, Sound, RunOK
<1>6. Sound(runs', files')
  BY <1>1, <1>4, <1>5 DEF CInv, Sound
<1>7. QED
  BY <1>1, <1>6 DEF CInv, Typed, Sound, Following, Wanted, SettingsStay

LEMMA ExitsKeeps ==
  ASSUME CInv, NEW r \in runs, Exits(r)
  PROVE  CInv'
<1> DEFINE x == [r EXCEPT !.exited = TRUE]
<1>1. /\ runs' = (runs \ {r}) \cup {x} /\ files' = files /\ Running(r)
      /\ SettingsStay /\ UNCHANGED <<clock, launch, started>>
  BY DEF Exits, SettingsStay, triggerVars
<1>2. Sound(runs, files) /\ RunOK(r)
  BY DEF CInv, Sound
<1>3. RunOK(x) /\ x.id = r.id /\ x.iface = r.iface
  BY <1>2 DEF RunOK
<1> HIDE DEF x
\* No other capture runs on the interface of r.
<1>4. \A s \in runs \ {r} : Running(s) => s.iface # r.iface
  BY <1>1, <1>2 DEF Sound
<1>5. \A s, t \in runs' : Running(s) /\ Running(t) /\ s.iface = t.iface => s = t
  BY <1>1, <1>2, <1>3, <1>4 DEF Sound
<1>6. \A id \in Id : files[id] # None => \E s \in runs' : s.id = id
  BY <1>1, <1>2, <1>3 DEF Sound
<1>7. \A s \in runs' : RunOK(s) /\ (Running(s) => files[s.id] # None)
  BY <1>1, <1>2, <1>3 DEF Sound
<1>8. Sound(runs', files)
  BY <1>2, <1>5, <1>6, <1>7 DEF Sound
<1>9. QED
  BY <1>1, <1>8 DEF CInv, Typed, Sound, Following, Wanted, SettingsStay

LEMMA ConfigQuotaKeeps ==
  ASSUME CInv, NEW q \in Quotas, NEW t \in Triggers, ConfigQuota(q, t)
  PROVE  CInv'
<1>1. /\ quota' = q /\ saved' = [quota |-> q, trigger |-> trig]
      /\ config' = [pending |-> TRUE, trigger |-> t]
      /\ UNCHANGED <<clock, runs, files, started, trig, armed, observed, launch>>
  BY DEF ConfigQuota, captureVars
<1>2. t \in Trigger
  BY CaptureAssumption
<1>3. Typed'
  BY <1>1, <1>2 DEF CInv, Typed
<1>4. Following'
  BY <1>1 DEF CInv, Following, Wanted
<1>5. QED
  BY <1>1, <1>3, <1>4 DEF CInv, Sound

LEMMA ConfigTriggerKeeps ==
  ASSUME CInv, ConfigTrigger
  PROVE  CInv'
<1> DEFINE t == config.trigger
           taken == IF Wanted(t) \in Known THEN Wanted(t) ELSE None
<1>1. /\ trig' = t /\ config' = NoConfig
      /\ \/ /\ Wanted(t) = observed
            /\ observed' = observed /\ armed' = armed /\ saved' = saved
         \/ /\ Wanted(t) # observed
            /\ observed' = taken /\ armed' = (armed /\ taken = None)
            /\ saved' = [quota |-> quota, trigger |-> t]
      /\ UNCHANGED <<clock, runs, files, started, quota, launch>>
  BY DEF ConfigTrigger, captureVars
<1>2. t \in Trigger /\ NoConfig.trigger \in Trigger
  BY CaptureAssumption DEF CInv, Typed, NoConfig
<1>3. taken \in Known \cup {None} /\ (taken # None => taken = Wanted(t))
  OBVIOUS
<1> HIDE DEF t, taken
<1>4. Typed'
  <2>1. armed' \in BOOLEAN
    BY <1>1 DEF CInv, Typed
  <2>2. saved' \in [quota : Quotas, trigger : Trigger]
    BY <1>1, <1>2 DEF CInv, Typed
  <2>3. observed' \in Known \cup {None}
    BY <1>1, <1>3 DEF CInv, Typed
  <2>4. QED
    BY <1>1, <1>2, <2>1, <2>2, <2>3 DEF CInv, Typed
<1>5. observed' # None => Wanted(t) = observed' /\ Wanted(saved'.trigger) = observed'
  BY <1>1, <1>3 DEF CInv, Following
<1>6. Following'
  BY <1>1, <1>5 DEF Following, Wanted
<1>7. QED
  BY <1>1, <1>4, <1>6 DEF CInv, Sound

LEMMA ServiceKeeps ==
  ASSUME CInv, Service
  PROVE  CInv'
<1>1. /\ launch = NoLaunch
      /\ UNCHANGED <<clock, files, started, quota, trig, observed, saved, config>>
      /\ armed' = armed \/ armed' = Active
      /\ \/ runs' = AfterQuota
         \/ runs' = EndAll(AfterQuota, LAMBDA r : r.iface = trig.iface)
      /\ \/ launch' = NoLaunch
         \/ launch' = [iface |-> trig.iface, dur |-> trig.dur, at |-> clock]
  BY DEF Service
<1>2. Sound(AfterQuota, files)
  BY TimeEnds, QuotaEnds, EndsKeeps DEF CInv
<1>3. Sound(runs', files)
  <2>1. Ends(AfterQuota, runs')
    BY <1>1 DEF Ends, EndAll
  <2>2. QED
    BY <1>2, <2>1, EndsKeeps
<1>4. LaunchOK(launch')
  BY <1>1 DEF LaunchOK, CInv, Typed, Trigger
<1>5. armed' \in BOOLEAN
  <2>1. armed \in BOOLEAN
    BY DEF CInv, Typed
  <2>2. Active \in BOOLEAN
    BY DEF Active
  <2>3. QED
    BY <1>1, <2>1, <2>2
<1>6. QED
  BY <1>1, <1>3, <1>4, <1>5 DEF CInv, Typed, Sound, Following, Wanted

\* The files are all there is to list: those of before the restart.
LEMMA RestartKeeps ==
  ASSUME CInv, Restart
  PROVE  CInv'
<1> DEFINE old(id) == [k |-> 0, id |-> id, iface |-> id[1], state |-> "ended",
                       dur |-> 0, at |-> 0, exited |-> FALSE, cap |-> 0]
<1>1. /\ clock' = 0 /\ files' = files /\ started' = started /\ saved' = saved
      /\ runs' = {old(id) : id \in {i \in Id : files[i] # None}}
      /\ quota' = saved.quota /\ trig' = saved.trigger
      /\ observed' = IF Wanted(saved.trigger) \in Known THEN Wanted(saved.trigger) ELSE None
      /\ armed' = FALSE /\ config' = NoConfig /\ launch' = NoLaunch
  BY DEF Restart, Resume
<1>2. \A id \in Id : RunOK(old(id)) /\ ~Running(old(id)) /\ old(id).id = id
  BY CaptureAssumption DEF RunOK, Running, Id
<1> HIDE DEF old
<1>3. Sound(runs', files)
  <2>1. files \in [Id -> Nat \cup {None}]
    BY DEF CInv, Sound
  <2>2. \A r \in runs' : RunOK(r) /\ ~Running(r)
    BY <1>1, <1>2
  <2>3. \A id \in Id : files[id] # None => \E r \in runs' : r.id = id
    BY <1>1, <1>2
  <2>4. QED
    BY <2>1, <2>2, <2>3 DEF Sound
<1>4. Typed'
  <2>1. NoConfig.trigger \in Trigger /\ 0 \in 0..MaxSec /\ FALSE \in BOOLEAN
    BY CaptureAssumption DEF NoConfig
  <2>2. saved.quota \in Quotas /\ saved.trigger \in Trigger
    BY DEF CInv, Typed
  <2>3. observed' \in Known \cup {None}
    BY <1>1
  <2>4. QED
    BY <1>1, <2>1, <2>2, <2>3 DEF CInv, Typed, LaunchOK
<1>5. Following'
  BY <1>1 DEF Following, Wanted
<1>6. QED
  BY <1>1, <1>3, <1>4, <1>5 DEF CInv, Sound

LEMMA OthersKeep ==
  ASSUME CInv, (\E z \in Known, v \in Values : NewSample(z, v)) \/ Tick \/ UNCHANGED vars
  PROVE  CInv'
<1>1. /\ SettingsStay /\ UNCHANGED <<runs, files, started, launch>>
      /\ clock' = clock \/ (clock < MaxSec /\ clock' = clock + 1)
  BY DEF NewSample, Tick, SettingsStay, triggerVars, captureVars, vars
<1>2. clock' \in 0..MaxSec
  BY <1>1, CaptureAssumption DEF CInv, Typed
<1>3. QED
  BY <1>1, <1>2 DEF CInv, Typed, Sound, Following, Wanted, SettingsStay

-----------------------------------------------------------------------------
(* The theorems.                                                           *)

LEMMA CInit == Init => CInv
<1>1. SUFFICES ASSUME Init PROVE CInv
  OBVIOUS
<1>2. Typed
  <2>1. /\ NoConfig.trigger \in Trigger /\ NoTrigger \in Trigger
        /\ 0 \in 0..MaxSec /\ 0 \in 0..MaxRuns /\ FALSE \in BOOLEAN
    BY CaptureAssumption DEF NoConfig
  <2>2. QED
    BY <1>1, <2>1 DEF Init, Typed, LaunchOK
<1>3. Sound(runs, files) /\ Following
  BY <1>1 DEF Init, Sound, Following
<1>4. QED
  BY <1>2, <1>3 DEF CInv

LEMMA CStep == CInv /\ [Next]_vars => CInv'
<1>1. SUFFICES ASSUME CInv, [Next]_vars PROVE CInv'
  OBVIOUS
<1>2. CASE UNCHANGED vars
  BY <1>1, <1>2, OthersKeep
<1>3. CASE Next
  BY <1>1, <1>3, StartKeeps, StopKeeps, DeleteKeeps, GrowKeeps, ExitsKeeps,
     ConfigQuotaKeeps, ConfigTriggerKeeps, ServiceKeeps, RestartKeeps, OthersKeep DEF Next
<1>4. QED
  BY <1>1, <1>2, <1>3

\* The inductive invariant of the captures, their files and their trigger.
THEOREM CapturesInvariant == Spec => []CInv
  BY CInit, CStep, PTL DEF Spec

\* Two captures never run on one interface, though service() decides under the
\* mutex and starts after it; and the variable observed is the one a restart
\* observes, whatever sequence of requests led to it (capture.hpp, demarrer,
\* set_trigger, set_quota).
THEOREM TriggerIsSound == Spec => []TriggerSound
<1>1. CInv => OnePerInterface
  BY DEF CInv, Sound, OnePerInterface
<1>2. CInv => ObservedSurvives
  BY DEF CInv, Following, ObservedSurvives
<1>3. CInv => TriggerSound
  BY <1>1, <1>2 DEF TriggerSound
<1>4. QED
  BY <1>3, CapturesInvariant, PTL

\* A file that counts against the quota is in the list, hence can be deleted,
\* and a capture that runs has its file (relire_fichiers, supprimer, demarrer).
THEOREM EveryFileListed == Spec => []FilesAreListed
<1>1. CInv => FilesAreListed
  BY DEF CInv, Sound, FilesAreListed
<1>2. QED
  BY <1>1, CapturesInvariant, PTL

\* A pass of service() leaves nothing past the quota nor past its duration.
LEMMA PassEnds ==
  ASSUME CInv, Service
  PROVE  \A r \in runs' : Running(r) =>
            /\ Occupied < quota /\ ~ r.exited
            /\ r.dur > 0 => clock - r.at < r.dur
<1>1. \A r \in runs : RunOK(r) /\ clock \in Int
  BY CaptureAssumption DEF CInv, Sound, Typed
<1>2. \A x \in AfterTime : Running(x) => x \in runs /\ ~Expired(x)
  BY <1>1, EndedIs DEF AfterTime, EndAll
<1>3. \A x \in AfterTime : RunOK(x)
  BY <1>1, EndedIs DEF AfterTime, EndAll
<1>4. \A x \in AfterQuota : Running(x) => x \in AfterTime /\ Occupied < quota
  <2>1. CASE Occupied < quota
    BY <2>1 DEF AfterQuota
  <2>2. CASE ~(Occupied < quota)
    <3>1. AfterQuota = {IF Running(r) THEN Ended(r) ELSE r : r \in AfterTime}
      BY <2>2 DEF AfterQuota, EndAll
    <3>2. QED
      BY <1>3, <3>1, EndedIs
  <2>3. QED
    BY <2>1, <2>2
<1>5. \A x \in AfterQuota : RunOK(x)
  BY <1>3, QuotaEnds, EndedIs DEF Ends
<1>6. \A x \in runs' : Running(x) => x \in AfterQuota
  <2>1. \/ runs' = AfterQuota
        \/ runs' = EndAll(AfterQuota, LAMBDA r : r.iface = trig.iface)
    BY DEF Service
  <2>2. QED
    BY <1>5, <2>1, EndedIs DEF EndAll
<1>7. \A r \in runs : ~Expired(r) => ~r.exited /\ (r.dur > 0 => clock - r.at < r.dur)
  <2>1. \A r \in runs : r.dur \in Int /\ r.at \in Int
    BY <1>1 DEF RunOK
  <2>2. QED
    BY <1>1, <2>1 DEF Expired
<1>8. QED
  BY <1>2, <1>4, <1>6, <1>7

\* A pass of service() follows the variable observed.
LEMMA PassFollows ==
  ASSUME CInv, Service, Watching, current[observed] # None
  PROVE  LET active == current[observed] \in trig.on
         IN /\ armed' = active
            /\ launch' # NoLaunch <=> active /\ ~ armed
            /\ armed /\ ~ active => ~ \E r \in runs' : Running(r) /\ r.iface = trig.iface
<1> DEFINE active == current[observed] \in trig.on
<1>1. LastSeen = current[observed] /\ LastSeen # None /\ (Active <=> active)
  BY DEF LastSeen, Active
<1>2. armed \in BOOLEAN /\ trig.iface \in Ifaces
  BY DEF CInv, Typed, Trigger
<1>3. CASE Active # armed
  <2>1. /\ armed' = Active
        /\ launch' = IF Active THEN [iface |-> trig.iface, dur |-> trig.dur, at |-> clock]
                     ELSE NoLaunch
        /\ ~Active => runs' = EndAll(AfterQuota, LAMBDA r : r.iface = trig.iface)
    BY <1>1, <1>3 DEF Service
  <2>2. [iface |-> trig.iface, dur |-> trig.dur, at |-> clock] # NoLaunch
    <3>1. trig.iface # None
      BY <1>2, NoneIsApart
    <3>2. QED
      BY <3>1 DEF NoLaunch
  <2>3. \A x \in AfterQuota : RunOK(x)
    BY TimeEnds, QuotaEnds, EndsKeeps DEF CInv, Sound
  <2>4. ~Active => ~ \E r \in runs' : Running(r) /\ r.iface = trig.iface
    BY <2>1, <2>3, EndedIs DEF EndAll
  <2>5. launch' # NoLaunch <=> Active
    BY <2>1, <2>2
  <2>6. armed' <=> Active
    BY <2>1
  <2>7. QED
    BY <1>1, <1>2, <1>3, <2>1, <2>4, <2>5, <2>6 DEF Active
<1>4. CASE Active = armed
  <2>1. armed' = armed /\ launch' = NoLaunch
    BY <1>1, <1>4 DEF Service
  <2>2. QED
    BY <1>1, <1>2, <1>4, <2>1
<1>5. QED
  BY <1>3, <1>4

\* Whatever happened between two passes of the maintenance thread, the second
\* leaves nothing past the quota or its duration, and follows the variable
\* observed (capture.hpp, service and appliquer_trigger).
THEOREM ServiceIsSound == Spec => ServiceSound
<1>1. CInv /\ [Next]_vars =>
        [Service => \A r \in runs' : Running(r) =>
                     /\ Occupied < quota /\ ~ r.exited
                     /\ r.dur > 0 => clock - r.at < r.dur]_vars
  <2>1. SUFFICES ASSUME CInv, Service
                 PROVE  \A r \in runs' : Running(r) =>
                          /\ Occupied < quota /\ ~ r.exited
                          /\ r.dur > 0 => clock - r.at < r.dur
    OBVIOUS
  <2>2. QED
    BY <2>1, PassEnds
<1>2. CInv /\ [Next]_vars =>
        [Service /\ Watching /\ current[observed] # None =>
          LET active == current[observed] \in trig.on IN
          /\ armed' = active
          /\ launch' # NoLaunch <=> active /\ ~ armed
          /\ armed /\ ~ active => ~ \E r \in runs' : Running(r) /\ r.iface = trig.iface]_vars
  BY PassFollows
<1>3. Spec => NothingOverstays
  BY <1>1, CapturesInvariant, PTL DEF Spec, NothingOverstays
<1>4. Spec => TriggerFollows
  BY <1>2, CapturesInvariant, PTL DEF Spec, TriggerFollows
<1>5. QED
  BY <1>3, <1>4, PTL DEF ServiceSound
-----------------------------------------------------------------------------
(* Finite sets are built one element at a time.                            *)
LEMMA FiniteInduction ==
  ASSUME NEW S, IsFiniteSet(S), NEW F,
         {} \in F,
         \A T \in SUBSET S : \A x \in S \ T : T \in F => T \cup {x} \in F
  PROVE  S \in F
<1> DEFINE Missing == {T \in SUBSET S : T \notin F}
<1>1. SUFFICES ASSUME S \notin F PROVE FALSE
  OBVIOUS
<1>2. Missing \subseteq FiniteSubsetsOf(S) /\ Missing # {}
  BY <1>1, FS_FiniteSubsetsOfFinite
<1>3. PICK T \in Missing : \A U \in Missing : ~ (<<U, T>> \in StrictSubsetOrdering(S))
  <2> HIDE DEF Missing
  <2> QED BY <1>2, FS_StrictSubsetOrderingWellFounded, WFMin
<1>4. \A U \in Missing : ~ (U \subseteq T /\ U # T)
  BY <1>3 DEF StrictSubsetOrdering
<1>5. PICK x \in T : TRUE
  OBVIOUS
<1>6. T \ {x} \in F
  BY <1>4
<1>7. (T \ {x}) \cup {x} = T
  OBVIOUS
<1>8. QED
  BY <1>6, <1>7

(***************************************************************************)
(* Sums over a finite set (MapThenSumSet).                                 *)
(***************************************************************************)
\* The element a sum takes first, and the recursive function behind a sum.
First(s) == CHOOSE x \in s : TRUE
Folds(g, f, S) ==
  g = [s \in SUBSET S |-> IF s = {} THEN 0 ELSE f[First(s)] + g[s \ {First(s)}]]
Sum(f, S) == MapThenSumSet(LAMBDA x : f[x], S)

LEMMA FirstIn == ASSUME NEW s, s # {} PROVE First(s) \in s
  BY DEF First

(* The subsets of no more than n elements.                                 *)
Small(S, n) == {s \in SUBSET S : Cardinality(s) <= n}

LEMMA SmallRemove ==
  ASSUME NEW S, IsFiniteSet(S), NEW n \in Nat, NEW s \in Small(S, n + 1), NEW x \in s
  PROVE  s \ {x} \in Small(S, n) /\ IsFiniteSet(s)
<1>1. IsFiniteSet(s) /\ s \in SUBSET S
  BY FS_Subset DEF Small
<1>2. Cardinality(s) \in Nat /\ Cardinality(s \ {x}) = Cardinality(s) - 1
  BY <1>1, FS_CardinalityType, FS_RemoveElement
<1>3. QED
  BY <1>1, <1>2 DEF Small

LEMMA NatInSet ==
  ASSUME NEW F, 0 \in F, \A n \in Nat : n \in F => n + 1 \in F
  PROVE  \A n \in Nat : n \in F
<1> DEFINE R == OpToRel(<, Nat)
           Missing == {n \in Nat : n \notin F}
<1>1. SUFFICES ASSUME Missing # {} PROVE FALSE
  OBVIOUS
<1>2. IsWellFoundedOn(R, Nat)
  BY NatLessThanWellFounded
<1>3. PICK n \in Missing : \A m \in Missing : ~ (<<m, n>> \in R)
  <2> HIDE DEF Missing, R
  <2>1. Missing \subseteq Nat
    BY DEF Missing
  <2> QED BY <1>1, <1>2, <2>1, WFMin
<1>4. n # 0 /\ n - 1 \in Nat
  OBVIOUS
<1>5. \A m, k \in Nat : m < k => <<m, k>> \in R
  BY DEF OpToRel
<1>50. n - 1 \in F
  <2>1. <<n - 1, n>> \in R /\ n - 1 < n
    <3> HIDE DEF R
    <3>1. n - 1 \in Nat /\ n \in Nat /\ n - 1 < n
      BY <1>4
    <3>2. QED
      BY <3>1, <1>5
  <2> HIDE DEF R
  <2> QED BY <1>3, <1>4, <2>1
<1>6. QED
  BY <1>4, <1>50

LEMMA FoldExists ==
  ASSUME NEW S, IsFiniteSet(S), NEW f
  PROVE  \E g : Folds(g, f, S)
<1> DEFINE Upto(n, g) == g = [s \in Small(S, n) |-> IF s = {} THEN 0 ELSE f[First(s)] + g[s \ {First(s)}]]
           F == {n \in Nat : \E g : Upto(n, g)}
<1>1. 0 \in F
  <2>1. ASSUME NEW s \in Small(S, 0) PROVE s = {}
    <3>1. IsFiniteSet(s) /\ Cardinality(s) <= 0
      BY FS_Subset DEF Small
    <3>2. Cardinality(s) \in Nat
      BY <3>1, FS_CardinalityType
    <3>3. QED
      BY <3>1, <3>2, FS_EmptySet
  <2>2. Upto(0, [s \in Small(S, 0) |-> 0])
    BY <2>1
  <2>3. QED
    BY <2>2
<1>2. ASSUME NEW n \in Nat, n \in F PROVE n + 1 \in F
  <2>1. PICK g : Upto(n, g)
    BY <1>2
  <2> DEFINE h == [s \in Small(S, n + 1) |-> IF s = {} THEN 0 ELSE f[First(s)] + g[s \ {First(s)}]]
  <2>2. \A s \in Small(S, n) : s \in Small(S, n + 1)
    <3>1. \A s \in Small(S, n) : Cardinality(s) \in Nat
      BY FS_Subset, FS_CardinalityType DEF Small
    <3>2. QED
      BY <3>1 DEF Small
  <2>3. \A s \in Small(S, n) : h[s] = g[s]
    BY <2>1, <2>2
  <2>4. \A s \in Small(S, n + 1) : s # {} => s \ {First(s)} \in Small(S, n)
    BY FirstIn, SmallRemove
  <2>5. Upto(n + 1, h)
    <3>1. \A s \in Small(S, n + 1) :
            h[s] = IF s = {} THEN 0 ELSE f[First(s)] + h[s \ {First(s)}]
      BY <2>3, <2>4
    <3> DEFINE k == [s \in Small(S, n + 1) |-> IF s = {} THEN 0 ELSE f[First(s)] + h[s \ {First(s)}]]
    <3>2. h = k
      BY <3>1
    <3>3. QED
      BY <3>2
  <2>6. QED
    <3> HIDE DEF h
    <3> QED BY <2>5
<1>3. Cardinality(S) \in F
  <2>1. Cardinality(S) \in Nat
    BY FS_CardinalityType
  <2> HIDE DEF F
  <2>2. QED
    BY <1>1, <1>2, <2>1, NatInSet
<1>4. Small(S, Cardinality(S)) = SUBSET S
  BY FS_Subset DEF Small
<1>5. QED
  BY <1>3, <1>4 DEF Folds

LEMMA FoldAt ==
  ASSUME NEW S, IsFiniteSet(S), NEW f
  PROVE  \E g : Folds(g, f, S) /\ Sum(f, S) = g[S]
<1> DEFINE c == CHOOSE g : Folds(g, f, S)
<1>1. Folds(c, f, S)
  BY FoldExists
<1>2. Sum(f, S) = c[S]
  BY DEF Sum, MapThenSumSet, MapThenFoldSet, Folds, First
<1>3. QED
  BY <1>1, <1>2

\* Two recursive functions agree wherever both are defined.
LEMMA FoldUnique ==
  ASSUME NEW S, NEW T, IsFiniteSet(S), T \subseteq S, NEW f, NEW g, NEW h,
         Folds(g, f, S), Folds(h, f, T)
  PROVE  g[T] = h[T]
<1> DEFINE F == {n \in Nat : \A s \in SUBSET T : Cardinality(s) <= n => g[s] = h[s]}
<1>0. \A s \in SUBSET T : IsFiniteSet(s) /\ Cardinality(s) \in Nat
  BY FS_Subset, FS_CardinalityType
<1>00. /\ \A s \in SUBSET T : g[s] = IF s = {} THEN 0 ELSE f[First(s)] + g[s \ {First(s)}]
       /\ \A s \in SUBSET T : h[s] = IF s = {} THEN 0 ELSE f[First(s)] + h[s \ {First(s)}]
  BY DEF Folds
<1>1. 0 \in F
  <2>1. \A s \in SUBSET T : Cardinality(s) <= 0 => s = {}
    BY <1>0, FS_EmptySet
  <2>2. QED
    BY <2>1, <1>00
<1>2. ASSUME NEW n \in Nat, n \in F PROVE n + 1 \in F
  <2>1. ASSUME NEW s \in SUBSET T, Cardinality(s) <= n + 1, s # {}
        PROVE  g[s] = h[s]
    <3>1. First(s) \in s /\ s \ {First(s)} \in SUBSET T
      BY <2>1, FirstIn
    <3>2. Cardinality(s \ {First(s)}) = Cardinality(s) - 1 /\ Cardinality(s) \in Nat
      BY <1>0, <3>1, FS_RemoveElement
    <3>3. g[s \ {First(s)}] = h[s \ {First(s)}]
      BY <1>2, <2>1, <3>1, <3>2
    <3>4. QED
      BY <1>00, <2>1, <3>3
  <2>2. \A s \in SUBSET T : s = {} => g[s] = h[s]
    BY <1>00
  <2>3. QED
    BY <2>1, <2>2
<1>3. Cardinality(T) \in F
  <2>1. Cardinality(T) \in Nat
    BY <1>0
  <2> HIDE DEF F
  <2>2. QED
    BY <1>1, <1>2, <2>1, NatInSet
<1>4. QED
  BY <1>3, <1>0

LEMMA SumIs ==
  ASSUME NEW S, IsFiniteSet(S), NEW f
  PROVE  \E g : Folds(g, f, S) /\ \A T \in SUBSET S : Sum(f, T) = g[T]
<1>1. PICK g : Folds(g, f, S)
  BY FoldExists
<1>2. ASSUME NEW T \in SUBSET S PROVE Sum(f, T) = g[T]
  <2>1. PICK h : Folds(h, f, T) /\ Sum(f, T) = h[T]
    BY FS_Subset, FoldAt
  <2>2. QED
    BY <1>1, <2>1, FoldUnique
<1>3. QED
  BY <1>1, <1>2

LEMMA SumOfNone == ASSUME NEW f PROVE Sum(f, {}) = 0
<1>1. PICK g : Folds(g, f, {}) /\ \A T \in SUBSET {} : Sum(f, T) = g[T]
  BY SumIs, FS_EmptySet
<1>2. QED
  BY <1>1 DEF Folds

LEMMA SumFirst ==
  ASSUME NEW S, IsFiniteSet(S), S # {}, NEW f
  PROVE  Sum(f, S) = f[First(S)] + Sum(f, S \ {First(S)})
<1>1. PICK g : Folds(g, f, S) /\ \A T \in SUBSET S : Sum(f, T) = g[T]
  BY SumIs
<1>2. S \ {First(S)} \in SUBSET S
  OBVIOUS
<1>3. QED
  BY <1>1, <1>2 DEF Folds

\* The terms are integers.
Whole(f, S) == \A x \in S : f[x] \in Int

LEMMA SumType ==
  ASSUME NEW S, IsFiniteSet(S), NEW f, Whole(f, S)
  PROVE  Sum(f, S) \in Int
<1> DEFINE F == {n \in Nat : \A T \in SUBSET S : Cardinality(T) <= n => Sum(f, T) \in Int}
<1>0. \A s \in SUBSET S : IsFiniteSet(s) /\ Cardinality(s) \in Nat
  BY FS_Subset, FS_CardinalityType
<1>1. 0 \in F
  <2>1. \A s \in SUBSET S : Cardinality(s) <= 0 => s = {}
    BY <1>0, FS_EmptySet
  <2>2. QED
    BY <2>1, SumOfNone
<1>2. ASSUME NEW n \in Nat, n \in F PROVE n + 1 \in F
  <2>1. ASSUME NEW T \in SUBSET S, Cardinality(T) <= n + 1, T # {}
        PROVE  Sum(f, T) \in Int
    <3>1. First(T) \in T /\ T \ {First(T)} \in SUBSET S
      BY <2>1, FirstIn
    <3>2. Cardinality(T \ {First(T)}) = Cardinality(T) - 1 /\ Cardinality(T) \in Nat
      BY <1>0, <3>1, FS_RemoveElement
    <3>3. Sum(f, T \ {First(T)}) \in Int
      BY <1>2, <2>1, <3>1, <3>2
    <3>4. QED
      BY <1>0, <2>1, <3>1, <3>3, SumFirst DEF Whole
  <2>3. QED
    BY <2>1, SumOfNone
<1>3. Cardinality(S) \in F
  <2>1. Cardinality(S) \in Nat
    BY <1>0
  <2> HIDE DEF F
  <2>2. QED
    BY <1>1, <1>2, <2>1, NatInSet
<1>4. QED
  BY <1>3, <1>0

\* Any element may be taken out first.
LEMMA SumTake ==
  ASSUME NEW S, IsFiniteSet(S), NEW f, Whole(f, S), NEW x \in S
  PROVE  Sum(f, S) = f[x] + Sum(f, S \ {x})
<1> DEFINE F == {n \in Nat : \A T \in SUBSET S : Cardinality(T) <= n =>
                                \A y \in T : Sum(f, T) = f[y] + Sum(f, T \ {y})}
<1>0. \A s \in SUBSET S : IsFiniteSet(s) /\ Cardinality(s) \in Nat
  BY FS_Subset, FS_CardinalityType
<1>1. 0 \in F
  <2>1. \A s \in SUBSET S : Cardinality(s) <= 0 => s = {}
    BY <1>0, FS_EmptySet
  <2>2. QED
    BY <2>1
<1>2. ASSUME NEW n \in Nat, n \in F PROVE n + 1 \in F
  <2>1. ASSUME NEW T \in SUBSET S, Cardinality(T) <= n + 1, NEW y \in T
        PROVE  Sum(f, T) = f[y] + Sum(f, T \ {y})
    <3> DEFINE z == First(T)
    <3>1. z \in T /\ T \ {z} \in SUBSET S /\ T # {} /\ T \ {y} \in SUBSET S
      BY FirstIn
    <3>2. /\ Cardinality(T \ {z}) = Cardinality(T) - 1 /\ Cardinality(T) \in Nat
          /\ Cardinality(T \ {y}) = Cardinality(T) - 1
      BY <1>0, <3>1, FS_RemoveElement
    <3>3. Sum(f, T) = f[z] + Sum(f, T \ {z})
      BY <1>0, <3>1, SumFirst
    <3>4. CASE z = y
      BY <3>3, <3>4
    <3>5. CASE z # y
      <4> HIDE DEF z
      <4>1. y \in T \ {z} /\ z \in T \ {y}
        BY <3>1, <3>5
      <4>2. Cardinality(T \ {z}) <= n /\ Cardinality(T \ {y}) <= n
        BY <2>1, <3>2
      <4>3. /\ Sum(f, T \ {z}) = f[y] + Sum(f, (T \ {z}) \ {y})
            /\ Sum(f, T \ {y}) = f[z] + Sum(f, (T \ {y}) \ {z})
        BY <1>2, <3>1, <4>1, <4>2
      <4>4. (T \ {z}) \ {y} = (T \ {y}) \ {z}
        OBVIOUS
      <4>5. Sum(f, (T \ {y}) \ {z}) \in Int
        <5>1. (T \ {y}) \ {z} \in SUBSET S
          OBVIOUS
        <5>2. Whole(f, (T \ {y}) \ {z})
          BY <5>1 DEF Whole
        <5>3. QED
          BY <1>0, <5>1, <5>2, SumType
      <4>6. f[y] \in Int /\ f[z] \in Int
        BY <3>1 DEF Whole
      <4>7. Sum(f, (T \ {z}) \ {y}) = Sum(f, (T \ {y}) \ {z})
        BY <4>4
      <4>8. PICK u, v, w \in Int : u = f[y] /\ v = f[z] /\ w = Sum(f, (T \ {y}) \ {z})
        BY <4>5, <4>6
      <4>9. Sum(f, T) = v + (u + w) /\ Sum(f, T \ {y}) = v + w
        BY <3>3, <4>3, <4>7, <4>8
      <4>10. v + (u + w) = u + (v + w)
        OBVIOUS
      <4>11. QED
        BY <4>8, <4>9, <4>10
    <3>6. QED
      BY <3>4, <3>5
  <2>2. QED
    BY <2>1
<1>3. Cardinality(S) \in F
  <2>1. Cardinality(S) \in Nat
    BY <1>0
  <2> HIDE DEF F
  <2>2. QED
    BY <1>1, <1>2, <2>1, NatInSet
<1>4. QED
  BY <1>3, <1>0
LEMMA SumSame ==
  ASSUME NEW S, IsFiniteSet(S), NEW f, NEW g, Whole(f, S), \A x \in S : f[x] = g[x]
  PROVE  Sum(f, S) = Sum(g, S)
<1> DEFINE F == {T \in SUBSET S : Sum(f, T) = Sum(g, T)}
<1>1. {} \in F
  BY SumOfNone
<1>2. ASSUME NEW T \in SUBSET S, NEW x \in S \ T, T \in F
      PROVE  T \cup {x} \in F
  <2>1. /\ IsFiniteSet(T \cup {x}) /\ (T \cup {x}) \ {x} = T /\ x \in T \cup {x}
        /\ Whole(f, T \cup {x}) /\ Whole(g, T \cup {x})
    BY FS_Subset DEF Whole
  <2>2. Sum(f, T \cup {x}) = f[x] + Sum(f, T) /\ Sum(g, T \cup {x}) = g[x] + Sum(g, T)
    BY <2>1, SumTake
  <2>3. QED
    BY <1>2, <2>2
<1> HIDE DEF F
<1>3. S \in F
  BY <1>1, <1>2, FiniteInduction
<1>4. QED
  BY <1>3 DEF F

\* At most so much each.
LEMMA SumAtMost ==
  ASSUME NEW S, IsFiniteSet(S), NEW f, Whole(f, S), NEW m \in Int, \A x \in S : f[x] <= m
  PROVE  Sum(f, S) <= Cardinality(S) * m
<1> DEFINE F == {T \in SUBSET S : Sum(f, T) <= Cardinality(T) * m}
<1>1. {} \in F
  BY SumOfNone, FS_EmptySet
<1>2. ASSUME NEW T \in SUBSET S, NEW x \in S \ T, T \in F
      PROVE  T \cup {x} \in F
  <2>1. /\ IsFiniteSet(T) /\ IsFiniteSet(T \cup {x}) /\ (T \cup {x}) \ {x} = T
        /\ x \in T \cup {x} /\ Whole(f, T \cup {x}) /\ Whole(f, T)
    BY FS_Subset DEF Whole
  <2>2. Sum(f, T \cup {x}) = f[x] + Sum(f, T) /\ Sum(f, T) \in Int
    BY <2>1, SumTake, SumType
  <2>3. Cardinality(T \cup {x}) = Cardinality(T) + 1 /\ Cardinality(T) \in Nat
    BY <2>1, FS_AddElement, FS_CardinalityType
  <2>4. f[x] \in Int /\ f[x] <= m /\ Sum(f, T) <= Cardinality(T) * m
    BY <1>2 DEF Whole
  <2>5. \A c \in Nat : (c + 1) * m = c * m + m /\ c * m \in Int
    OBVIOUS
  <2>6. Cardinality(T \cup {x}) * m = Cardinality(T) * m + m /\ Cardinality(T) * m \in Int
    BY <2>3, <2>5
  <2>7. f[x] + Sum(f, T) <= Cardinality(T) * m + m
    BY <2>2, <2>4, <2>6
  <2>8. QED
    BY <2>2, <2>6, <2>7
<1> HIDE DEF F
<1>3. S \in F
  BY <1>1, <1>2, FiniteInduction
<1>4. QED
  BY <1>3 DEF F

\* Less of what is not negative.
LEMMA SumLess ==
  ASSUME NEW S, IsFiniteSet(S), NEW f, \A x \in S : f[x] \in Nat, NEW U \in SUBSET S
  PROVE  Sum(f, U) <= Sum(f, S) /\ Sum(f, U) \in Nat
<1> DEFINE F == {T \in SUBSET S : Sum(f, U \cap T) <= Sum(f, T) /\ Sum(f, U \cap T) \in Nat}
<1>1. {} \in F
  BY SumOfNone
<1>2. ASSUME NEW T \in SUBSET S, NEW x \in S \ T, T \in F
      PROVE  T \cup {x} \in F
  <2>1. /\ IsFiniteSet(T) /\ IsFiniteSet(T \cup {x}) /\ (T \cup {x}) \ {x} = T
        /\ x \in T \cup {x} /\ Whole(f, T \cup {x}) /\ Whole(f, T) /\ f[x] \in Nat
    BY FS_Subset DEF Whole
  <2>2. Sum(f, T \cup {x}) = f[x] + Sum(f, T) /\ Sum(f, T) \in Int
    BY <2>1, SumTake, SumType
  <2>3. CASE x \in U
    <3>1. /\ IsFiniteSet(U \cap (T \cup {x})) /\ x \in U \cap (T \cup {x})
          /\ (U \cap (T \cup {x})) \ {x} = U \cap T /\ Whole(f, U \cap (T \cup {x}))
      BY <2>1, <2>3, FS_Subset DEF Whole
    <3>2. Sum(f, U \cap (T \cup {x})) = f[x] + Sum(f, U \cap T)
      BY <3>1, SumTake
    <3>3. QED
      BY <1>2, <2>1, <2>2, <3>2
  <2>4. CASE x \notin U
    <3>1. U \cap (T \cup {x}) = U \cap T
      BY <2>4
    <3>2. QED
      BY <1>2, <2>1, <2>2, <3>1
  <2>5. QED
    BY <2>3, <2>4
<1> HIDE DEF F
<1>3. S \in F
  BY <1>1, <1>2, FiniteInduction
<1>4. U \cap S = U
  OBVIOUS
<1>5. QED
  BY <1>3, <1>4 DEF F

\* A finite set of numbers has a greatest.
LEMMA Greatest ==
  ASSUME NEW S, IsFiniteSet(S), S \subseteq Nat, S # {}
  PROVE  Max(S) \in S /\ \A x \in S : x <= Max(S)
<1> DEFINE F == {T \in SUBSET S : T # {} => \E m \in T : \A x \in T : m >= x}
<1>1. {} \in F
  OBVIOUS
<1>2. ASSUME NEW T \in SUBSET S, NEW x \in S \ T, T \in F
      PROVE  T \cup {x} \in F
  <2>1. CASE T = {}
    BY <2>1
  <2>2. CASE T # {}
    <3>1. PICK m \in T : \A y \in T : m >= y
      BY <1>2, <2>2
    <3>2. m \in Nat /\ x \in Nat /\ \A y \in T : y \in Nat
      OBVIOUS
    <3>3. CASE m >= x
      BY <3>1, <3>2, <3>3
    <3>4. CASE ~(m >= x)
      <4>1. \A y \in T \cup {x} : x >= y
        BY <3>1, <3>2, <3>4
      <4>2. QED
        BY <4>1
    <3>5. QED
      BY <3>3, <3>4
  <2>3. QED
    BY <2>1, <2>2
<1> HIDE DEF F
<1>3. S \in F
  BY <1>1, <1>2, FiniteInduction
<1>4. \E m \in S : \A x \in S : m >= x
  BY <1>3 DEF F
<1>5. Max(S) \in S /\ \A x \in S : Max(S) >= x
  BY <1>4 DEF Max
<1>6. QED
  BY <1>5

-----------------------------------------------------------------------------
(* The disk. Sizes and what is left to write are sums: they change by what *)
(* one file or one capture changes.                                        *)

AtWork(S) == {r \in S : Running(r)}
Left(S, F) == [r \in AtWork(S) |-> r.cap - F[r.id]]
Grown(S, F) == Sum(Left(S, F), AtWork(S))
Here(F) == {id \in Id : F[id] # None}
Weight(F) == Sum(F, Here(F))
Size(x) == IF x = None THEN 0 ELSE x

\* A capture at work is below its cap, which is no more than a quota was.
Room(S, F) ==
  \A r \in S : Running(r) => /\ r.cap \in Nat /\ r.cap <= Max(Quotas)
                             /\ F[r.id] <= r.cap
Bounded(S, F) == Weight(F) + Grown(S, F) <= Cardinality(Ifaces) * Max(Quotas)

Disk(S, F) == Sound(S, F) /\ Room(S, F) /\ Bounded(S, F)

LEMMA DiskIs == Occupied = Weight(files) /\ Growth = Grown(runs, files)
<1>1. Occupied = Weight(files)
  BY DEF Occupied, Weight, Here, Sum
<1>2. Growth = Grown(runs, files)
  BY DEF Growth, Grown, AtWork, Left, Sum
<1>3. QED
  BY <1>1, <1>2

\* The greatest quota.
LEMMA QuotaTop ==
  ASSUME NEW q \in Quotas
  PROVE  q \in Nat /\ q <= Max(Quotas) /\ Max(Quotas) \in Nat /\ q > 0
<1>1. Quotas \subseteq Nat \ {0} /\ IsFiniteSet(Quotas)
  BY CaptureAssumption
<1>2. Max(Quotas) \in Quotas /\ q <= Max(Quotas)
  <2>1. Quotas \subseteq Nat /\ Quotas # {}
    BY <1>1
  <2>2. QED
    BY <1>1, <2>1, Greatest
<1>3. q \in Nat /\ q # 0 /\ Max(Quotas) \in Nat
  BY <1>1, <1>2
<1>4. q > 0
  BY <1>3
<1>5. QED
  BY <1>2, <1>3, <1>4

LEMMA FilesFinite == IsFiniteSet(Id)
<1>1. IsFiniteSet(Ifaces) /\ 0 \in Int /\ MaxSec \in Int
  BY CaptureAssumption
<1>2. IsFiniteSet(0..MaxSec)
  BY <1>1, FS_Interval
<1>3. QED
  BY <1>1, <1>2, FS_Product DEF Id

LEMMA WeightSplit ==
  ASSUME NEW F \in [Id -> Nat \cup {None}], NEW id \in Id
  PROVE  /\ Weight(F) = Size(F[id]) + Sum(F, Here(F) \ {id})
         /\ Weight(F) \in Nat /\ Sum(F, Here(F) \ {id}) \in Nat /\ Size(F[id]) \in Nat
         /\ Whole(F, Here(F) \ {id}) /\ IsFiniteSet(Here(F) \ {id})
<1>1. /\ IsFiniteSet(Here(F)) /\ IsFiniteSet(Here(F) \ {id}) /\ \A i \in Here(F) : F[i] \in Nat
      /\ Whole(F, Here(F)) /\ Whole(F, Here(F) \ {id}) /\ Here(F) \ {id} \in SUBSET Here(F)
  BY FilesFinite, FS_Subset DEF Here, Whole
<1>2. Weight(F) \in Nat /\ Sum(F, Here(F) \ {id}) \in Nat
  BY <1>1, SumLess DEF Weight
<1>3. CASE id \in Here(F)
  BY <1>1, <1>2, <1>3, SumTake DEF Weight, Size, Here
<1>4. CASE id \notin Here(F)
  <2>1. Here(F) \ {id} = Here(F) /\ Size(F[id]) = 0
    BY <1>4 DEF Here, Size
  <2>2. Sum(F, Here(F) \ {id}) = Weight(F)
    BY <2>1 DEF Weight
  <2>3. QED
    BY <1>1, <1>2, <2>1, <2>2
<1>5. QED
  BY <1>3, <1>4

LEMMA WeightChange ==
  ASSUME NEW F \in [Id -> Nat \cup {None}], NEW id \in Id, NEW n \in Nat \cup {None}
  PROVE  /\ Weight([F EXCEPT ![id] = n]) = (Weight(F) - Size(F[id])) + Size(n)
         /\ Weight(F) \in Nat /\ Size(F[id]) \in Nat /\ Size(F[id]) <= Weight(F) /\ Size(n) \in Nat
<1> DEFINE G == [F EXCEPT ![id] = n]
<1>1. G \in [Id -> Nat \cup {None}] /\ G[id] = n /\ \A i \in Id : i # id => G[i] = F[i]
  OBVIOUS
<1> HIDE DEF G
<1>2. Here(G) \ {id} = Here(F) \ {id} /\ \A i \in Here(F) \ {id} : F[i] = G[i]
  BY <1>1 DEF Here
<1>3. Sum(F, Here(F) \ {id}) = Sum(G, Here(G) \ {id})
  BY <1>2, WeightSplit, SumSame
<1>4. /\ Weight(G) = Size(n) + Sum(G, Here(G) \ {id}) /\ Size(n) \in Nat
      /\ Weight(F) = Size(F[id]) + Sum(F, Here(F) \ {id})
      /\ Weight(F) \in Nat /\ Size(F[id]) \in Nat /\ Sum(F, Here(F) \ {id}) \in Nat
  BY <1>1, WeightSplit
<1>5. QED
  BY <1>3, <1>4 DEF G

LEMMA WeightIs == ASSUME NEW F \in [Id -> Nat \cup {None}] PROVE Weight(F) \in Nat
<1>1. IsFiniteSet(Here(F)) /\ \A i \in Here(F) : F[i] \in Nat
  BY FilesFinite, FS_Subset DEF Here
<1>2. QED
  BY <1>1, SumLess DEF Weight

\* The captures at work are no more than the interfaces they are on.
LEMMA WorkFinite ==
  ASSUME NEW S, NEW F, Sound(S, F), NEW J \in SUBSET Ifaces,
         \A r \in AtWork(S) : r.iface \in J
  PROVE  IsFiniteSet(AtWork(S)) /\ Cardinality(AtWork(S)) <= Cardinality(J)
<1> DEFINE f == [r \in AtWork(S) |-> r.iface]
<1>1. f \in Injection(AtWork(S), J)
  BY DEF Sound, AtWork, Injection, IsInjective
<1>2. IsFiniteSet(J)
  BY CaptureAssumption, FS_Subset
<1>3. QED
  BY <1>1, <1>2, FS_Injection

LEMMA LeftIs ==
  ASSUME NEW S, NEW F, Sound(S, F), Room(S, F), Max(Quotas) \in Nat
  PROVE  /\ IsFiniteSet(AtWork(S)) /\ Whole(Left(S, F), AtWork(S))
         /\ \A r \in AtWork(S) : /\ Left(S, F)[r] = r.cap - F[r.id] /\ Left(S, F)[r] \in Nat
                                 /\ r.cap \in Nat /\ r.id \in Id /\ F[r.id] \in Nat
                                 /\ Left(S, F)[r] <= Max(Quotas)
         /\ Grown(S, F) \in Nat
<1>1. IsFiniteSet(AtWork(S))
  <2>1. \A r \in AtWork(S) : r.iface \in Ifaces
    BY DEF Sound, RunOK, AtWork
  <2>2. QED
    BY <2>1, WorkFinite
<1>2. ASSUME NEW r \in AtWork(S)
      PROVE  /\ Left(S, F)[r] = r.cap - F[r.id] /\ Left(S, F)[r] \in Nat
             /\ r.cap \in Nat /\ r.id \in Id /\ F[r.id] \in Nat
             /\ Left(S, F)[r] <= Max(Quotas)
  <2>1. r \in S /\ Running(r)
    BY DEF AtWork
  <2>2. r.id \in Id /\ F[r.id] \in Nat
    BY <2>1 DEF Sound, RunOK
  <2>3. r.cap \in Nat /\ r.cap <= Max(Quotas) /\ F[r.id] <= r.cap
    BY <2>1 DEF Room
  <2>4. Left(S, F)[r] = r.cap - F[r.id]
    BY DEF Left
  <2>5. QED
    BY <2>2, <2>3, <2>4
<1>3. Whole(Left(S, F), AtWork(S))
  BY <1>2 DEF Whole
<1>4. Grown(S, F) \in Nat
  BY <1>1, <1>2, SumLess DEF Grown
<1>5. QED
  BY <1>1, <1>2, <1>3, <1>4

\* Fewer at work, on the same files.
LEMMA FewerLeft ==
  ASSUME NEW S, NEW T, NEW F, Disk(S, F), Max(Quotas) \in Nat, AtWork(T) \subseteq AtWork(S)
  PROVE  Room(T, F) /\ Bounded(T, F) /\ Grown(T, F) <= Grown(S, F)
<1>1. Sound(S, F) /\ Room(S, F) /\ Bounded(S, F)
  BY DEF Disk
<1>2. /\ IsFiniteSet(AtWork(S)) /\ \A r \in AtWork(S) : Left(S, F)[r] \in Nat
      /\ Grown(S, F) \in Nat
  BY <1>1, LeftIs
<1>3. IsFiniteSet(AtWork(T)) /\ Whole(Left(S, F), AtWork(T))
  BY <1>2, FS_Subset DEF Whole
<1>4. \A r \in AtWork(T) : Left(S, F)[r] = Left(T, F)[r]
  BY DEF Left
<1>5. Sum(Left(S, F), AtWork(T)) = Grown(T, F)
  BY <1>3, <1>4, SumSame DEF Grown
<1>6. Grown(T, F) <= Grown(S, F) /\ Grown(T, F) \in Nat
  BY <1>2, <1>5, SumLess DEF Grown
<1>7. Room(T, F)
  BY <1>1 DEF Room, AtWork
<1>8. Weight(F) \in Nat
  BY <1>1, WeightIs DEF Sound
<1>9. Cardinality(Ifaces) * Max(Quotas) \in Nat
  BY CaptureAssumption, FS_CardinalityType
<1>10. QED
  BY <1>1, <1>2, <1>6, <1>7, <1>8, <1>9 DEF Bounded

\* A file that nothing at work writes loses what it has.
LEMMA LeftApart ==
  ASSUME NEW S, NEW F, Disk(S, F), Max(Quotas) \in Nat,
         NEW id \in Id, NEW n \in Nat \cup {None},
         \A r \in AtWork(S) : r.id # id
  PROVE  LET G == [F EXCEPT ![id] = n] IN
         Room(S, G) /\ Grown(S, G) = Grown(S, F)
<1> DEFINE G == [F EXCEPT ![id] = n]
<1>1. Sound(S, F) /\ Room(S, F) /\ F \in [Id -> Nat \cup {None}]
  BY DEF Disk, Sound
<1>2. \A r \in AtWork(S) : r.id \in Id /\ G[r.id] = F[r.id]
  BY <1>1, LeftIs
<1> HIDE DEF G
<1>3. Room(S, G)
  BY <1>1, <1>2 DEF Room, AtWork
<1>4. Left(S, G) = Left(S, F)
  BY <1>2 DEF Left
<1>5. QED
  BY <1>3, <1>4 DEF Grown, G

LEMMA FileGoneKeeps ==
  ASSUME NEW S, NEW T, NEW F, Disk(S, F), Max(Quotas) \in Nat, NEW id \in Id,
         \A r \in S : r.id = id => ~Running(r), T \subseteq S
  PROVE  Room(T, [F EXCEPT ![id] = None]) /\ Bounded(T, [F EXCEPT ![id] = None])
<1> DEFINE G == [F EXCEPT ![id] = None]
<1>1. /\ AtWork(T) \subseteq AtWork(S) /\ \A r \in AtWork(T) : r.id # id
  BY DEF AtWork
<1>2. F \in [Id -> Nat \cup {None}] /\ Sound(S, F) /\ Room(S, F)
  BY DEF Disk, Sound
<1>3. Weight(G) <= Weight(F) /\ Weight(G) \in Nat /\ Weight(F) \in Nat
  <2>1. Weight(G) = (Weight(F) - Size(F[id])) + Size(None)
    BY <1>2, WeightChange
  <2>2. Weight(F) \in Nat /\ Size(F[id]) \in Nat /\ Size(F[id]) <= Weight(F) /\ Size(None) = 0
    BY <1>2, WeightChange DEF Size
  <2>3. QED
    BY <2>1, <2>2
<1>4. Room(T, F) /\ Bounded(T, F)
  BY <1>1, FewerLeft
<1>5. \A r \in AtWork(T) : r.id \in Id /\ G[r.id] = F[r.id]
  BY <1>1, <1>2, LeftIs
<1> HIDE DEF G
<1>6. Room(T, G) /\ Left(T, G) = Left(T, F)
  BY <1>4, <1>5 DEF Room, AtWork, Left
<1>7. Grown(T, G) = Grown(T, F)
  BY <1>6 DEF Grown
<1>8. Grown(T, F) \in Int
  <2>1. IsFiniteSet(AtWork(T)) /\ Whole(Left(T, F), AtWork(T))
    BY <1>1, <1>2, LeftIs, FS_Subset DEF Whole, Left
  <2>2. QED
    BY <2>1, SumType DEF Grown
<1>9. Cardinality(Ifaces) * Max(Quotas) \in Nat
  BY CaptureAssumption, FS_CardinalityType
<1>10. Bounded(T, G)
  BY <1>3, <1>4, <1>7, <1>8, <1>9 DEF Bounded
<1>11. QED
  BY <1>6, <1>10 DEF G

\* A capture that starts may write what the quota leaves; its interface had none.
LEMMA StartedKeeps ==
  ASSUME Disk(runs, files), quota \in Quotas, NEW iface \in Ifaces, MayStart(iface),
         NEW r, RunOK(r), r.iface = iface, Running(r), r.cap = quota - Occupied
  PROVE  /\ r.cap \in Nat
         /\ Room(runs \cup {r}, [files EXCEPT ![r.id] = 0])
         /\ Bounded(runs \cup {r}, [files EXCEPT ![r.id] = 0])
<1> DEFINE G == [files EXCEPT ![r.id] = 0]
           S == runs \cup {r}
           m == Max(Quotas)
<1>1. /\ Sound(runs, files) /\ Room(runs, files) /\ files \in [Id -> Nat \cup {None}]
      /\ r.id \in Id /\ m \in Nat /\ quota \in Nat /\ quota <= m
  BY QuotaTop DEF Disk, Sound, RunOK
<1>2. /\ Weight(G) = Weight(files) - Size(files[r.id])
      /\ Weight(files) \in Nat /\ Size(files[r.id]) \in Nat /\ Weight(G) \in Nat
  <2>1. Weight(G) = (Weight(files) - Size(files[r.id])) + Size(0)
    BY <1>1, WeightChange
  <2>2. /\ Weight(files) \in Nat /\ Size(files[r.id]) \in Nat
        /\ Size(files[r.id]) <= Weight(files) /\ Size(0) = 0
    BY <1>1, WeightChange DEF Size
  <2>3. QED
    BY <2>1, <2>2
<1>3. Occupied = Weight(files) /\ Occupied < quota
  BY DiskIs DEF MayStart
<1>4. r.cap \in Nat /\ r.cap = quota - Weight(files)
  BY <1>1, <1>2, <1>3
<1>5. /\ \A s \in AtWork(runs) : s.iface # iface /\ s.id # r.id
      /\ r \notin AtWork(runs) /\ AtWork(S) = AtWork(runs) \cup {r}
  BY <1>1 DEF AtWork, MayStart, Sound, RunOK
<1>6. Room(runs, G) /\ Grown(runs, G) = Grown(runs, files)
  <2>1. r.id \in Id /\ 0 \in Nat \cup {None} /\ m \in Nat /\ \A s \in AtWork(runs) : s.id # r.id
    BY <1>1, <1>5
  <2>2. QED
    BY <2>1, LeftApart
<1>7. G[r.id] = 0
  BY <1>1
<1>8. \A s \in AtWork(runs) : G[s.id] = files[s.id]
  BY <1>1, <1>5, LeftIs
<1> HIDE DEF G, S, m
<1>9. Room(S, G)
  <2>1. r.cap <= m
    BY <1>1, <1>2, <1>4
  <2>2. QED
    BY <1>4, <1>6, <1>7, <2>1 DEF Room, S, m
<1>10. /\ IsFiniteSet(AtWork(runs)) /\ \A s \in AtWork(runs) : /\ Left(runs, files)[s] \in Nat
                                                                     /\ Left(runs, files)[s] <= m
       /\ Whole(Left(runs, files), AtWork(runs)) /\ Grown(runs, files) \in Nat
  BY <1>1, LeftIs DEF m
<1>11. Grown(S, G) = r.cap + Grown(runs, files)
  <2>1. /\ IsFiniteSet(AtWork(S)) /\ r \in AtWork(S) /\ AtWork(S) \ {r} = AtWork(runs)
    BY <1>5, <1>10, FS_AddElement
  <2>2. /\ Left(S, G)[r] = r.cap /\ \A s \in AtWork(runs) : Left(runs, files)[s] = Left(S, G)[s]
    BY <1>4, <1>5, <1>7, <1>8 DEF Left
  <2>3. Whole(Left(S, G), AtWork(S))
    BY <1>4, <1>5, <1>10, <2>2 DEF Whole
  <2>4. Grown(S, G) = r.cap + Sum(Left(S, G), AtWork(runs))
    BY <2>1, <2>2, <2>3, SumTake DEF Grown
  <2>5. Sum(Left(S, G), AtWork(runs)) = Grown(runs, files)
    BY <1>10, <2>2, SumSame DEF Grown
  <2>6. QED
    BY <2>4, <2>5
\* What the others may write is less than one quota for every other interface.
<1>12. Grown(runs, files) <= Cardinality(AtWork(runs)) * m
  BY <1>1, <1>10, SumAtMost DEF Grown
<1>13. /\ Cardinality(AtWork(runs)) \in Nat /\ Cardinality(Ifaces) \in Nat
       /\ Cardinality(AtWork(runs)) + 1 <= Cardinality(Ifaces)
  <2>1. /\ IsFiniteSet(Ifaces) /\ Cardinality(Ifaces \ {iface}) = Cardinality(Ifaces) - 1
        /\ Cardinality(Ifaces) \in Nat
    BY CaptureAssumption, FS_RemoveElement, FS_CardinalityType
  <2>2. \A s \in AtWork(runs) : s.iface \in Ifaces \ {iface}
    BY <1>1, <1>5 DEF AtWork, Sound, RunOK
  <2>3. Cardinality(AtWork(runs)) <= Cardinality(Ifaces \ {iface})
    BY <1>1, <2>2, WorkFinite
  <2>4. Cardinality(AtWork(runs)) \in Nat
    BY <1>10, FS_CardinalityType
  <2>5. QED
    BY <2>1, <2>3, <2>4
<1>14. Cardinality(AtWork(runs)) * m + m <= Cardinality(Ifaces) * m
  <2>1. \A i, j, n \in Nat : i + 1 <= j => i * n + n <= j * n
    <3> SUFFICES ASSUME NEW i \in Nat, NEW j \in Nat, NEW n \in Nat, i + 1 <= j
                 PROVE  i * n + n <= j * n
      OBVIOUS
    <3>1. PICK k \in Nat : j = (i + 1) + k
      <4>1. j - (i + 1) \in Nat /\ j = (i + 1) + (j - (i + 1))
        OBVIOUS
      <4>2. QED
        BY <4>1
    <3>2. j * n = (i * n + n) + k * n /\ k * n \in Nat /\ i * n \in Nat
      BY <3>1
    <3>3. QED
      BY <3>2
  <2>2. QED
    BY <1>1, <1>13, <2>1
<1>15. Bounded(S, G)
  <2>1. Cardinality(AtWork(runs)) * m \in Nat /\ Cardinality(Ifaces) * m \in Nat
    BY <1>1, <1>13
  <2>2. Weight(G) + Grown(S, G) = (Weight(files) - Size(files[r.id])) + ((quota - Weight(files)) + Grown(runs, files))
    BY <1>2, <1>4, <1>11
  <2>3. Weight(G) + Grown(S, G) <= m + Grown(runs, files)
    BY <1>1, <1>2, <1>10, <2>2
  <2>4. Weight(G) + Grown(S, G) \in Int
    BY <1>2, <1>4, <1>10, <1>11
  <2>5. QED
    BY <1>1, <1>10, <1>12, <1>14, <2>1, <2>3, <2>4 DEF Bounded, m
<1>16. QED
  BY <1>4, <1>9, <1>15 DEF S, G

\* tcpdump writes, or starts its file again: what is written is no longer left.
LEMMA WrittenKeeps ==
  ASSUME NEW S, NEW F, Disk(S, F), Max(Quotas) \in Nat, NEW r \in AtWork(S),
         NEW n \in Nat, n <= r.cap
  PROVE  Room(S, [F EXCEPT ![r.id] = n]) /\ Bounded(S, [F EXCEPT ![r.id] = n])
<1> DEFINE G == [F EXCEPT ![r.id] = n]
<1>1. /\ Sound(S, F) /\ Room(S, F) /\ Bounded(S, F) /\ F \in [Id -> Nat \cup {None}]
  BY DEF Disk, Sound
<1>2. /\ IsFiniteSet(AtWork(S)) /\ Whole(Left(S, F), AtWork(S))
      /\ r.cap \in Nat /\ r.id \in Id /\ F[r.id] \in Nat /\ F[r.id] # None
      /\ \A s \in AtWork(S) : s.id \in Id
  BY <1>1, LeftIs DEF Sound, AtWork
<1>3. \A s \in AtWork(S) : s.id = r.id => s = r
  BY <1>1 DEF AtWork, Sound, RunOK
<1>4. G[r.id] = n /\ \A s \in AtWork(S) : s # r => G[s.id] = F[s.id]
  BY <1>1, <1>2, <1>3
<1>5. Weight(G) = (Weight(F) - F[r.id]) + n /\ Weight(F) \in Nat
  <2>1. Weight(G) = (Weight(F) - Size(F[r.id])) + Size(n) /\ Weight(F) \in Nat
    BY <1>1, <1>2, WeightChange
  <2>2. Size(F[r.id]) = F[r.id] /\ Size(n) = n
    BY <1>2, NoneIsApart DEF Size
  <2>3. QED
    BY <2>1, <2>2
<1> HIDE DEF G
<1>6. Room(S, G)
  BY <1>1, <1>4 DEF Room, AtWork
<1>7. Grown(S, G) = (Grown(S, F) + F[r.id]) - n /\ Grown(S, F) \in Int
  <2>1. /\ Left(S, F)[r] = r.cap - F[r.id] /\ Left(S, G)[r] = r.cap - n
        /\ \A s \in AtWork(S) \ {r} : Left(S, F)[s] = Left(S, G)[s]
    BY <1>4 DEF Left
  <2>2. Whole(Left(S, G), AtWork(S)) /\ Whole(Left(S, F), AtWork(S) \ {r})
    BY <1>2, <2>1 DEF Whole
  <2>3. /\ Grown(S, F) = (r.cap - F[r.id]) + Sum(Left(S, F), AtWork(S) \ {r})
        /\ Grown(S, G) = (r.cap - n) + Sum(Left(S, G), AtWork(S) \ {r})
    BY <1>2, <2>1, <2>2, SumTake DEF Grown
  <2>4. IsFiniteSet(AtWork(S) \ {r})
    BY <1>2, FS_Subset
  <2>5. /\ Sum(Left(S, F), AtWork(S) \ {r}) = Sum(Left(S, G), AtWork(S) \ {r})
        /\ Sum(Left(S, F), AtWork(S) \ {r}) \in Int
    BY <2>1, <2>2, <2>4, SumSame, SumType
  <2>6. QED
    BY <1>2, <2>3, <2>5
<1>8. Weight(G) + Grown(S, G) = Weight(F) + Grown(S, F)
  BY <1>2, <1>5, <1>7
<1>9. QED
  BY <1>1, <1>6, <1>8 DEF Bounded, G

\* tcpdump exits: its capture is still at work, and may write as much.
LEMMA ExitedKeeps ==
  ASSUME NEW S, NEW T, NEW F, Disk(S, F), Max(Quotas) \in Nat,
         NEW r \in S, NEW x, Running(r), Running(x),
         x.id = r.id, x.iface = r.iface, x.cap = r.cap, x # r, T = (S \ {r}) \cup {x}
  PROVE  Room(T, F) /\ Bounded(T, F)
<1>1. /\ Sound(S, F) /\ Room(S, F) /\ Bounded(S, F) /\ r \in AtWork(S)
  BY DEF Disk, AtWork
<1>2. /\ IsFiniteSet(AtWork(S)) /\ Whole(Left(S, F), AtWork(S))
      /\ \A s \in AtWork(S) : Left(S, F)[s] = s.cap - F[s.id]
  BY <1>1, LeftIs
<1>3. x \notin S
  BY <1>1 DEF Sound
<1>4. /\ AtWork(T) = (AtWork(S) \ {r}) \cup {x} /\ AtWork(T) \ {x} = AtWork(S) \ {r}
      /\ x \in AtWork(T)
  BY <1>1, <1>3 DEF AtWork
<1>5. Room(T, F)
  BY <1>1 DEF Room
<1>6. IsFiniteSet(AtWork(T)) /\ IsFiniteSet(AtWork(S) \ {r})
  <2>1. IsFiniteSet(AtWork(S) \ {r})
    BY <1>2, FS_Subset
  <2>2. IsFiniteSet((AtWork(S) \ {r}) \cup {x})
    BY <2>1, FS_AddElement
  <2>3. QED
    BY <1>4, <2>1, <2>2
<1>7. /\ Left(T, F)[x] = Left(S, F)[r]
      /\ \A s \in AtWork(S) \ {r} : Left(S, F)[s] = Left(T, F)[s]
  BY <1>1, <1>2, <1>4 DEF Left
<1>8. Whole(Left(T, F), AtWork(T)) /\ Whole(Left(S, F), AtWork(S) \ {r})
  BY <1>1, <1>2, <1>4, <1>7 DEF Whole
<1>9. /\ Grown(T, F) = Left(T, F)[x] + Sum(Left(T, F), AtWork(S) \ {r})
      /\ Grown(S, F) = Left(S, F)[r] + Sum(Left(S, F), AtWork(S) \ {r})
  <2>1. Grown(T, F) = Left(T, F)[x] + Sum(Left(T, F), AtWork(T) \ {x})
    <3>1. Sum(Left(T, F), AtWork(T)) = Left(T, F)[x] + Sum(Left(T, F), AtWork(T) \ {x})
      <4>1. x \in AtWork(T) /\ IsFiniteSet(AtWork(T)) /\ Whole(Left(T, F), AtWork(T))
        BY <1>4, <1>6, <1>8
      <4>2. QED
        BY ONLY <4>1, SumTake
    <3>2. QED
      BY <3>1 DEF Grown
  <2>2. Grown(S, F) = Left(S, F)[r] + Sum(Left(S, F), AtWork(S) \ {r})
    BY <1>1, <1>2, SumTake DEF Grown
  <2>3. QED
    BY <1>4, <2>1, <2>2
<1>10. Sum(Left(S, F), AtWork(S) \ {r}) = Sum(Left(T, F), AtWork(S) \ {r})
  BY <1>6, <1>7, <1>8, SumSame
<1>11. Grown(T, F) = Grown(S, F)
  BY <1>7, <1>9, <1>10
<1>12. QED
  BY <1>1, <1>5, <1>11 DEF Bounded

-----------------------------------------------------------------------------
(* The steps, on the disk.                                                 *)

\* Values the variables take.
Seen ==
  /\ seen \in Values \cup {None} /\ current \in [Known -> Values \cup {None}]
  /\ config \in [pending : BOOLEAN, trigger : Trigger]

\* Every capture has its cap; the one at work has not reached beyond it.
Capped(S) == \A r \in S : r.cap \in Nat

DInv == CInv /\ Seen /\ Capped(runs) /\ Room(runs, files) /\ Bounded(runs, files)

LEMMA DInvIs ==
  ASSUME DInv
  PROVE  Disk(runs, files) /\ quota \in Quotas /\ Max(Quotas) \in Nat
  BY QuotaTop DEF DInv, CInv, Typed, Disk

\* The captures end, or none does; the files stay.
LEMMA SameFiles ==
  ASSUME DInv, files' = files, AtWork(runs') \subseteq AtWork(runs)
  PROVE  Room(runs, files)' /\ Bounded(runs, files)'
<1>1. Room(runs', files) /\ Bounded(runs', files)
  BY DInvIs, FewerLeft
<1>2. QED
  BY <1>1

LEMMA EndAllAtWork ==
  ASSUME NEW S, NEW T, Ends(S, T), \A r \in S : RunOK(r)
  PROVE  AtWork(T) \subseteq AtWork(S) /\ (Capped(S) => Capped(T))
<1>1. \A x \in T : Running(x) => x \in S
  BY EndedIs DEF Ends
<1>2. \A r \in S : Ended(r).cap = r.cap
  BY DEF RunOK, Ended
<1>3. QED
  BY <1>1, <1>2 DEF AtWork, Capped, Ends

LEMMA StartDisk ==
  ASSUME DInv,
         \/ \E iface \in Ifaces, dur \in Durations : ClientStart(iface, dur)
         \/ ServiceLaunch
  PROVE  Capped(runs)' /\ Room(runs, files)' /\ Bounded(runs, files)'
<1>1. /\ CInv /\ Typed /\ Capped(runs) /\ Disk(runs, files) /\ quota \in Quotas
      /\ Max(Quotas) \in Nat /\ Sound(runs, files)
  BY DInvIs DEF DInv, CInv
<1>2. PICK iface \in Ifaces, dur \in Durations, at \in 0..MaxSec : Demarrer(iface, dur, at)
  <2>1. CASE \E iface \in Ifaces, dur \in Durations : ClientStart(iface, dur)
    BY <1>1, <2>1 DEF ClientStart, Typed
  <2>2. CASE ServiceLaunch
    BY <1>1, <2>2 DEF ServiceLaunch, Typed, LaunchOK
  <2>3. QED
    BY <2>1, <2>2
<1> DEFINE id == <<iface, at>>
<1>3. id \in Id /\ id[1] = iface
  BY DEF Id
<1>4. CASE StartRuns(iface, dur, at)
  <2> DEFINE cp == quota - Occupied
             r == [k |-> started + 1, id |-> id, iface |-> iface, state |-> "running",
                   dur |-> dur, at |-> at, exited |-> FALSE, cap |-> cp]
  <2>1. /\ MayStart(iface) /\ started < MaxRuns
        /\ runs' = runs \cup {r} /\ files' = [files EXCEPT ![id] = 0]
    BY <1>4 DEF StartRuns
  <2>2. started + 1 \in 0..MaxRuns /\ dur \in Nat
    BY <1>1, <2>1, CaptureAssumption DEF Typed
  <2>3. r.cap = quota - Occupied
    OBVIOUS
  <2> HIDE DEF cp, id
  <2>4. RunOK(r) /\ r.id = id /\ r.iface = iface /\ Running(r)
    BY <1>3, <2>2 DEF RunOK, Running
  <2> HIDE DEF r
  <2>5. /\ r.cap \in Nat
        /\ Room(runs \cup {r}, [files EXCEPT ![r.id] = 0])
        /\ Bounded(runs \cup {r}, [files EXCEPT ![r.id] = 0])
    BY <1>1, <2>1, <2>3, <2>4, StartedKeeps
  <2>6. QED
    BY <1>1, <2>1, <2>4, <2>5 DEF Capped
<1>5. CASE StartDies(iface, at)
  <2>1. MayStart(iface) /\ files' = [files EXCEPT ![id] = None] /\ runs' = runs
    BY <1>5 DEF StartDies
  <2> HIDE DEF id
  <2>2. \A r \in runs : r.id = id => ~Running(r)
    BY <1>1, <1>3, <2>1 DEF Sound, RunOK, MayStart
  <2>3. Room(runs, [files EXCEPT ![id] = None]) /\ Bounded(runs, [files EXCEPT ![id] = None])
    BY <1>1, <1>3, <2>2, FileGoneKeeps
  <2>4. QED
    BY <1>1, <2>1, <2>3
<1>6. CASE StartRefused(iface)
  BY <1>1, <1>6 DEF StartRefused, captureVars, DInv
<1>7. QED
  BY <1>2, <1>4, <1>5, <1>6 DEF Demarrer

LEMMA StopDisk ==
  ASSUME DInv, NEW id \in Id \cup {None}, ClientStop(id)
  PROVE  Capped(runs)' /\ Room(runs, files)' /\ Bounded(runs, files)'
<1>1. runs' = EndAll(runs, LAMBDA r : id \in {None, r.id}) /\ files' = files
  BY DEF ClientStop
<1>2. Ends(runs, runs')
  BY <1>1 DEF Ends, EndAll
<1>3. AtWork(runs') \subseteq AtWork(runs) /\ Capped(runs')
  BY <1>2, EndAllAtWork DEF DInv, CInv, Sound
<1>4. QED
  BY <1>1, <1>3, SameFiles

LEMMA DeleteDisk ==
  ASSUME DInv, NEW id \in Id, ClientDelete(id)
  PROVE  Capped(runs)' /\ Room(runs, files)' /\ Bounded(runs, files)'
<1>1. /\ \A r \in runs : r.id = id => ~Running(r)
      /\ files' = [files EXCEPT ![id] = None] /\ runs' = {r \in runs : r.id # id}
  BY DEF ClientDelete
<1>2. runs' \subseteq runs
  BY <1>1
<1>3. Room(runs', [files EXCEPT ![id] = None]) /\ Bounded(runs', [files EXCEPT ![id] = None])
  BY <1>1, <1>2, DInvIs, FileGoneKeeps
<1>4. Capped(runs')
  BY <1>2 DEF DInv, Capped
<1>5. QED
  BY <1>1, <1>3, <1>4

LEMMA GrowDisk ==
  ASSUME DInv, NEW r \in runs, Grow(r)
  PROVE  Capped(runs)' /\ Room(runs, files)' /\ Bounded(runs, files)'
<1> DEFINE n == IF files[r.id] < r.cap THEN files[r.id] + 1 ELSE 0
<1>1. files' = [files EXCEPT ![r.id] = n] /\ runs' = runs /\ r \in AtWork(runs)
  BY DEF Grow, AtWork
<1>2. files[r.id] \in Nat /\ r.cap \in Nat
  BY <1>1, DInvIs, LeftIs DEF Disk
<1>3. n \in Nat /\ n <= r.cap
  BY <1>2
<1> HIDE DEF n
<1>4. Room(runs, [files EXCEPT ![r.id] = n]) /\ Bounded(runs, [files EXCEPT ![r.id] = n])
  BY <1>1, <1>3, DInvIs, WrittenKeeps
<1>5. QED
  BY <1>1, <1>4 DEF DInv

LEMMA ExitsDisk ==
  ASSUME DInv, NEW r \in runs, Exits(r)
  PROVE  Capped(runs)' /\ Room(runs, files)' /\ Bounded(runs, files)'
<1> DEFINE x == [r EXCEPT !.exited = TRUE]
<1>1. runs' = (runs \ {r}) \cup {x} /\ files' = files /\ Running(r) /\ ~r.exited
  BY DEF Exits
<1>2. RunOK(r) /\ r.cap \in Nat /\ Capped(runs)
  BY DEF DInv, CInv, Sound, Capped
<1>3. x.id = r.id /\ x.iface = r.iface /\ x.cap = r.cap /\ Running(x) /\ x # r
  BY <1>1, <1>2 DEF RunOK, Running
<1> HIDE DEF x
<1>4. Room(runs', files) /\ Bounded(runs', files)
  BY <1>1, <1>3, DInvIs, ExitedKeeps
<1>5. Capped(runs')
  BY <1>1, <1>2, <1>3 DEF Capped
<1>6. QED
  BY <1>1, <1>4, <1>5

LEMMA ServiceDisk ==
  ASSUME DInv, Service
  PROVE  Capped(runs)' /\ Room(runs, files)' /\ Bounded(runs, files)'
<1>1. /\ files' = files
      /\ \/ runs' = AfterQuota
         \/ runs' = EndAll(AfterQuota, LAMBDA r : r.iface = trig.iface)
  BY DEF Service
<1>2. Sound(runs, files) /\ Capped(runs)
  BY DEF DInv, CInv
<1>3. Sound(AfterTime, files) /\ Sound(AfterQuota, files)
  BY <1>2, TimeEnds, QuotaEnds, EndsKeeps
<1>4. AtWork(AfterTime) \subseteq AtWork(runs) /\ Capped(AfterTime)
  BY <1>2, TimeEnds, EndAllAtWork DEF Sound
<1>5. AtWork(AfterQuota) \subseteq AtWork(AfterTime) /\ Capped(AfterQuota)
  BY <1>3, <1>4, QuotaEnds, EndAllAtWork DEF Sound
<1>6. Ends(AfterQuota, runs')
  BY <1>1 DEF Ends, EndAll
<1>7. AtWork(runs') \subseteq AtWork(AfterQuota) /\ Capped(runs')
  BY <1>3, <1>5, <1>6, EndAllAtWork DEF Sound
<1>8. QED
  BY <1>1, <1>4, <1>5, <1>7, SameFiles

\* systemd has killed the captures: nothing is left to write.
LEMMA RestartDisk ==
  ASSUME DInv, Restart
  PROVE  Capped(runs)' /\ Room(runs, files)' /\ Bounded(runs, files)'
<1> DEFINE old(id) == [k |-> 0, id |-> id, iface |-> id[1], state |-> "ended",
                       dur |-> 0, at |-> 0, exited |-> FALSE, cap |-> 0]
<1>1. files' = files /\ runs' = {old(id) : id \in {i \in Id : files[i] # None}}
  BY DEF Restart
<1>2. \A id \in Id : old(id).cap = 0 /\ ~Running(old(id))
  BY DEF Running
<1> HIDE DEF old
<1>3. AtWork(runs') \subseteq AtWork(runs) /\ Capped(runs')
  BY <1>1, <1>2 DEF AtWork, Capped
<1>4. QED
  BY <1>1, <1>3, SameFiles

LEMMA OthersDisk ==
  ASSUME DInv, UNCHANGED <<runs, files>>
  PROVE  Capped(runs)' /\ Room(runs, files)' /\ Bounded(runs, files)'
  BY DEF DInv

LEMMA SeenStep ==
  ASSUME DInv, [Next]_vars
  PROVE  Seen'
<1>1. Seen /\ Typed
  BY DEF DInv, CInv
<1>2. CASE UNCHANGED <<seen, current, config>>
  BY <1>1, <1>2 DEF Seen
<1>3. CASE \E q \in Quotas, t \in Triggers : ConfigQuota(q, t)
  BY <1>1, <1>3, CaptureAssumption DEF ConfigQuota, Seen
<1>4. CASE ConfigTrigger
  BY <1>1, <1>4, CaptureAssumption DEF ConfigTrigger, NoConfig, Seen
<1>5. CASE \E z \in Known, v \in Values : NewSample(z, v)
  BY <1>1, <1>5 DEF NewSample, triggerVars, Seen
<1>6. CASE Service
  <2>1. LastSeen \in Values \cup {None}
    BY <1>1, NoneIsApart DEF LastSeen, Watching, Seen, Typed
  <2>2. QED
    BY <1>1, <1>6, <2>1 DEF Service, Seen
<1>7. CASE Restart
  BY <1>1, <1>7, CaptureAssumption DEF Restart, Resume, NoConfig, Seen
<1>8. CASE UNCHANGED vars
  BY <1>2, <1>8 DEF vars
<1>9. \/ UNCHANGED <<seen, current, config>>
      \/ \E q \in Quotas, t \in Triggers : ConfigQuota(q, t)
      \/ ConfigTrigger \/ (\E z \in Known, v \in Values : NewSample(z, v))
      \/ Service \/ Restart \/ UNCHANGED vars
  BY DEF Next, ClientStart, ClientStop, ClientDelete, Grow, Exits, ServiceLaunch, Tick,
         triggerVars
<1>10. QED
  BY <1>2, <1>3, <1>4, <1>5, <1>6, <1>7, <1>8, <1>9

LEMMA DStep ==
  ASSUME DInv, [Next]_vars
  PROVE  DInv'
<1>1. CInv'
  BY CStep DEF DInv
<1>2. CASE UNCHANGED <<runs, files>>
  BY <1>1, <1>2, SeenStep, OthersDisk DEF DInv
<1>3. \/ UNCHANGED <<runs, files>>
      \/ (\E iface \in Ifaces, dur \in Durations : ClientStart(iface, dur)) \/ ServiceLaunch
      \/ \E id \in Id \cup {None} : ClientStop(id)
      \/ \E id \in Id : ClientDelete(id)
      \/ \E r \in runs : Grow(r) \/ Exits(r)
      \/ Service \/ Restart
  BY DEF Next, vars, ConfigQuota, ConfigTrigger, NewSample, Tick, captureVars
<1>4. Capped(runs)' /\ Room(runs, files)' /\ Bounded(runs, files)'
  BY <1>3, OthersDisk, StartDisk, StopDisk, DeleteDisk, GrowDisk, ExitsDisk, ServiceDisk,
     RestartDisk
<1>5. QED
  BY <1>1, <1>4, SeenStep DEF DInv

LEMMA DInit == Init => DInv
<1>1. SUFFICES ASSUME Init PROVE DInv
  OBVIOUS
<1>2. CInv /\ quota \in Quotas
  BY <1>1, CInit DEF Init
<1>3. Seen
  BY <1>1, CaptureAssumption DEF Init, Seen, NoConfig
<1>4. runs = {} /\ \A id \in Id : files[id] = None
  BY <1>1 DEF Init
<1>5. Capped(runs) /\ Room(runs, files) /\ AtWork(runs) = {} /\ Here(files) = {}
  BY <1>4 DEF Capped, Room, AtWork, Here
<1>6. Weight(files) = 0 /\ Grown(runs, files) = 0
  BY <1>5, SumOfNone DEF Weight, Grown
<1>7. Max(Quotas) \in Nat /\ Cardinality(Ifaces) \in Nat
  BY <1>2, QuotaTop, CaptureAssumption, FS_CardinalityType
<1>8. Cardinality(Ifaces) * Max(Quotas) \in Nat
  BY <1>7
<1>9. QED
  BY <1>2, <1>3, <1>5, <1>6, <1>8 DEF DInv, Bounded

\* Whatever is started, ended, deleted or restarted, and whatever the quota was
\* meanwhile: every file is in the list, and even if the maintenance thread never
\* came back tcpdump could not write beyond one quota per interface (capture.hpp,
\* demarrer's `reste`).
THEOREM DiskStaysInHand == Spec => []DiskInHand
<1>1. Spec => []DInv
  <2>1. DInv /\ [Next]_vars => DInv'
    BY DStep
  <2>2. QED
    BY DInit, <2>1, PTL DEF Spec
<1>2. ASSUME DInv PROVE DiskInHand
  <2>1. CInv /\ Typed /\ Sound(runs, files) /\ Seen /\ Capped(runs) /\ Bounded(runs, files)
    BY <1>2 DEF DInv, CInv
  <2>2. FilesAreListed
    BY <2>1 DEF Sound, FilesAreListed
  <2>3. DiskBounded
    BY <2>1, DiskIs DEF Bounded, DiskBounded
  <2>4. runs \subseteq Run
    BY <2>1 DEF Sound, RunOK, Run, Capped
  <2>5. launch \in [iface : Ifaces \cup {None}, dur : Nat, at : 0..MaxSec]
    <3>1. Durations \subseteq Nat /\ 0 \in 0..MaxSec
      BY CaptureAssumption
    <3>2. NoLaunch \in [iface : Ifaces \cup {None}, dur : Nat, at : 0..MaxSec]
      BY <3>1 DEF NoLaunch
    <3>3. LaunchOK(launch)
      BY <2>1 DEF Typed
    <3>4. QED
      BY <3>1, <3>2, <3>3 DEF LaunchOK
  <2>6. TypeOK
    BY <2>1, <2>4, <2>5 DEF TypeOK, Typed, Sound, Seen
  <2>7. QED
    BY <2>2, <2>3, <2>6 DEF DiskInHand
<1>3. QED
  BY <1>1, <1>2, PTL

-----------------------------------------------------------------------------
(* The pages. What a reading carries, or a list shows, as over is over:    *)
(* Behind says it of the runs of a reading, whenever it was answered.      *)

PageAnswerSet == [run : [PageRuns -> Pa!States], setting : [{"capture", "lldp"} -> PageSettings]]
PageCallSet == [op : {"tick", "refresh"}, answer : {<<>>} \cup {<<x>> : x \in PageAnswerSet}]

PageBehind(l) == \A r \in PageRuns : l[r] = "done" => run[r] \in {"done", "gone"}

PageTyped ==
  /\ run \in [PageRuns -> Pa!States] /\ list \in [PageRuns -> Pa!States]
  /\ setting \in [{"capture", "lldp"} -> PageSettings]
  /\ page \in Pa!Titles \cup {"other", "closed"} /\ text \in BOOLEAN
  /\ late \in 0..MaxIntervals
  /\ body \in {"empty", "shown", "error"} /\ form \in BOOLEAN
  /\ fields \in PageSettings \cup {None} /\ typed \in PageSettings \cup {None}
  /\ calls \in Seq(PageCallSet) /\ Len(calls) <= MaxReadings

PageHeard ==
  \A i \in 1..Len(calls) : calls[i].answer # <<>> => PageBehind(calls[i].answer[1].run)

\* The forms are there when the page shows something, with what was typed.
PageFormThere ==
  page = "capture" => /\ body = "shown" => form /\ fields \in PageSettings
                      /\ typed # None => form /\ fields = typed

PagePInv == PageTyped /\ PageHeard /\ PageBehind(list) /\ PageFormThere

-----------------------------------------------------------------------------
LEMMA PageReadings ==
  /\ \A op \in {"tick", "refresh"} : /\ Pa!Reading(op) \in PageCallSet
                                     /\ Pa!Reading(op).answer = <<>>
  /\ \A c \in PageCallSet : c.answer # <<>> => c.answer[1] \in PageAnswerSet
  BY DEF Pa!Reading, PageCallSet

\* A reading more.
LEMMA PageAskedIs ==
  ASSUME PageTyped, PageHeard, NEW op \in {"tick", "refresh"}, Pa!Asked(op)
  PROVE  /\ calls' \in Seq(PageCallSet) /\ Len(calls') <= MaxReadings
         /\ \A i \in 1..Len(calls') : calls'[i].answer # <<>> => PageBehind(calls'[i].answer[1].run)
<1>1. /\ calls \in Seq(PageCallSet) /\ Len(calls) < MaxReadings /\ calls' = Append(calls, Pa!Reading(op))
      /\ Pa!Reading(op) \in PageCallSet /\ Pa!Reading(op).answer = <<>> /\ MaxReadings \in Nat
  BY PageReadings, PagesAssumption DEF PageTyped, Pa!Asked
<1>2. /\ calls' \in Seq(PageCallSet) /\ Len(calls') = Len(calls) + 1 /\ Len(calls) \in Nat
      /\ \A i \in 1..Len(calls) : calls'[i] = calls[i]
      /\ calls'[Len(calls) + 1] = Pa!Reading(op)
  BY <1>1
<1>3. \A i \in 1..Len(calls') : i \in 1..Len(calls) \/ i = Len(calls) + 1
  BY <1>2
<1>4. \A i \in 1..Len(calls') : calls'[i].answer # <<>> => PageBehind(calls'[i].answer[1].run)
  BY <1>1, <1>2, <1>3 DEF PageHeard
<1>5. QED
  BY <1>1, <1>2, <1>4

PageAmong(u, s) == \A j \in 1..Len(u) : \E k \in 1..Len(s) : u[j] = s[k]

\* A reading less.
LEMMA PageRest ==
  ASSUME NEW S, NEW s \in Seq(S), NEW i \in 1..Len(s)
  PROVE  /\ Pa!RemoveAt(s, i) \in Seq(S) /\ Len(Pa!RemoveAt(s, i)) = Len(s) - 1
         /\ PageAmong(Pa!RemoveAt(s, i), s)
<1> DEFINE u == SubSeq(s, 1, i - 1)
           v == SubSeq(s, i + 1, Len(s))
<1>1. Pa!RemoveAt(s, i) = u \o v
  BY DEF Pa!RemoveAt
<1>2. u \in Seq(S) /\ Len(u) = i - 1 /\ \A j \in 1..i - 1 : u[j] = s[j]
  OBVIOUS
<1>3. v \in Seq(S) /\ Len(v) = Len(s) - i /\ \A j \in 1..Len(s) - i : v[j] = s[i + j]
  OBVIOUS
<1> HIDE DEF u, v
<1>4. u \o v \in Seq(S) /\ Len(u \o v) = Len(s) - 1
  <2>1. u \in Seq(S) /\ v \in Seq(S)
    BY <1>2, <1>3
  <2>2. u \o v \in Seq(S) /\ Len(u \o v) = Len(u) + Len(v)
    BY ONLY <2>1
  <2>3. Len(u) = i - 1 /\ Len(v) = Len(s) - i /\ Len(s) \in Nat /\ i \in Nat
    BY <1>2, <1>3
  <2>4. QED
    BY ONLY <2>2, <2>3
<1>5. ASSUME NEW j \in 1..Len(s) - 1
      PROVE  \E k \in 1..Len(s) : (u \o v)[j] = s[k]
  <2>1. CASE j <= i - 1
    BY <1>2, <1>3, <2>1
  <2>2. CASE j > i - 1
    <3>1. (u \o v)[j] = v[j - (i - 1)]
      BY <1>2, <1>3, <2>2
    <3>2. j - (i - 1) \in 1..Len(s) - i /\ j + 1 \in 1..Len(s) /\ i + (j - (i - 1)) = j + 1
      BY <2>2
    <3>3. QED
      BY <1>3, <3>1, <3>2
  <2>3. j <= i - 1 \/ j > i - 1
    OBVIOUS
  <2>4. QED
    BY <2>1, <2>2, <2>3
<1>6. QED
  BY <1>1, <1>4, <1>5 DEF PageAmong

LEMMA PageRemovedIs ==
  ASSUME PageTyped, PageHeard, NEW i \in DOMAIN calls, calls' = Pa!RemoveAt(calls, i)
  PROVE  /\ calls' \in Seq(PageCallSet) /\ Len(calls') <= MaxReadings
         /\ \A j \in 1..Len(calls') : calls'[j].answer # <<>> => PageBehind(calls'[j].answer[1].run)
<1>1. calls \in Seq(PageCallSet) /\ i \in 1..Len(calls) /\ Len(calls) <= MaxReadings /\ MaxReadings \in Nat
  BY PagesAssumption DEF PageTyped
<1>2. /\ Pa!RemoveAt(calls, i) \in Seq(PageCallSet) /\ Len(Pa!RemoveAt(calls, i)) = Len(calls) - 1
      /\ PageAmong(Pa!RemoveAt(calls, i), calls)
  BY <1>1, PageRest
<1>3. Len(calls') <= MaxReadings
  BY <1>1, <1>2
<1>4. QED
  BY <1>2, <1>3 DEF PageHeard, PageAmong

\* Runs go forward only: what was behind stays so.
PageForward == \A r \in PageRuns : run[r] \in {"done", "gone"} => run'[r] \in {"done", "gone"}

LEMMA PageForwardKeeps ==
  ASSUME PageForward, NEW l, PageBehind(l)
  PROVE  \A r \in PageRuns : l[r] = "done" => run'[r] \in {"done", "gone"}
  BY DEF PageForward, PageBehind

\* What a step that changes neither the page nor the readings keeps.
LEMMA PageControllerKeeps ==
  ASSUME PagePInv, PageForward, run' \in [PageRuns -> Pa!States],
         setting' \in [{"capture", "lldp"} -> PageSettings], UNCHANGED <<Pa!shown, calls>>
  PROVE  PagePInv'
<1>1. PageTyped'
  BY DEF PagePInv, PageTyped, Pa!shown
<1>2. PageHeard' /\ PageBehind(list)'
  BY PageForwardKeeps DEF PagePInv, PageHeard, PageBehind, Pa!shown
<1>3. QED
  BY <1>1, <1>2 DEF PagePInv, PageFormThere, Pa!shown

\* ... and one that asks for the list again.
LEMMA PageOrderKeeps ==
  ASSUME PagePInv, Pa!Asked("refresh"), PageForward, run' \in [PageRuns -> Pa!States],
         setting' \in [{"capture", "lldp"} -> PageSettings], UNCHANGED Pa!shown
  PROVE  PagePInv'
<1>1. /\ calls' \in Seq(PageCallSet) /\ Len(calls') <= MaxReadings
      /\ \A i \in 1..Len(calls') : calls'[i].answer # <<>> => PageBehind(calls'[i].answer[1].run)
  BY PageAskedIs DEF PagePInv
<1>2. PageTyped'
  BY <1>1 DEF PagePInv, PageTyped, Pa!shown
<1>3. PageHeard' /\ PageBehind(list)'
  BY <1>1, PageForwardKeeps DEF PagePInv, PageHeard, PageBehind, Pa!shown
<1>4. QED
  BY <1>2, <1>3 DEF PagePInv, PageFormThere, Pa!shown

LEMMA PageTickKeeps == ASSUME PagePInv, Pa!Tick PROVE PagePInv'
<1>1. /\ calls' \in Seq(PageCallSet) /\ Len(calls') <= MaxReadings
      /\ \A i \in 1..Len(calls') : calls'[i].answer # <<>> => PageBehind(calls'[i].answer[1].run)
  BY PageAskedIs DEF PagePInv, Pa!Tick
<1>2. QED
  BY <1>1 DEF PagePInv, PageTyped, PageHeard, PageBehind, PageFormThere, Pa!Tick, Pa!controller, Pa!shown

LEMMA PageAnsweredKeeps == ASSUME PagePInv, NEW i \in DOMAIN calls, Pa!Answered(i) PROVE PagePInv'
<1> DEFINE x == [run |-> run, setting |-> setting]
<1>1. /\ calls \in Seq(PageCallSet) /\ i \in 1..Len(calls) /\ calls[i] \in PageCallSet
      /\ calls' = [calls EXCEPT ![i].answer = <<x>>] /\ UNCHANGED <<Pa!controller, Pa!shown>>
  BY DEF PagePInv, PageTyped, Pa!Answered
<1>2. x \in PageAnswerSet /\ x.run = run
  BY DEF PagePInv, PageTyped, PageAnswerSet
<1> HIDE DEF x
<1> DEFINE c == [calls[i] EXCEPT !.answer = <<x>>]
<1>3. c \in PageCallSet /\ c.answer = <<x>>
  BY <1>1, <1>2 DEF PageCallSet
<1>4. calls' = [calls EXCEPT ![i] = c]
  BY <1>1
<1> HIDE DEF c
<1>5. /\ calls' \in Seq(PageCallSet) /\ Len(calls') = Len(calls) /\ calls'[i] = c
      /\ \A j \in 1..Len(calls) : j # i => calls'[j] = calls[j]
  BY <1>1, <1>3, <1>4
<1>6. PageBehind(c.answer[1].run)
  BY <1>2, <1>3 DEF PageBehind
<1>7. PageHeard'
  <2>1. run' = run /\ PageHeard
    BY <1>1 DEF PagePInv, Pa!controller
  <2>2. \A j \in 1..Len(calls) : calls'[j].answer # <<>> => PageBehind(calls'[j].answer[1].run)
    BY <1>5, <1>6, <2>1 DEF PageHeard
  <2>3. QED
    BY <1>5, <2>1, <2>2 DEF PageHeard, PageBehind
<1>8. QED
  BY <1>1, <1>5, <1>7 DEF PagePInv, PageTyped, PageBehind, PageFormThere, Pa!controller, Pa!shown

\* The page of capture writes its forms once.
LEMMA PageAppliedKeeps == ASSUME PagePInv, NEW i \in DOMAIN calls, Pa!Applied(i) PROVE PagePInv'
<1> DEFINE answer == calls[i].answer[1]
<1>1. calls \in Seq(PageCallSet) /\ i \in 1..Len(calls) /\ calls[i].answer # <<>>
  BY DEF PagePInv, PageTyped, Pa!Applied
<1>2. answer \in PageAnswerSet /\ PageBehind(answer.run)
  BY <1>1, PageReadings DEF PagePInv, PageHeard
<1>3. /\ calls' \in Seq(PageCallSet) /\ Len(calls') <= MaxReadings
      /\ \A j \in 1..Len(calls') : calls'[j].answer # <<>> => PageBehind(calls'[j].answer[1].run)
  BY PageRemovedIs DEF PagePInv, Pa!Applied
<1>4. UNCHANGED <<run, setting, page, text, typed, late>>
  BY DEF Pa!Applied, Pa!controller
<1>5. \/ page = "capture" /\ Pa!pageCapture(answer)
      \/ page = "lldp" /\ Pa!pageLldp(answer)
      \/ page = "audit" /\ Pa!pageAudit
      \/ Pa!majTout(answer)
  BY DEF Pa!Applied
<1> HIDE DEF answer
<1>6. /\ answer.run \in [PageRuns -> Pa!States] /\ answer.setting["capture"] \in PageSettings
      /\ answer.setting["lldp"] \in PageSettings
  BY <1>2 DEF PageAnswerSet
<1>7. (list' = list \/ list' = answer.run) /\ body' \in {"empty", "shown", "error"}
      /\ form' \in BOOLEAN /\ fields' \in PageSettings \cup {None}
  BY <1>5, <1>6 DEF Pa!pageCapture, Pa!pageLldp, Pa!pageAudit, Pa!majTout, PagePInv, PageTyped
<1>8. PageFormThere'
  BY <1>4, <1>5, <1>6 DEF Pa!pageCapture, Pa!pageLldp, Pa!pageAudit, Pa!majTout, PagePInv, PageFormThere
<1>9. PageTyped'
  BY <1>3, <1>4, <1>6, <1>7 DEF PagePInv, PageTyped
<1>10. PageBehind(list)' /\ PageHeard'
  BY <1>2, <1>3, <1>4, <1>7 DEF PagePInv, PageBehind, PageHeard
<1>11. QED
  BY <1>8, <1>9, <1>10 DEF PagePInv

LEMMA PageNothingIs == Pa!Nothing \in [PageRuns -> Pa!States] /\ PageBehind(Pa!Nothing)
  BY DEF Pa!Nothing, Pa!States, PageBehind

LEMMA PageLostKeeps == ASSUME PagePInv, NEW i \in DOMAIN calls, Pa!Lost(i) PROVE PagePInv'
<1>1. /\ calls' \in Seq(PageCallSet) /\ Len(calls') <= MaxReadings
      /\ \A j \in 1..Len(calls') : calls'[j].answer # <<>> => PageBehind(calls'[j].answer[1].run)
  BY PageRemovedIs DEF PagePInv, Pa!Lost
<1>2. /\ UNCHANGED <<run, setting, page, text, form, late>>
      /\ \/ body' = "error" /\ fields' = None /\ typed' = None /\ list' = Pa!Nothing
         \/ UNCHANGED <<body, fields, typed, list>>
  BY DEF Pa!Lost, Pa!controller
<1>3. PageTyped'
  BY <1>1, <1>2, PageNothingIs DEF PagePInv, PageTyped
<1>4. PageHeard' /\ PageBehind(list)'
  BY <1>1, <1>2, PageNothingIs DEF PagePInv, PageHeard, PageBehind
<1>5. PageFormThere'
  BY <1>2 DEF PagePInv, PageFormThere
<1>6. QED
  BY <1>3, <1>4, <1>5 DEF PagePInv

\* Pages opened and closed, by the operator or by an interval.
LEMMA PageOpenedKeeps ==
  ASSUME PagePInv,
         (\E t \in Pa!Titles : Pa!ouvrirPage(t)) \/ Pa!fermer \/ Pa!CloseText \/ Pa!LateTick
  PROVE  PagePInv'
<1>1. /\ UNCHANGED <<run, setting>> /\ body' = "empty" /\ form' = FALSE
      /\ fields' = None /\ list' = Pa!Nothing /\ typed' = None /\ text' \in BOOLEAN
      /\ page' \in Pa!Titles \cup {"other", "closed"}
      /\ late' \in 0..MaxIntervals
      /\ calls' = <<Pa!Reading("tick")>> \/ calls' = <<>>
  <2>1. /\ late \in 0..MaxIntervals /\ MaxIntervals \in Nat /\ text \in BOOLEAN
    BY PagesAssumption DEF PagePInv, PageTyped
  <2>2. CASE \E t \in Pa!Titles : Pa!ouvrirPage(t)
    BY <2>1, <2>2 DEF Pa!ouvrirPage, Pa!controller
  <2>3. CASE Pa!fermer \/ Pa!CloseText
    BY <2>1, <2>3 DEF Pa!fermer, Pa!CloseText, Pa!Emptied, Pa!controller
  <2>4. CASE Pa!LateTick
    <3>1. late' \in 0..MaxIntervals
      BY <2>1, <2>4 DEF Pa!LateTick
    <3>2. QED
      BY <2>4, <3>1 DEF Pa!LateTick, Pa!Emptied, Pa!controller
  <2>5. QED
    BY <2>2, <2>3, <2>4
<1>2. /\ calls' \in Seq(PageCallSet) /\ Len(calls') <= 1
      /\ \A i \in 1..Len(calls') : calls'[i].answer = <<>>
  <2>1. Pa!Reading("tick") \in PageCallSet /\ Pa!Reading("tick").answer = <<>>
    BY PageReadings
  <2> DEFINE c == Pa!Reading("tick")
  <2> HIDE DEF c
  <2>2. CASE calls' = <<c>>
    <3>1. <<c>> \in Seq(PageCallSet) /\ Len(<<c>>) = 1 /\ <<c>>[1] = c
      BY <2>1 DEF c
    <3>2. \A i \in 1..1 : i = 1
      OBVIOUS
    <3>3. QED
      BY <2>1, <2>2, <3>1, <3>2 DEF c
  <2>3. CASE calls' = <<>>
    BY <2>3
  <2>4. QED
    BY <1>1, <2>2, <2>3 DEF c
<1>3. PageTyped'
  <2>1. Len(calls') <= MaxReadings
    BY <1>2, PagesAssumption
  <2>2. QED
    BY <1>1, <1>2, <2>1, PageNothingIs DEF PagePInv, PageTyped
<1>4. PageHeard' /\ PageBehind(list)' /\ PageFormThere'
  BY <1>1, <1>2, PageNothingIs DEF PageHeard, PageBehind, PageFormThere
<1>5. QED
  BY <1>3, <1>4 DEF PagePInv

LEMMA PageTextKeeps == ASSUME PagePInv, Pa!OpenOther \/ Pa!CopyByHand PROVE PagePInv'
<1>0. late \in 0..MaxIntervals /\ MaxIntervals \in Nat /\ text \in BOOLEAN
  BY PagesAssumption DEF PagePInv, PageTyped
<1>1. /\ UNCHANGED <<run, setting, body, form, fields, list, typed>> /\ text' \in BOOLEAN
      /\ late' \in 0..MaxIntervals
      /\ \/ page' = "other" /\ calls' = calls
         \/ page' = page /\ calls' = <<>>
  <2>1. CASE Pa!OpenOther
    BY <1>0, <2>1 DEF Pa!OpenOther, Pa!controller
  <2>2. CASE Pa!CopyByHand
    <3>1. late' \in 0..MaxIntervals
      BY <1>0, <2>2 DEF Pa!CopyByHand
    <3>2. QED
      BY <2>2, <3>1 DEF Pa!CopyByHand, Pa!controller
  <2>3. QED
    BY <2>1, <2>2
<1>2. <<>> \in Seq(PageCallSet) /\ Len(<<>>) = 0 /\ 0 <= MaxReadings
  BY PagesAssumption
<1>3. PageTyped'
  BY <1>1, <1>2 DEF PagePInv, PageTyped
<1>4. PageHeard' /\ PageBehind(list)' /\ PageFormThere'
  BY <1>1, <1>2 DEF PagePInv, PageHeard, PageBehind, PageFormThere
<1>5. QED
  BY <1>3, <1>4 DEF PagePInv

LEMMA PageTypeKeeps == ASSUME PagePInv, NEW v \in PageSettings, Pa!Type(v) \/ Pa!ChooseDelay(v) PROVE PagePInv'
<1>1. /\ UNCHANGED <<run, page, text, body, form, list, calls, late>> /\ body = "shown"
      /\ fields' = v
      /\ \/ page = "capture" /\ typed' = v /\ setting' = setting
         \/ page = "lldp" /\ typed' = typed
            /\ setting' \in {setting, [setting EXCEPT !["lldp"] = v]}
  BY DEF Pa!Type, Pa!ChooseDelay, Pa!On, Pa!controller
<1>2. PageTyped'
  BY <1>1 DEF PagePInv, PageTyped
<1>3. PageHeard' /\ PageBehind(list)' /\ PageFormThere'
  BY <1>1 DEF PagePInv, PageHeard, PageBehind, PageFormThere
<1>4. QED
  BY <1>2, <1>3 DEF PagePInv

\* One capture goes forward.
LEMMA PageOneForward ==
  ASSUME PageTyped, NEW r \in PageRuns, NEW n \in {"running", "done", "gone"},
         run[r] \in {"done", "gone"} => n \in {"done", "gone"},
         run' = [run EXCEPT ![r] = n]
  PROVE  PageForward /\ run' \in [PageRuns -> Pa!States]
  BY DEF PageTyped, PageForward, Pa!States

\* Orders, done or not.
LEMMA PageOrdersKeep ==
  ASSUME PagePInv, Pa!Start \/ Pa!Apply \/ \E r \in PageRuns : Pa!Stop(r) \/ Pa!Delete(r)
  PROVE  PagePInv'
<1>1. Pa!Asked("refresh") /\ UNCHANGED Pa!shown /\ Pa!On("capture")
  BY DEF Pa!Start, Pa!Apply, Pa!Stop, Pa!Delete, Pa!Order
<1>2. fields \in PageSettings /\ PageTyped
  BY <1>1 DEF Pa!On, PagePInv, PageFormThere
<1>3. \/ UNCHANGED <<run, setting>>
      \/ /\ setting' = setting
         /\ \E r \in PageRuns :
              \/ run[r] = "none" /\ run' = [run EXCEPT ![r] = "running"]
              \/ run[r] = "running" /\ run' = [run EXCEPT ![r] = "done"]
              \/ run[r] = "done" /\ run' = [run EXCEPT ![r] = "gone"]
      \/ run' = run /\ setting' = [setting EXCEPT !["capture"] = fields]
  BY DEF Pa!Start, Pa!Apply, Pa!Stop, Pa!Delete, Pa!Order, Pa!controller
<1>4. PageForward /\ run' \in [PageRuns -> Pa!States]
  <2>1. CASE run' = run
    BY <1>2, <2>1 DEF PageForward, PageTyped
  <2>2. QED
    BY <1>2, <1>3, <2>1, PageOneForward
<1>5. setting' \in [{"capture", "lldp"} -> PageSettings]
  BY <1>2, <1>3 DEF PageTyped
<1>6. QED
  BY <1>1, <1>4, <1>5, PageOrderKeeps

LEMMA PageElsewhereKeeps == ASSUME PagePInv, Pa!Elsewhere PROVE PagePInv'
<1>1. PageTyped
  BY DEF PagePInv
<1>2. UNCHANGED <<Pa!shown, calls>>
  BY DEF Pa!Elsewhere
<1>3. CASE \E r \in PageRuns, s \in {<<"none", "running">>, <<"running", "done">>, <<"done", "gone">>} :
             run[r] = s[1] /\ run' = [run EXCEPT ![r] = s[2]] /\ UNCHANGED setting
  <2> DEFINE Steps == {<<"none", "running">>, <<"running", "done">>, <<"done", "gone">>}
  <2>0. \A s \in Steps : \/ s[1] = "none" /\ s[2] = "running"
                         \/ s[1] = "running" /\ s[2] = "done"
                         \/ s[1] = "done" /\ s[2] = "gone"
    OBVIOUS
  <2> HIDE DEF Steps
  <2>1. PICK r \in PageRuns :
          \/ run[r] = "none" /\ run' = [run EXCEPT ![r] = "running"]
          \/ run[r] = "running" /\ run' = [run EXCEPT ![r] = "done"]
          \/ run[r] = "done" /\ run' = [run EXCEPT ![r] = "gone"]
    <3>1. PICK r \in PageRuns, s \in Steps : run[r] = s[1] /\ run' = [run EXCEPT ![r] = s[2]]
      BY <1>3 DEF Steps
    <3>2. QED
      BY <2>0, <3>1
  <2>2. PageForward /\ run' \in [PageRuns -> Pa!States] /\ setting' = setting
    BY <1>1, <1>3, <2>1, PageOneForward
  <2>3. QED
    BY <1>1, <1>2, <2>2, PageControllerKeeps DEF PageTyped
<1>4. CASE \E p \in {"capture", "lldp"}, v \in PageSettings :
             setting' = [setting EXCEPT ![p] = v] /\ UNCHANGED run
  <2>1. setting' \in [{"capture", "lldp"} -> PageSettings]
    BY <1>1, <1>4 DEF PageTyped
  <2>2. PageForward /\ run' \in [PageRuns -> Pa!States]
    BY <1>1, <1>4 DEF PageForward, PageTyped
  <2>3. QED
    BY <1>2, <2>1, <2>2, PageControllerKeeps
<1>5. QED
  BY <1>3, <1>4 DEF Pa!Elsewhere

LEMMA PagePStep == ASSUME PagePInv, [Pa!Next]_(Pa!vars) PROVE PagePInv'
<1>1. CASE UNCHANGED Pa!vars
  BY <1>1 DEF PagePInv, PageTyped, PageHeard, PageBehind, PageFormThere, Pa!vars
<1>2. CASE \E i \in DOMAIN calls : Pa!Answered(i) \/ Pa!Applied(i) \/ Pa!Lost(i)
  BY <1>2, PageAnsweredKeeps, PageAppliedKeeps, PageLostKeeps
<1>3. CASE (\E t \in Pa!Titles : Pa!ouvrirPage(t)) \/ Pa!fermer \/ Pa!CloseText \/ Pa!LateTick
  BY <1>3, PageOpenedKeeps
<1>4. CASE Pa!OpenOther \/ Pa!CopyByHand
  BY <1>4, PageTextKeeps
<1>5. CASE \E v \in PageSettings : Pa!Type(v) \/ Pa!ChooseDelay(v)
  BY <1>5, PageTypeKeeps
<1>6. CASE Pa!Start \/ Pa!Apply \/ \E r \in PageRuns : Pa!Stop(r) \/ Pa!Delete(r)
  BY <1>6, PageOrdersKeep
<1>7. QED
  BY <1>1, <1>2, <1>3, <1>4, <1>5, <1>6, PageTickKeeps, PageElsewhereKeeps DEF Pa!Next

LEMMA PagePInit == ASSUME Pa!Init PROVE PagePInv
<1>1. <<>> \in Seq(PageCallSet) /\ Len(<<>>) = 0 /\ 0 <= MaxReadings /\ 0 \in 0..MaxIntervals
  BY PagesAssumption
<1>2. PageTyped
  BY <1>1, PageNothingIs DEF Pa!Init, PageTyped
<1>3. QED
  BY <1>1, <1>2, PageNothingIs DEF Pa!Init, PagePInv, PageHeard, PageFormThere

LEMMA PagePHolds == ASSUME PagePInv PROVE Pa!TypeOK /\ Pa!FormsHold
<1>1. Pa!TypeOK
  BY DEF PagePInv, PageTyped, Pa!TypeOK
<1>2. Pa!TypedKept
  BY DEF PagePInv, PageFormThere, Pa!TypedKept
<1>3. Pa!DoneIsDone
  BY DEF PagePInv, PageBehind, Pa!DoneIsDone
<1>4. QED
  BY <1>1, <1>2, <1>3 DEF Pa!FormsHold

-----------------------------------------------------------------------------
(* The captures that a page simulates. An answer looks at the captures in  *)
(* three steps, durations, quota and trigger: Served is what they leave    *)
(* together.                                                               *)

SimRunSet == [iface : SimIfaces, dur : SimDurations, on : BOOLEAN,
           from : 0..SimMaxClock, till : 0..SimMaxClock]

SimApart(rs) == \A r, s \in rs : r.on /\ s.on /\ r.iface = s.iface => r = s
SimSoundRuns(rs) == rs \subseteq SimRunSet /\ IsFiniteSet(rs) /\ SimApart(rs)

\* T is S with some of its captures ended.
SimEndsSome(S, T) == \A x \in T : x \in S \/ \E r \in S : x = Ne!terminer(r)

SimInTime(rs, q) == \A r \in rs : r.on => ~Ne!Overdue(r) /\ Ne!occupe(rs) < q

SimNInv ==
  /\ simClock \in 0..SimMaxClock /\ simQuota \in SimQuotas /\ simTrigger \in Ne!Conditions
  /\ simArmed \in BOOLEAN /\ value \in {0, 1} /\ held \in BOOLEAN /\ shown \in BOOLEAN
  /\ SimSoundRuns(simRuns)
  /\ Ne!AnswersInTime /\ Ne!TriggerSees /\ Ne!ArmedIsCondition
  /\ simArmed = FALSE => charged = {}

LEMMA SimOverIs ==
  ASSUME NEW r \in SimRunSet, simClock \in 0..SimMaxClock
  PROVE  Ne!terminer(r) \in SimRunSet /\ ~Ne!terminer(r).on
  BY DEF SimRunSet, Ne!terminer

LEMMA SimEndsSound ==
  ASSUME simClock \in 0..SimMaxClock, NEW S, SimSoundRuns(S), NEW T, SimEndsSome(S, T)
  PROVE  SimSoundRuns(T) /\ \A x \in T : x.on => x \in S
<1>1. \A x \in T : x.on => x \in S
  BY SimOverIs DEF SimEndsSome, SimSoundRuns
<1>2. T \subseteq SimRunSet
  BY SimOverIs DEF SimEndsSome, SimSoundRuns
<1> DEFINE f == [r \in S |-> Ne!terminer(r)]
           U == {Ne!terminer(r) : r \in S}
<1>3. IsFiniteSet(U)
  <2>1. f \in Surjection(S, U)
    BY DEF Surjection
  <2>2. QED
    BY <2>1, FS_Surjection DEF SimSoundRuns
<1>4. IsFiniteSet(T)
  <2>1. IsFiniteSet(S \cup U)
    BY <1>3, FS_Union DEF SimSoundRuns
  <2>2. T \subseteq S \cup U
    BY DEF SimEndsSome
  <2>3. QED
    BY <2>1, <2>2, FS_Subset
<1>5. SimApart(T)
  BY <1>1 DEF SimSoundRuns, SimApart
<1>6. QED
  BY <1>1, <1>2, <1>4, <1>5 DEF SimSoundRuns

\* What the captures weigh, as a sum.
LEMMA SimOccupeIs ==
  ASSUME NEW rs
  PROVE  Ne!occupe(rs) = Sum([r \in rs |-> Ne!tailleDe(r)], rs)
  BY DEF Ne!occupe, Sum, MapThenSumSet, Ne!MapThenSumSet, MapThenFoldSet, Ne!MapThenFoldSet

LEMMA SimTailleWhole ==
  ASSUME simClock \in 0..SimMaxClock, NEW r \in SimRunSet
  PROVE  Ne!tailleDe(r) \in Int
<1>1. /\ SimRate[r.iface] \in Nat /\ r.from \in Int /\ r.till \in Int /\ simClock \in Int
      /\ r.on \in BOOLEAN
  BY SimAssumption DEF SimRunSet
<1>2. (IF r.on THEN simClock ELSE r.till) - r.from \in Int
  BY <1>1
<1>3. QED
  BY <1>1, <1>2 DEF Ne!tailleDe

LEMMA SimOccupeWhole ==
  ASSUME simClock \in 0..SimMaxClock, NEW rs, SimSoundRuns(rs)
  PROVE  Ne!occupe(rs) \in Int
<1> DEFINE f == [r \in rs |-> Ne!tailleDe(r)]
<1>1. Whole(f, rs) /\ IsFiniteSet(rs)
  BY SimTailleWhole DEF Whole, SimSoundRuns
<1> HIDE DEF f
<1>2. Sum(f, rs) \in Int
  BY <1>1, SumType
<1>3. QED
  BY <1>2, SimOccupeIs DEF f

\* A capture that starts weighs nothing yet, and is not overdue.
LEMMA SimStartSound ==
  ASSUME simClock \in 0..SimMaxClock, NEW rs, SimSoundRuns(rs), NEW q \in Nat, NEW iface, NEW dur \in SimDurations,
         ~Ne!Refused(rs, iface, q)
  PROVE  /\ SimSoundRuns(Ne!demarrer(rs, iface, dur))
         /\ Ne!occupe(Ne!demarrer(rs, iface, dur)) = Ne!occupe(rs)
         /\ Ne!occupe(rs) < q
         /\ \A r \in Ne!demarrer(rs, iface, dur) :
              r \notin rs => r.iface = iface /\ r.dur = dur /\ r.from = simClock
<1> DEFINE x == [iface |-> iface, dur |-> dur, on |-> TRUE, from |-> simClock, till |-> 0]
           T == rs \cup {x}
<1>1. T = Ne!demarrer(rs, iface, dur)
  BY DEF Ne!demarrer
<1>2. /\ iface \in SimIfaces /\ ~(Ne!occupe(rs) >= q)
      /\ \A r \in rs : ~(r.on /\ r.iface = iface)
  BY DEF Ne!Refused
<1>3. x \in SimRunSet /\ Ne!tailleDe(x) = 0
  <2>1. 0 \in 0..SimMaxClock
    BY SimAssumption
  <2>2. x \in SimRunSet
    BY <1>2, <2>1 DEF SimRunSet
  <2>3. SimRate[iface] \in Nat /\ simClock \in Int
    BY <1>2, SimAssumption
  <2>4. QED
    BY <2>2, <2>3 DEF Ne!tailleDe
<1>4. x.on /\ x.iface = iface /\ x.dur = dur /\ x.from = simClock
  OBVIOUS
<1> HIDE DEF x
<1>5. SimSoundRuns(T)
  <2>1. IsFiniteSet(T) /\ T \subseteq SimRunSet
    BY <1>3, FS_AddElement DEF SimSoundRuns
  <2>2. SimApart(T)
    BY <1>2, <1>4 DEF SimSoundRuns, SimApart
  <2>3. QED
    BY <2>1, <2>2 DEF SimSoundRuns
<1>6. x \notin rs
  BY <1>2, <1>4
<1>7. Ne!occupe(T) = Ne!occupe(rs)
  <2> DEFINE f == [r \in T |-> Ne!tailleDe(r)]
             g == [r \in rs |-> Ne!tailleDe(r)]
  <2>1. /\ Whole(f, T) /\ Whole(f, rs) /\ IsFiniteSet(T) /\ IsFiniteSet(rs)
        /\ T \ {x} = rs /\ x \in T /\ f[x] = 0
    BY <1>3, <1>5, <1>6, SimTailleWhole DEF Whole, SimSoundRuns
  <2>2. \A r \in rs : f[r] = g[r]
    OBVIOUS
  <2> HIDE DEF f, g
  <2>3. Sum(f, T) = f[x] + Sum(f, rs) /\ Sum(f, rs) \in Int
    BY <2>1, SumTake, SumType
  <2>4. Sum(f, rs) = Sum(g, rs)
    BY <2>1, <2>2, SumSame
  <2>5. Sum(f, T) = Sum(g, rs)
    BY <2>1, <2>3, <2>4
  <2>6. QED
    BY <2>5, SimOccupeIs DEF f, g
<1>8. Ne!occupe(rs) < q
  BY <1>2, SimOccupeWhole
<1>9. QED
  BY <1>1, <1>4, <1>5, <1>7, <1>8 DEF T

\* Durations, then quota.
SimTimedOf(rs) == Ne!Ended(rs, Ne!Overdue)
SimCappedOf(rs, q) == IF Ne!occupe(SimTimedOf(rs)) >= q THEN Ne!Ended(SimTimedOf(rs), Ne!Any) ELSE SimTimedOf(rs)

LEMMA SimTimedSound ==
  ASSUME simClock \in 0..SimMaxClock, NEW rs, SimSoundRuns(rs), NEW q \in Nat
  PROVE  SimSoundRuns(SimCappedOf(rs, q)) /\ SimInTime(SimCappedOf(rs, q), q)
<1> DEFINE timed == SimTimedOf(rs)
<1>1. SimEndsSome(rs, timed)
  BY DEF SimEndsSome, SimTimedOf, Ne!Ended
<1>2. SimSoundRuns(timed)
  BY <1>1, SimEndsSound
<1>3. \A x \in timed : x.on => ~Ne!Overdue(x)
  BY SimOverIs DEF SimTimedOf, Ne!Ended, SimSoundRuns
<1>4. Ne!occupe(timed) \in Int
  BY <1>2, SimOccupeWhole
<1> HIDE DEF timed
<1>5. CASE Ne!occupe(timed) >= q
  <2> DEFINE T == Ne!Ended(timed, Ne!Any)
  <2>1. SimEndsSome(timed, T) /\ \A x \in T : ~x.on
    BY <1>2, SimOverIs DEF SimEndsSome, Ne!Ended, Ne!Any, SimSoundRuns
  <2>2. SimSoundRuns(T)
    BY <1>2, <2>1, SimEndsSound
  <2>3. SimCappedOf(rs, q) = T
    BY <1>5 DEF SimCappedOf, timed
  <2> HIDE DEF T
  <2>4. QED
    BY <2>1, <2>2, <2>3 DEF SimInTime
<1>6. CASE ~(Ne!occupe(timed) >= q)
  <2>1. SimCappedOf(rs, q) = timed
    BY <1>6 DEF SimCappedOf, timed
  <2>2. Ne!occupe(timed) < q
    BY <1>4, <1>6
  <2>3. QED
    BY <1>2, <1>3, <2>1, <2>2 DEF SimInTime
<1>7. QED
  BY <1>5, <1>6

\* What an answer leaves.
SimServed(s, t, q, sees) ==
  /\ SimSoundRuns(s.runs) /\ s.armed \in BOOLEAN /\ SimInTime(s.runs, q)
  /\ t.enabled /\ sees => (s.armed <=> value = 1)
  /\ ~t.enabled => ~s.armed
  /\ t.enabled /\ ~s.armed => \A r \in s.runs : r.on => r \notin charged

LEMMA SimConditionIs ==
  ASSUME NEW t \in Ne!Conditions
  PROVE  t.enabled \in BOOLEAN /\ (t.enabled => t.dur \in SimDurations \ {0})
<1>1. CASE t = Ne!Off
  <2>1. t.enabled = FALSE
    BY <1>1 DEF Ne!Off
  <2>2. QED
    BY <2>1
<1>2. CASE t \in [enabled : {TRUE}, iface : SimWatched, dur : SimDurations \ {0}]
  BY <1>2
<1>3. QED
  BY <1>1, <1>2 DEF Ne!Conditions

LEMMA SimServiceSound ==
  ASSUME SimNInv, NEW rs, SimSoundRuns(rs), NEW t \in Ne!Conditions, NEW q \in Nat, NEW sees \in BOOLEAN
  PROVE  SimServed(Ne!service(rs, t, q, sees), t, q, sees)
<1> DEFINE c == SimCappedOf(rs, q)
           s == [runs |-> c, armed |-> simArmed]
           served == Ne!service(rs, t, q, sees)
<1>1. SimSoundRuns(c) /\ SimInTime(c, q) /\ simClock \in 0..SimMaxClock /\ simArmed \in BOOLEAN
      /\ value \in {0, 1} /\ (simArmed = FALSE => charged = {})
  BY SimTimedSound DEF SimNInv
<1>2. served = Ne!Triggered(s, t, q, sees)
  BY DEF Ne!service, SimCappedOf, SimTimedOf
<1>3. s.runs = c /\ s.armed = simArmed
  OBVIOUS
<1> HIDE DEF c, served
<1>4. CASE ~t.enabled
  <2>1. served = [s EXCEPT !.armed = FALSE]
    BY <1>2, <1>4 DEF Ne!Triggered
  <2>2. served.runs = c /\ served.armed = FALSE
    BY <2>1
  <2>3. QED
    BY <1>1, <1>4, <2>2 DEF SimServed, served
<1>5. CASE t.enabled /\ ~sees
  <2>1. served = s
    BY <1>2, <1>5 DEF Ne!Triggered
  <2>2. served.runs = c /\ served.armed = simArmed
    BY <1>3, <2>1
  <2>3. QED
    BY <1>1, <1>5, <2>2 DEF SimServed, served
<1>6. CASE t.enabled /\ sees /\ value = 1 /\ ~simArmed
  <2>1. t.dur \in SimDurations \ {0}
    BY <1>6, SimConditionIs
  <2>2. CASE Ne!Refused(c, t.iface, q)
    <3>1. served = [armed |-> TRUE, runs |-> c]
      BY <1>2, <1>6, <2>2 DEF Ne!Triggered
    <3>2. served.runs = c /\ served.armed = TRUE
      BY <3>1
    <3>3. QED
      BY <1>1, <1>6, <3>2 DEF SimServed, served
  <2>3. CASE ~Ne!Refused(c, t.iface, q)
    <3> DEFINE d == Ne!demarrer(c, t.iface, t.dur)
    <3>1. served = [armed |-> TRUE, runs |-> d]
      BY <1>2, <1>6, <2>3 DEF Ne!Triggered
    <3>2. /\ SimSoundRuns(d) /\ Ne!occupe(d) = Ne!occupe(c) /\ Ne!occupe(c) < q
          /\ \A r \in d : r \notin c => r.iface = t.iface /\ r.dur = t.dur /\ r.from = simClock
      BY <1>1, <2>1, <2>3, SimStartSound
    <3> HIDE DEF d
    <3>3. ASSUME NEW r \in d, r \notin c PROVE ~Ne!Overdue(r)
      <4>1. r.dur = t.dur /\ r.from = simClock
        BY <3>2, <3>3
      <4>2. simClock - simClock = 0 /\ t.dur \in Nat /\ t.dur # 0
        <5>1. t.dur \in Nat /\ t.dur # 0
          BY <2>1, SimAssumption
        <5>2. simClock - simClock = 0
          BY <1>1
        <5>3. QED
          BY <5>1, <5>2
      <4>3. ~(simClock - simClock >= t.dur)
        BY <4>2
      <4>4. QED
        BY <4>1, <4>3 DEF Ne!Overdue
    <3>4. SimInTime(d, q)
      BY <1>1, <3>2, <3>3 DEF SimInTime
    <3>5. served.runs = d /\ served.armed = TRUE
      BY <3>1
    <3>6. QED
      BY <1>6, <3>2, <3>4, <3>5 DEF SimServed, served
  <2>4. QED
    BY <2>2, <2>3
<1>7. CASE t.enabled /\ sees /\ value = 0 /\ simArmed
  <2> DEFINE T == Ne!Ended(c, Ne!Any)
  <2>1. SimEndsSome(c, T) /\ \A x \in T : ~x.on
    BY <1>1, SimOverIs DEF SimEndsSome, Ne!Ended, Ne!Any, SimSoundRuns
  <2>2. SimSoundRuns(T)
    BY <1>1, <2>1, SimEndsSound
  <2>3. served = [armed |-> FALSE, runs |-> T]
    BY <1>2, <1>7 DEF Ne!Triggered
  <2> HIDE DEF T
  <2>4. served.runs = T /\ served.armed = FALSE /\ value # 1
    BY <1>7, <2>3
  <2>5. SimInTime(T, q)
    BY <2>1 DEF SimInTime
  <2>6. QED
    BY <1>7, <2>1, <2>2, <2>4, <2>5 DEF SimServed, served
<1>8. CASE t.enabled /\ sees /\ (value = 1 <=> simArmed)
  <2>1. served = s
    BY <1>1, <1>2, <1>8 DEF Ne!Triggered
  <2>2. served.runs = c /\ served.armed = simArmed
    BY <1>3, <2>1
  <2>3. QED
    BY <1>1, <1>8, <2>2 DEF SimServed, served
<1>9. QED
  BY <1>1, <1>4, <1>5, <1>6, <1>7, <1>8

LEMMA SimOccupeStays ==
  ASSUME simClock' = simClock
  PROVE  Ne!occupe(simRuns)' = Ne!occupe(simRuns')
<1>1. Ne!occupe(simRuns)' = Sum([r \in simRuns' |-> Ne!tailleDe(r)'], simRuns')
  BY DEF Ne!occupe, Sum, MapThenSumSet, Ne!MapThenSumSet, MapThenFoldSet, Ne!MapThenFoldSet
<1>2. \A r : Ne!tailleDe(r)' = Ne!tailleDe(r)
  BY DEF Ne!tailleDe
<1>3. [r \in simRuns' |-> Ne!tailleDe(r)'] = [r \in simRuns' |-> Ne!tailleDe(r)]
  BY <1>2
<1>4. QED
  BY <1>1, <1>3, SimOccupeIs

\* An answer, whatever was done before it.
LEMMA SimAnswerKeeps ==
  ASSUME SimNInv, NEW rs, SimSoundRuns(rs), NEW t \in Ne!Conditions, NEW q \in SimQuotas, NEW sees \in BOOLEAN,
         Ne!Answer(rs, t, q, sees), simTrigger' = t, simQuota' = q, UNCHANGED <<simClock, value>>,
         held' \in BOOLEAN, shown' \in BOOLEAN, (held' \/ shown') = sees,
         t.enabled /\ ~reloaded' => held'
  PROVE  SimNInv'
<1> DEFINE s == Ne!service(rs, t, q, sees)
<1>1. /\ simRuns' = s.runs /\ simArmed' = s.armed /\ answered' = TRUE
      /\ charged' = {r \in s.runs : r.on /\ t.enabled /\ (s.armed \/ r \in charged)}
  BY DEF Ne!Answer
<1>2. SimServed(s, t, q, sees)
  BY SimServiceSound, SimAssumption
<1> HIDE DEF s
<1>3. Ne!AnswersInTime'
  <2>1. \A r : Ne!Overdue(r)' <=> Ne!Overdue(r)
    BY DEF Ne!Overdue
  <2>2. SimInTime(simRuns', q)
    BY <1>1, <1>2 DEF SimServed
  <2>3. Ne!occupe(simRuns)' = Ne!occupe(simRuns')
    BY SimOccupeStays
  <2>4. QED
    BY <2>1, <2>2, <2>3 DEF SimInTime, Ne!AnswersInTime
<1>4. Ne!TriggerSees' /\ Ne!ArmedIsCondition' /\ (simArmed' = FALSE => charged' = {})
  <2>1. ~s.armed => charged' = {}
    BY <1>1, <1>2 DEF SimServed
  <2>2. t.enabled /\ sees => (s.armed <=> value' = 1)
    BY <1>2 DEF SimServed
  <2>3. value' = 0 => value' # 1
    OBVIOUS
  <2>4. QED
    BY <1>1, <1>2, <2>1, <2>2, <2>3 DEF SimServed, Ne!TriggerSees, Ne!ArmedIsCondition, Ne!Seen
<1>5. SimSoundRuns(simRuns')
  BY <1>1, <1>2 DEF SimServed
<1>6. QED
  BY <1>1, <1>2, <1>3, <1>4, <1>5 DEF SimNInv, SimServed, SimSoundRuns, SimApart

LEMMA SimNInit == ASSUME Ne!Init PROVE SimNInv
<1>1. Ne!Off \in Ne!Conditions /\ ~Ne!Off.enabled /\ 0 \in 0..SimMaxClock
  BY SimAssumption DEF Ne!Conditions, Ne!Off
<1>2. SimSoundRuns({})
  BY FS_EmptySet DEF SimSoundRuns, SimApart
<1>3. Ne!AnswersInTime /\ Ne!TriggerSees /\ Ne!ArmedIsCondition
  BY <1>1 DEF Ne!Init, Ne!AnswersInTime, Ne!TriggerSees, Ne!ArmedIsCondition
<1>4. QED
  BY <1>1, <1>2, <1>3 DEF Ne!Init, SimNInv

LEMMA SimStartStep ==
  ASSUME SimNInv, NEW iface \in SimIfaces, NEW dur \in SimDurations, Ne!Start(iface, dur)
  PROVE  SimNInv'
<1>1. SimSoundRuns(Ne!demarrer(simRuns, iface, dur))
  BY SimStartSound, SimAssumption DEF SimNInv, Ne!Start
<1>2. QED
  BY <1>1, SimAnswerKeeps DEF Ne!Start, SimNInv, Ne!Seen, Ne!TriggerSees

LEMMA SimStopStep ==
  ASSUME SimNInv, NEW r \in simRuns, Ne!Stop(r) \/ Ne!Delete(r)
  PROVE  SimNInv'
<1>1. SimSoundRuns(simRuns) /\ simClock \in 0..SimMaxClock
  BY DEF SimNInv
<1>2. SimSoundRuns((simRuns \ {r}) \cup {Ne!terminer(r)}) /\ SimSoundRuns(simRuns \ {r})
  <2>1. SimEndsSome(simRuns, (simRuns \ {r}) \cup {Ne!terminer(r)}) /\ SimEndsSome(simRuns, simRuns \ {r})
    BY DEF SimEndsSome
  <2>2. QED
    BY <1>1, <2>1, SimEndsSound
<1>3. CASE Ne!Stop(r)
  BY <1>2, <1>3, SimAnswerKeeps DEF Ne!Stop, SimNInv, Ne!Seen, Ne!TriggerSees
<1>4. CASE Ne!Delete(r)
  BY <1>2, <1>4, SimAnswerKeeps DEF Ne!Delete, SimNInv, Ne!Seen, Ne!TriggerSees
<1>5. QED
  BY <1>3, <1>4

LEMMA SimOtherSteps ==
  ASSUME SimNInv, Ne!Reload \/ Ne!Time \/ Ne!Moves \/ Ne!Shown \/ UNCHANGED Ne!vars
  PROVE  SimNInv'
<1>1. CASE UNCHANGED Ne!vars
  <2>1. \A r : Ne!Overdue(r)' <=> Ne!Overdue(r)
    BY <1>1 DEF Ne!Overdue, Ne!vars
  <2>2. Ne!occupe(simRuns)' = Ne!occupe(simRuns)
    BY <1>1, SimOccupeStays DEF Ne!vars
  <2>3. Ne!AnswersInTime'
    BY <1>1, <2>1, <2>2 DEF Ne!vars, SimNInv, Ne!AnswersInTime
  <2>4. QED
    BY <1>1, <2>3 DEF Ne!vars, SimNInv, SimSoundRuns, SimApart, Ne!TriggerSees, Ne!ArmedIsCondition, Ne!Seen
<1>2. CASE Ne!Reload
  BY <1>2, FS_EmptySet DEF Ne!Reload, SimNInv, SimSoundRuns, SimApart, Ne!AnswersInTime, Ne!TriggerSees, Ne!ArmedIsCondition
<1>3. CASE Ne!Time \/ Ne!Moves \/ Ne!Shown
  <2>1. /\ answered' = FALSE
        /\ UNCHANGED <<simRuns, simQuota, simTrigger, simArmed, held, reloaded, charged>>
        /\ simClock' \in 0..SimMaxClock /\ value' \in {0, 1} /\ shown' \in BOOLEAN
    <3>1. CASE Ne!Time
      BY <1>3, <3>1, SimAssumption DEF Ne!Time, SimNInv
    <3>2. CASE Ne!Moves
      BY <1>3, <3>2 DEF Ne!Moves, SimNInv
    <3>3. CASE Ne!Shown
      BY <1>3, <3>3 DEF Ne!Shown, SimNInv
    <3>4. QED
      BY <1>3, <3>1, <3>2, <3>3
  <2>2. QED
    BY <2>1 DEF SimNInv, SimSoundRuns, SimApart, Ne!AnswersInTime, Ne!TriggerSees, Ne!ArmedIsCondition
<1>4. QED
  BY <1>1, <1>2, <1>3

LEMMA SimNStep == ASSUME SimNInv, [Ne!Next]_(Ne!vars) PROVE SimNInv'
<1>1. CASE Ne!Read
  <2>1. SimSoundRuns(simRuns) /\ Ne!Seen \in BOOLEAN
    BY DEF SimNInv, Ne!Seen
  <2>2. QED
    BY <1>1, <2>1, SimAnswerKeeps DEF Ne!Read, SimNInv, Ne!Seen, Ne!TriggerSees
<1>2. CASE \E q \in SimQuotas, t \in Ne!Conditions : Ne!Config(q, t)
  <2>1. PICK q \in SimQuotas, t \in Ne!Conditions : Ne!Config(q, t)
    BY <1>2
  <2>2. /\ t.enabled \in BOOLEAN /\ held' \in BOOLEAN /\ (held' \/ shown) \in BOOLEAN
        /\ held' = (held \/ t.enabled)
    BY <2>1, SimConditionIs DEF Ne!Config, SimNInv
  <2>3. QED
    BY <2>1, <2>2, SimAnswerKeeps DEF Ne!Config, SimNInv
<1>3. QED
  BY <1>1, <1>2, SimStartStep, SimStopStep, SimOtherSteps DEF Ne!Next

LEMMA SimNHolds ==
  ASSUME SimNInv
  PROVE  Ne!TypeOK /\ Ne!OnePerInterface /\ Ne!AnswersInTime /\ Ne!TriggerSees /\ Ne!ArmedIsCondition
  BY DEF SimNInv, Ne!TypeOK, SimSoundRuns, SimRunSet, SimApart, Ne!OnePerInterface

-----------------------------------------------------------------------------
(* The pages and the simulation, in a behaviour explored with the others.  *)

LEMMA PagePart == MCSpec => Pa!Spec
<1>1. MCInit => Pa!Init
  BY DEF MCInit
<1>2. [MCNext]_<<part, vars, pageVars, simulatedVars>> => [Pa!Next]_(Pa!vars)
  BY DEF MCNext, pageVars, Pa!vars
<1>3. QED
  BY <1>1, <1>2, PTL DEF MCSpec, Pa!Spec

LEMMA SimulatedPart == MCSpec => Ne!Spec
<1>1. MCInit => Ne!Init
  BY DEF MCInit
<1>2. [MCNext]_<<part, vars, pageVars, simulatedVars>> => [Ne!Next]_(Ne!vars)
  BY DEF MCNext, simulatedVars, Ne!vars
<1>3. QED
  BY <1>1, <1>2, PTL DEF MCSpec, Ne!Spec

\* What the readings carry as over is over, and the forms of the page of capture
\* hold what was typed (network.js), for any captures and settings.
THEOREM PagesInvariant == Pa!Spec => []PagePInv
<1>1. Pa!Init => PagePInv
  BY PagePInit
<1>2. PagePInv /\ [Pa!Next]_(Pa!vars) => PagePInv'
  BY PagePStep
<1>3. QED
  BY <1>1, <1>2, PTL DEF Pa!Spec

\* What the answers of a page without a controller leave (netsim.js), for any
\* interfaces, rates, quotas and durations.
THEOREM SimulatedInvariant == Ne!Spec => []SimNInv
<1>1. Ne!Init => SimNInv
  BY SimNInit
<1>2. SimNInv /\ [Ne!Next]_(Ne!vars) => SimNInv'
  BY SimNStep
<1>3. QED
  BY <1>1, <1>2, PTL DEF Ne!Spec

\* Readings in any order, lost or late, never take away what is typed in a page
\* that stays open, nor offer to delete a capture that runs (pageCapture, majTout);
\* and a page that answers itself has one capture per interface, ends them in time,
\* and with the condition of its trigger gone has stopped what was at work while it
\* held (service of netsim.js).
THEOREM PagesStay == MCSpec => []PagesHold
<1>1. PagePInv /\ SimNInv => PagesHold
  BY PagePHolds, SimNHolds DEF PagesHold
<1>2. QED
  BY <1>1, PagePart, SimulatedPart, PagesInvariant, SimulatedInvariant, PTL
=============================================================================
