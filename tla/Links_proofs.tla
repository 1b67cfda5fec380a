---------------------------- MODULE Links_proofs ----------------------------
(***************************************************************************)
(* Proofs about the links, for any number of links and clients, whatever   *)
(* the configurations sent and wherever the server is stopped: what is     *)
(* shown of a link is so, what is kept belongs to the configuration in     *)
(* force, and a configuration that was sent alone is the one that a        *)
(* restart finds.                                                          *)
(*                                                                         *)
(* A page that is reset erases what it was asked to, whichever requests    *)
(* fail (EraseInv).                                                        *)
(*                                                                         *)
(* A message that the J1939 driver delivers is made of one transfer, for   *)
(* any number of packets, of transfers and any delay T1. MessagesWhole is  *)
(* not inductive: it says nothing of the session that is being filled.     *)
(* JayInv adds what a session without an excuse relies on: all that it has *)
(* received is of its own transfer (JayPure), no other transfer of its     *)
(* source is under way while a packet can still reach it (JayAlone), and   *)
(* tick() drops it in time (JayPurged). The last part is why Missed may    *)
(* spare a session older than T1 + 1: there is none. A session does not    *)
(* outlive the bus that it was opened on.                                  *)
(*                                                                         *)
(* What the window of the links sends has distinct names and is what it    *)
(* shows, for any identifiers, files and number of links. The invariant    *)
(* (ConfInv) says of a save under way that it bears what the page holds    *)
(* and that it knows the link it comes back to, of a reading that it bears *)
(* what the controller holds, each until another station or a closed       *)
(* window comes between; it rests on what normalize returns, a list        *)
(* without doubles (ConfNormal), and that it changes nothing of such a     *)
(* list (ConfNormalIs).                                                    *)
(*                                                                         *)
(* A session of IEC 104 acknowledges what it was sent and nothing else,    *)
(* for any delays and windows and a modulus above K. Sequence numbers come *)
(* around, so the invariant (IecInv) stands on naturals behind them: what  *)
(* the station had acknowledged, what the driver acknowledged, what it     *)
(* read and what was sent, in that order, none further than K from the     *)
(* first; along both queues the numbers are the remainders of functions    *)
(* that do not decrease. Besides, the ages of what is owed follow the      *)
(* order of the frames, no data precedes the confirmation (IecBegun), a    *)
(* link just served has nothing due (IecClock), and what a station that    *)
(* reads is asked is answered within the tick (IecAnswering). pump reads the   *)
(* whole queue: its recursive function is shown to exist, then followed    *)
(* frame by frame (IecSo).                                                 *)
(***************************************************************************)
EXTENDS MCLinks, Integers, SequenceTheorems, WellFoundedInduction, TLAPS

\* The request, or the start of the server, that holds apply_mu_ is in the
\* middle of its apply, and no other is.
Phase(p) == put[p].pc \in {"flag", "join", "swap", "start"}
OneApply == \A p \in Procs : Phase(p) <=> lock = p

\* Requests arrive once the configuration saved was applied.
BootFirst ==
    /\ ~At(Boot, "idle") => \A c \in Clients : At(c, "idle")
    /\ ~At(Boot, "save") /\ ~At(Boot, "write")

\* A thread serves a link of the configuration in force; only while an apply
\* joins it is its flag up; there is none while the configuration is replaced.
Threads ==
    /\ \A l \in Links : runner[l].pc # "none" =>
          /\ runner[l].cfg = config[l] /\ config[l] \in Enabled
          /\ runner[l].stop => \E p \in Procs : At(p, "join")
    /\ \A p \in Procs : At(p, "join") => \A l \in Links : runner[l].pc # "none" => runner[l].stop
    /\ \A p \in Procs : At(p, "swap") => \A l \in Links : runner[l].pc = "none"
    /\ \A p \in Procs : At(p, "start") => config = put[p].cfg

\* Where a thread may be while its link is shown "up": "up" is said once the
\* driver is open and taken back before it is closed, unless the thread is
\* being stopped, or was and is not replaced yet.
Attempted == {"open", "opened", "refused", "loop", "serve", "lost", "close", "sleep"}
ShownUp ==
    \A l \in Links :
       /\ status[l].state = "up" =>
            \/ runner[l].pc \in {"loop", "serve", "lost"}
            \/ runner[l].pc \in {"close", "top", "exit"} /\ runner[l].stop
            \/ runner[l].pc = "none" /\ runner[l].stop /\ \E p \in Procs : At(p, "swap")
       /\ status[l].state = "up" => status[l].tried /\ status[l].warn # "old"
       /\ runner[l].pc \in {"open", "opened"} => status[l].tried

\* What is shown and kept belongs to the configuration.
Belongs ==
    \A l \in Links :
       /\ status[l].state # "none" <=> Has(config, l)
       /\ chan[l] \subseteq {config[l]}
       /\ status[l].by \in {None, config[l]}

\* The start of the server applies what the file holds; a request that is alone
\* applies and saves one configuration, through a file that is empty meanwhile;
\* what is applied when nothing is in progress is in the file.
Saved ==
    /\ ~At(Boot, "idle") => put[Boot].cfg = file.cfg
    /\ ~raced =>
         /\ \A c, d \in Clients : ~At(c, "idle") /\ ~At(d, "idle") => c = d
         /\ \A c \in Clients : /\ At(c, "save") \/ At(c, "write") => config = put[c].cfg
                               /\ At(c, "write") => file = File("empty")
         /\ Quiet => config = file.cfg

LInv == TypeOK /\ OneApply /\ BootFirst /\ Threads /\ ShownUp /\ Belongs /\ Saved
-----------------------------------------------------------------------------
Pcs == {"none", "top", "make", "open", "opened", "refused", "loop", "serve",
        "lost", "close", "sleep", "exit"}
RunnerRec == [pc : Pcs, stop : BOOLEAN, cfg : Setting \cup {Absent}]
StatusRec == [state : States, tried : BOOLEAN,
              warn : {"no", "now", "old"}, by : Setting \cup {Absent, None}]
PutRec == [pc : {"idle", "lock", "flag", "join", "swap", "start", "save", "write"}, cfg : Config]

LEMMA Types ==
    ASSUME TypeOK
    PROVE  /\ config \in Config
           /\ status \in [Links -> StatusRec]
           /\ chan \in [Links -> SUBSET (Setting \cup {Absent})]
           /\ runner \in [Links -> RunnerRec]
           /\ put \in [Procs -> PutRec]
           /\ lock \in Procs \cup {None}
           /\ file \in [state : {"absent", "empty", "torn", "whole"}, cfg : Config]
           /\ raced \in BOOLEAN
  BY DEF TypeOK, StatusRec, RunnerRec, PutRec, Pcs

\* What a thread says of its link.
LEMMA SetStatusIs ==
    ASSUME TypeOK, NEW l \in Links, NEW s \in States, SetStatus(l, s)
    PROVE  /\ status' \in [Links -> StatusRec]
           /\ \A k \in Links : k # l => status'[k] = status[k]
           /\ status'[l].state = s /\ status'[l].tried = status[l].tried
           /\ status'[l].by = status[l].by
           /\ status'[l].warn = IF status[l].state = s THEN status[l].warn ELSE "no"
<1>1. status \in [Links -> StatusRec]
  BY Types
<1>2. QED
  BY <1>1 DEF SetStatus, StatusRec

\* A step of one thread, between two places where it runs.
LEMMA ThreadMoved ==
    ASSUME LInv, NEW l \in Links, NEW to \in Pcs \ {"none"},
           config' = config, chan' = chan, put' = put, lock' = lock, file' = file, raced' = raced,
           runner[l].pc # "none", runner' = [runner EXCEPT ![l].pc = to],
           status' \in [Links -> StatusRec],
           \A k \in Links : k # l => status'[k] = status[k],
           status'[l].state = "none" <=> status[l].state = "none",
           status'[l].by = status[l].by,
           status'[l].state = "up" =>
              /\ status'[l].tried /\ status'[l].warn # "old"
              /\ to \in {"loop", "serve", "lost"} \/ (to \in {"close", "top", "exit"} /\ runner[l].stop),
           to \in {"open", "opened"} => status'[l].tried
    PROVE  LInv'
<1>0. TypeOK /\ OneApply /\ BootFirst /\ Threads /\ ShownUp /\ Belongs /\ Saved
  BY DEF LInv
<1>1. /\ runner' \in [Links -> RunnerRec]
      /\ \A k \in Links : k # l => runner'[k] = runner[k]
      /\ runner'[l].pc = to /\ runner'[l].stop = runner[l].stop /\ runner'[l].cfg = runner[l].cfg
  <2>1. runner \in [Links -> RunnerRec]
    BY <1>0, Types
  <2>2. QED
    BY <2>1 DEF RunnerRec
<1>2. TypeOK'
  BY <1>0, <1>1, Types DEF TypeOK, RunnerRec, StatusRec, Pcs
<1>3. OneApply' /\ BootFirst' /\ Saved'
  BY <1>0 DEF OneApply, Phase, BootFirst, Saved, At, Quiet
<1>4. Threads'
  BY <1>0, <1>1 DEF Threads, At
<1>5. ShownUp'
  BY <1>0, <1>1 DEF ShownUp, At
<1>6. Belongs'
  BY <1>0 DEF Belongs, Has
<1>7. QED
  BY <1>2, <1>3, <1>4, <1>5, <1>6 DEF LInv

\* A step of one thread that says nothing.
LEMMA ThreadSilent ==
    ASSUME LInv, NEW l \in Links, NEW to \in Pcs \ {"none"},
           config' = config, chan' = chan, put' = put, lock' = lock, file' = file, raced' = raced,
           status' = status, runner[l].pc # "none", runner' = [runner EXCEPT ![l].pc = to],
           status[l].state = "up" =>
              to \in {"loop", "serve", "lost"} \/ (to \in {"close", "top", "exit"} /\ runner[l].stop),
           to \in {"open", "opened"} => status[l].tried
    PROVE  LInv'
<1>1. status' \in [Links -> StatusRec]
  BY Types DEF LInv
<1>2. status[l].state = "up" => status[l].tried /\ status[l].warn # "old"
  BY DEF LInv, ShownUp
<1>3. QED
  BY <1>1, <1>2, ThreadMoved

\* A thread that says what it does.
LEMMA ThreadSays ==
    ASSUME LInv, NEW l \in Links, NEW to \in Pcs \ {"none", "open", "opened"},
           NEW s \in States \ {"none"},
           config' = config, chan' = chan, put' = put, lock' = lock, file' = file, raced' = raced,
           runner[l].pc # "none", runner' = [runner EXCEPT ![l].pc = to],
           SetStatus(l, s),
           s = "up" => to = "loop" /\ runner[l].pc = "opened"
    PROVE  LInv'
<1>0. TypeOK /\ ShownUp /\ Belongs /\ Threads
  BY DEF LInv
<1>1. /\ status' \in [Links -> StatusRec]
      /\ \A k \in Links : k # l => status'[k] = status[k]
      /\ status'[l].state = s /\ status'[l].tried = status[l].tried
      /\ status'[l].by = status[l].by
      /\ status'[l].warn = IF status[l].state = s THEN status[l].warn ELSE "no"
  BY <1>0, SetStatusIs
<1>2. status[l].state # "none"
  BY <1>0, LinksAssumption DEF Threads, Belongs, Has, Setting
<1>3. s = "up" => status[l].tried /\ status[l].state # "up"
  BY <1>0 DEF ShownUp
<1>4. QED
  BY <1>1, <1>2, <1>3, ThreadMoved

LEMMA RunnerStepKeeps ==
    ASSUME LInv, NEW l \in Links, RunnerStep(l)
    PROVE  LInv'
<1>0. TypeOK /\ ShownUp /\ Belongs /\ Threads
  BY DEF LInv
<1>1. CASE Top(l)
  <2>1. runner[l].pc = "top"
    BY <1>1 DEF Top, Go
  <2>2. status[l].state = "up" => runner[l].stop
    BY <1>0, <2>1 DEF ShownUp
  <2>3. CASE runner[l].stop
    BY <1>1, <2>1, <2>3, ThreadSilent DEF Top, Go, Pcs
  <2>4. CASE ~runner[l].stop
    BY <1>1, <2>1, <2>2, <2>4, ThreadSilent DEF Top, Go, Pcs
  <2>5. QED
    BY <2>3, <2>4
<1>2. CASE Undrivable(l)
  BY <1>2, ThreadSays DEF Undrivable, Go, Pcs, States
<1>3. CASE Attempt(l)
  <2>1. runner[l].pc = "make" /\ runner' = [runner EXCEPT ![l].pc = "open"]
    BY <1>3 DEF Attempt, Go
  <2>2. status[l].state # "none" /\ status[l].state # "up"
    BY <1>0, <2>1, LinksAssumption DEF Threads, Belongs, ShownUp, Has, Setting
  <2>3. /\ status' \in [Links -> StatusRec]
        /\ \A k \in Links : k # l => status'[k] = status[k]
        /\ status'[l].state = status[l].state /\ status'[l].tried = TRUE
        /\ status'[l].by = status[l].by
    <3>1. status \in [Links -> StatusRec]
      BY <1>0, Types
    <3>2. status' = [status EXCEPT ![l].tried = TRUE,
                                   ![l].warn = IF @ = "now" THEN "old" ELSE @]
      BY <1>3, <2>2 DEF Attempt
    <3>3. QED
      BY <3>1, <3>2 DEF StatusRec
  <2>4. QED
    BY <1>3, <2>1, <2>2, <2>3, ThreadMoved DEF Attempt, Pcs
<1>4. CASE Opened(l)
  BY <1>0, <1>4, ThreadSilent DEF Opened, Go, Pcs, ShownUp
<1>5. CASE Refused(l)
  BY <1>0, <1>5, ThreadSilent DEF Refused, Go, Pcs, ShownUp
<1>6. CASE SayUp(l)
  BY <1>6, ThreadSays DEF SayUp, Go, Pcs, States
<1>7. CASE SayRefused(l)
  BY <1>7, ThreadSays DEF SayRefused, Go, Pcs, States
<1>8. CASE Loop(l)
  <2>1. runner[l].pc = "loop"
    BY <1>8 DEF Loop, Go
  <2>2. CASE runner[l].stop
    BY <1>8, <2>1, <2>2, ThreadSilent DEF Loop, Go, Pcs
  <2>3. CASE ~runner[l].stop
    BY <1>8, <2>1, <2>3, ThreadSilent DEF Loop, Go, Pcs
  <2>4. QED
    BY <2>2, <2>3
<1>9. CASE Served(l)
  BY <1>9, ThreadSilent DEF Served, Go, Pcs
<1>10. CASE Lost(l)
  BY <1>10, ThreadSilent DEF Lost, Go, Pcs
<1>11. CASE SayLost(l)
  BY <1>11, ThreadSays DEF SayLost, Go, Pcs, States
<1>12. CASE Close(l)
  <2>1. runner[l].pc = "close"
    BY <1>12 DEF Close, Go
  <2>2. status[l].state = "up" => runner[l].stop
    BY <1>0, <2>1 DEF ShownUp
  <2>3. CASE runner[l].stop
    BY <1>12, <2>1, <2>3, ThreadSilent DEF Close, Go, Pcs
  <2>4. CASE ~runner[l].stop
    BY <1>12, <2>1, <2>2, <2>4, ThreadSilent DEF Close, Go, Pcs
  <2>5. QED
    BY <2>3, <2>4
<1>13. CASE Wake(l)
  BY <1>0, <1>13, ThreadSilent DEF Wake, Go, Pcs, ShownUp
<1>14. QED
  BY <1>1, <1>2, <1>3, <1>4, <1>5, <1>6, <1>7, <1>8, <1>9, <1>10, <1>11, <1>12, <1>13
     DEF RunnerStep

\* What a thread tells besides: a warning, a sample, its counters.
LEMMA TellingKeeps ==
    ASSUME LInv, NEW l \in Links, Warn(l) \/ Publish(l) \/ Report(l)
    PROVE  LInv'
<1>0. TypeOK /\ OneApply /\ BootFirst /\ Threads /\ ShownUp /\ Belongs /\ Saved
  BY DEF LInv
<1>1. /\ config' = config /\ put' = put /\ lock' = lock /\ file' = file /\ raced' = raced
      /\ runner' = runner
  BY DEF Warn, Publish, Report
<1>2. /\ status \in [Links -> StatusRec] /\ config \in Config
      /\ chan \in [Links -> SUBSET (Setting \cup {Absent})]
      /\ runner[l].pc # "none" /\ runner[l].cfg = config[l]
  BY <1>0, Types DEF Warn, Publish, Report, Threads
<1>3. OneApply' /\ BootFirst' /\ Saved' /\ Threads'
  BY <1>0, <1>1 DEF OneApply, Phase, BootFirst, Saved, At, Quiet, Threads
<1>4. /\ status' \in [Links -> StatusRec]
      /\ \A k \in Links : /\ status'[k].state = status[k].state /\ status'[k].tried = status[k].tried
                          /\ status'[k].warn \in {status[k].warn, "now"}
                          /\ status'[k].by \in {status[k].by, config[k]}
      /\ chan' \in [Links -> SUBSET (Setting \cup {Absent})]
      /\ \A k \in Links : chan'[k] \subseteq chan[k] \cup {config[k]}
  <2>1. CASE Warn(l)
    BY <1>2, <2>1 DEF Warn, StatusRec
  <2>2. CASE Publish(l)
    BY <1>2, <2>2 DEF Publish, Config
  <2>3. CASE Report(l)
    BY <1>2, <2>3 DEF Report, StatusRec, Config
  <2>4. QED
    BY <2>1, <2>2, <2>3
<1>5. TypeOK'
  BY <1>0, <1>1, <1>4, Types DEF TypeOK, StatusRec, RunnerRec, Pcs
<1>6. ShownUp'
  BY <1>0, <1>1, <1>4 DEF ShownUp, At
<1>7. Belongs'
  BY <1>0, <1>1, <1>4 DEF Belongs, Has
<1>8. QED
  BY <1>3, <1>5, <1>6, <1>7 DEF LInv

-----------------------------------------------------------------------------
\* A step of a request: `put` changes at p only.
LEMMA PutIs ==
    ASSUME TypeOK, NEW p \in Procs, NEW rec \in PutRec, put' = [put EXCEPT ![p] = rec]
    PROVE  /\ put' \in [Procs -> PutRec]
           /\ put'[p] = rec /\ \A q \in Procs : q # p => put'[q] = put[q]
  BY Types

LEMMA GoToIs ==
    ASSUME TypeOK, NEW p \in Procs,
           NEW pc \in {"idle", "lock", "flag", "join", "swap", "start", "save", "write"}, GoTo(p, pc)
    PROVE  /\ put' \in [Procs -> PutRec]
           /\ put'[p].pc = pc /\ put'[p].cfg = put[p].cfg
           /\ \A q \in Procs : q # p => put'[q] = put[q]
<1>1. put \in [Procs -> PutRec]
  BY Types
<1>2. QED
  BY <1>1 DEF GoTo, PutRec

LEMMA PutBeginKeeps ==
    ASSUME LInv, NEW c \in Clients, NEW cfg \in Configs, PutBegin(c, cfg)
    PROVE  LInv'
<1>0. TypeOK /\ OneApply /\ BootFirst /\ Threads /\ ShownUp /\ Belongs /\ Saved
  BY DEF LInv
<1>1. /\ config' = config /\ status' = status /\ chan' = chan /\ runner' = runner
      /\ lock' = lock /\ file' = file
      /\ raced' = (\E d \in Clients : ~At(d, "idle"))
      /\ put[c].pc = "idle" /\ put[Boot].pc = "idle"
  BY DEF PutBegin, At
<1>2. /\ put' \in [Procs -> PutRec] /\ c \in Procs /\ Boot \in Procs /\ c # Boot
      /\ put'[c].pc = "lock" /\ put'[c].cfg = cfg
      /\ \A q \in Procs : q # c => put'[q] = put[q]
  <2>1. [pc |-> "lock", cfg |-> cfg] \in PutRec
    BY LinksAssumption DEF PutRec
  <2>2. c \in Procs /\ Boot \in Procs /\ c # Boot
    BY LinksAssumption DEF Procs
  <2>3. QED
    BY <1>0, <2>1, <2>2, PutIs DEF PutBegin
<1>3. TypeOK'
  BY <1>0, <1>1, <1>2, Types DEF TypeOK, StatusRec, RunnerRec, PutRec, Pcs
<1>4. OneApply'
  BY <1>0, <1>1, <1>2 DEF OneApply, Phase
<1>5. BootFirst'
  BY <1>1, <1>2 DEF BootFirst, At
<1>6. Threads' /\ ShownUp'
  BY <1>0, <1>1, <1>2 DEF Threads, ShownUp, At
<1>7. Belongs'
  BY <1>0, <1>1 DEF Belongs, Has
<1>8. Saved'
  BY <1>0, <1>1, <1>2 DEF Saved, At, Quiet, Procs
<1>9. QED
  BY <1>3, <1>4, <1>5, <1>6, <1>7, <1>8 DEF LInv

LEMMA ApplyLockKeeps ==
    ASSUME LInv, NEW p \in Procs, ApplyLock(p)
    PROVE  LInv'
<1>0. TypeOK /\ OneApply /\ BootFirst /\ Threads /\ ShownUp /\ Belongs /\ Saved
  BY DEF LInv
<1>1. /\ config' = config /\ status' = status /\ chan' = chan /\ runner' = runner
      /\ file' = file /\ raced' = raced /\ lock = None /\ lock' = p /\ put[p].pc = "lock"
  BY DEF ApplyLock, At
<1>2. /\ put' \in [Procs -> PutRec] /\ put'[p].pc = "flag" /\ put'[p].cfg = put[p].cfg
      /\ \A q \in Procs : q # p => put'[q] = put[q]
  BY <1>0, GoToIs DEF ApplyLock
<1>3. TypeOK'
  BY <1>0, <1>1, <1>2, Types DEF TypeOK, StatusRec, RunnerRec, PutRec, Pcs
<1>4. OneApply'
  BY <1>0, <1>1, <1>2, LinksAssumption DEF OneApply, Phase
<1>5. BootFirst'
  BY <1>0, <1>1, <1>2 DEF BootFirst, At, Procs
<1>6. Threads' /\ ShownUp'
  BY <1>0, <1>1, <1>2 DEF Threads, ShownUp, At
<1>7. Belongs'
  BY <1>0, <1>1 DEF Belongs, Has
<1>8. Saved'
  BY <1>0, <1>1, <1>2 DEF Saved, At, Quiet, Procs
<1>9. QED
  BY <1>3, <1>4, <1>5, <1>6, <1>7, <1>8 DEF LInv

LEMMA RaiseStopsKeeps ==
    ASSUME LInv, NEW p \in Procs, RaiseStops(p)
    PROVE  LInv'
<1>0. TypeOK /\ OneApply /\ BootFirst /\ Threads /\ ShownUp /\ Belongs /\ Saved
  BY DEF LInv
<1>1. /\ config' = config /\ status' = status /\ chan' = chan /\ lock' = lock
      /\ file' = file /\ raced' = raced /\ put[p].pc = "flag" /\ lock = p
  BY <1>0 DEF RaiseStops, At, OneApply, Phase
<1>2. /\ put' \in [Procs -> PutRec] /\ put'[p].pc = "join" /\ put'[p].cfg = put[p].cfg
      /\ \A q \in Procs : q # p => put'[q] = put[q]
  BY <1>0, GoToIs DEF RaiseStops
<1>3. /\ runner' \in [Links -> RunnerRec]
      /\ \A l \in Links : /\ runner'[l].pc = runner[l].pc /\ runner'[l].cfg = runner[l].cfg
                          /\ runner[l].pc # "none" => runner'[l].stop = TRUE
                          /\ runner[l].pc = "none" => runner'[l].stop = runner[l].stop
  <2>1. runner \in [Links -> RunnerRec]
    BY <1>0, Types
  <2>2. QED
    BY <2>1 DEF RaiseStops, RunnerRec
<1>4. TypeOK'
  BY <1>0, <1>1, <1>2, <1>3, Types DEF TypeOK, StatusRec, RunnerRec, PutRec, Pcs
<1>5. OneApply'
  BY <1>0, <1>1, <1>2 DEF OneApply, Phase
<1>6. BootFirst'
  BY <1>0, <1>1, <1>2 DEF BootFirst, At, Procs
<1>7. Threads'
  BY <1>0, <1>1, <1>2, <1>3 DEF Threads, At, OneApply, Phase
<1>8. ShownUp'
  <2>1. \A q \in Procs : ~At(q, "swap")
    BY <1>0, <1>1 DEF At, OneApply, Phase
  <2>2. QED
    BY <1>0, <1>1, <1>3, <2>1 DEF ShownUp, At
<1>9. Belongs'
  BY <1>0, <1>1 DEF Belongs, Has
<1>10. Saved'
  BY <1>0, <1>1, <1>2 DEF Saved, At, Quiet, Procs
<1>11. QED
  BY <1>4, <1>5, <1>6, <1>7, <1>8, <1>9, <1>10 DEF LInv

LEMMA JoinAllKeeps ==
    ASSUME LInv, NEW p \in Procs, JoinAll(p)
    PROVE  LInv'
<1>0. TypeOK /\ OneApply /\ BootFirst /\ Threads /\ ShownUp /\ Belongs /\ Saved
  BY DEF LInv
<1>1. /\ config' = config /\ status' = status /\ chan' = chan /\ lock' = lock
      /\ file' = file /\ raced' = raced /\ put[p].pc = "join" /\ lock = p
      /\ \A l \in Links : runner[l].pc \in {"none", "exit"}
  BY <1>0 DEF JoinAll, At, OneApply, Phase
<1>2. /\ put' \in [Procs -> PutRec] /\ put'[p].pc = "swap" /\ put'[p].cfg = put[p].cfg
      /\ \A q \in Procs : q # p => put'[q] = put[q]
  BY <1>0, GoToIs DEF JoinAll
<1>3. /\ runner' \in [Links -> RunnerRec]
      /\ \A l \in Links : runner'[l].pc = "none" /\ runner'[l].stop = runner[l].stop
  <2>1. runner \in [Links -> RunnerRec]
    BY <1>0, Types
  <2>2. QED
    BY <2>1 DEF JoinAll, RunnerRec, Pcs
<1>4. TypeOK'
  BY <1>0, <1>1, <1>2, <1>3, Types DEF TypeOK, StatusRec, RunnerRec, PutRec, Pcs
<1>5. OneApply'
  BY <1>0, <1>1, <1>2 DEF OneApply, Phase
<1>6. BootFirst'
  BY <1>0, <1>1, <1>2 DEF BootFirst, At, Procs
<1>7. Threads'
  BY <1>0, <1>1, <1>2, <1>3 DEF Threads, At, OneApply, Phase
<1>8. ShownUp'
  <2>1. \A q \in Procs : ~At(q, "swap")
    BY <1>0, <1>1 DEF At, OneApply, Phase
  <2>2. \A l \in Links : status[l].state = "up" => runner[l].pc = "exit" /\ runner[l].stop
    BY <1>0, <1>1, <2>1 DEF ShownUp
  <2>3. QED
    BY <1>0, <1>1, <1>2, <1>3, <2>2 DEF ShownUp, At
<1>9. Belongs'
  BY <1>0, <1>1 DEF Belongs, Has
<1>10. Saved'
  BY <1>0, <1>1, <1>2 DEF Saved, At, Quiet, Procs
<1>11. QED
  BY <1>4, <1>5, <1>6, <1>7, <1>8, <1>9, <1>10 DEF LInv

LEMMA SwapKeeps ==
    ASSUME LInv, NEW p \in Procs, Swap(p)
    PROVE  LInv'
<1>0. TypeOK /\ OneApply /\ BootFirst /\ Threads /\ ShownUp /\ Belongs /\ Saved
  BY DEF LInv
<1>1. /\ runner' = runner /\ lock' = lock /\ file' = file /\ raced' = raced
      /\ put[p].pc = "swap" /\ lock = p /\ config' = put[p].cfg
      /\ \A l \in Links : runner[l].pc = "none"
  BY <1>0 DEF Swap, At, OneApply, Phase, Threads
<1>2. /\ put' \in [Procs -> PutRec] /\ put'[p].pc = "start" /\ put'[p].cfg = put[p].cfg
      /\ \A q \in Procs : q # p => put'[q] = put[q]
      /\ config' \in Config
  <2>1. put[p].cfg \in Config
    BY <1>0, Types DEF PutRec
  <2>2. QED
    BY <1>0, <1>1, <2>1, GoToIs DEF Swap
<1>3. /\ chan' \in [Links -> SUBSET (Setting \cup {Absent})] /\ \A l \in Links : chan'[l] = {}
      /\ status' \in [Links -> StatusRec]
      /\ \A l \in Links : /\ status'[l].state \in {"none", "down", "off"}
                          /\ status'[l].state = "none" <=> ~Has(config', l)
                          /\ status'[l].by = None
  BY <1>1 DEF Swap, NoStatus, StatusRec, States
<1>4. TypeOK'
  BY <1>0, <1>1, <1>2, <1>3, Types DEF TypeOK, StatusRec, RunnerRec, PutRec, Pcs
<1>5. OneApply'
  BY <1>0, <1>1, <1>2 DEF OneApply, Phase
<1>6. BootFirst'
  BY <1>0, <1>1, <1>2 DEF BootFirst, At, Procs
<1>7. Threads'
  BY <1>0, <1>1, <1>2 DEF Threads, At, OneApply, Phase
<1>8. ShownUp'
  BY <1>1, <1>3 DEF ShownUp
<1>9. Belongs'
  BY <1>3 DEF Belongs, Has
<1>10. Saved'
  BY <1>0, <1>1, <1>2 DEF Saved, At, Quiet, Procs, BootFirst
<1>11. QED
  BY <1>4, <1>5, <1>6, <1>7, <1>8, <1>9, <1>10 DEF LInv

LEMMA StartKeeps ==
    ASSUME LInv, NEW p \in Procs, NEW l \in Links, Start(p, l)
    PROVE  LInv'
<1>0. TypeOK /\ OneApply /\ BootFirst /\ Threads /\ ShownUp /\ Belongs /\ Saved
  BY DEF LInv
<1>1. /\ config' = config /\ status' = status /\ chan' = chan /\ lock' = lock /\ put' = put
      /\ file' = file /\ raced' = raced /\ put[p].pc = "start" /\ lock = p
      /\ config[l] \in Enabled /\ runner[l].pc = "none"
  BY <1>0 DEF Start, At, OneApply, Phase
<1>2. /\ runner' \in [Links -> RunnerRec]
      /\ runner'[l].pc = "top" /\ runner'[l].stop = FALSE /\ runner'[l].cfg = config[l]
      /\ \A k \in Links : k # l => runner'[k] = runner[k]
  <2>1. runner \in [Links -> RunnerRec]
    BY <1>0, Types
  <2>2. [pc |-> "top", stop |-> FALSE, cfg |-> config[l]] \in RunnerRec
    BY <1>1 DEF RunnerRec, Pcs, Setting
  <2>3. QED
    BY <2>1, <2>2 DEF Start
<1>3. TypeOK'
  BY <1>0, <1>1, <1>2, Types DEF TypeOK, StatusRec, RunnerRec, PutRec, Pcs
<1>4. OneApply' /\ BootFirst' /\ Saved'
  BY <1>0, <1>1 DEF OneApply, Phase, BootFirst, Saved, At, Quiet
<1>5. Threads'
  BY <1>0, <1>1, <1>2 DEF Threads, At, OneApply, Phase
<1>6. ShownUp'
  <2>1. \A q \in Procs : ~At(q, "swap")
    BY <1>0, <1>1 DEF At, OneApply, Phase
  <2>2. status[l].state # "up"
    BY <1>0, <1>1, <2>1 DEF ShownUp
  <2>3. QED
    BY <1>0, <1>1, <1>2, <2>2 DEF ShownUp, At
<1>7. Belongs'
  BY <1>0, <1>1 DEF Belongs, Has
<1>8. QED
  BY <1>3, <1>4, <1>5, <1>6, <1>7 DEF LInv

LEMMA AppliedKeeps ==
    ASSUME LInv, NEW p \in Procs, Applied(p)
    PROVE  LInv'
<1>0. TypeOK /\ OneApply /\ BootFirst /\ Threads /\ ShownUp /\ Belongs /\ Saved
  BY DEF LInv
<1>1. /\ config' = config /\ status' = status /\ chan' = chan /\ runner' = runner
      /\ lock' = None /\ lock = p /\ put[p].pc = "start"
      /\ file' = file /\ raced' = raced /\ config = put[p].cfg
  BY <1>0 DEF Applied, At, OneApply, Phase, Threads
<1>2. /\ put' \in [Procs -> PutRec] /\ put'[p].pc = (IF p = Boot THEN "idle" ELSE "save")
      /\ put'[p].cfg = put[p].cfg
      /\ \A q \in Procs : q # p => put'[q] = put[q]
  BY <1>0, GoToIs DEF Applied
<1>3. TypeOK'
  BY <1>0, <1>1, <1>2, Types DEF TypeOK, StatusRec, RunnerRec, PutRec, Pcs
<1>4. OneApply'
  BY <1>0, <1>1, <1>2, LinksAssumption DEF OneApply, Phase
<1>5. BootFirst'
  BY <1>0, <1>1, <1>2 DEF BootFirst, At, Procs
<1>6. Threads' /\ ShownUp'
  BY <1>0, <1>1, <1>2 DEF Threads, ShownUp, At
<1>7. Belongs'
  BY <1>0, <1>1 DEF Belongs, Has
<1>8. Saved'
  <2>1. CASE p = Boot
    BY <1>0, <1>1, <1>2, <2>1 DEF Saved, At, Quiet, Procs, BootFirst
  <2>2. CASE p # Boot
    BY <1>0, <1>1, <1>2, <2>2 DEF Saved, At, Quiet, Procs
  <2>3. QED
    BY <2>1, <2>2
<1>9. QED
  BY <1>3, <1>4, <1>5, <1>6, <1>7, <1>8 DEF LInv

LEMMA SaveOpenKeeps ==
    ASSUME LInv, NEW c \in Clients, SaveOpen(c)
    PROVE  LInv'
<1>0. TypeOK /\ OneApply /\ BootFirst /\ Threads /\ ShownUp /\ Belongs /\ Saved
  BY DEF LInv
<1>1. /\ config' = config /\ status' = status /\ chan' = chan /\ runner' = runner
      /\ lock' = lock /\ put[c].pc = "save" /\ file' = File("empty") /\ raced' = raced
      /\ c \in Procs /\ c # Boot /\ Boot \in Procs /\ put[Boot].pc = "idle"
  BY <1>0, LinksAssumption DEF SaveOpen, At, Procs, BootFirst
<1>2. /\ put' \in [Procs -> PutRec] /\ put'[c].pc = "write" /\ put'[c].cfg = put[c].cfg
      /\ \A q \in Procs : q # c => put'[q] = put[q]
  BY <1>0, <1>1, GoToIs DEF SaveOpen
<1>3. TypeOK'
  <2>1. file' \in [state : {"absent", "empty", "torn", "whole"}, cfg : Config]
    BY <1>1 DEF File, NoLink, Config
  <2>2. QED
    BY <1>0, <1>1, <1>2, <2>1, Types DEF TypeOK, StatusRec, RunnerRec, PutRec, Pcs
<1>4. OneApply'
  BY <1>0, <1>1, <1>2 DEF OneApply, Phase
<1>5. BootFirst'
  BY <1>0, <1>1, <1>2 DEF BootFirst, At, Procs
<1>6. Threads' /\ ShownUp'
  BY <1>0, <1>1, <1>2 DEF Threads, ShownUp, At
<1>7. Belongs'
  BY <1>0, <1>1 DEF Belongs, Has
<1>8. Saved'
  BY <1>0, <1>1, <1>2 DEF Saved, At, Quiet, Procs, File
<1>9. QED
  BY <1>3, <1>4, <1>5, <1>6, <1>7, <1>8 DEF LInv

LEMMA SaveWriteKeeps ==
    ASSUME LInv, NEW c \in Clients, SaveWrite(c)
    PROVE  LInv'
<1>0. TypeOK /\ OneApply /\ BootFirst /\ Threads /\ ShownUp /\ Belongs /\ Saved
  BY DEF LInv
<1>1. /\ config' = config /\ status' = status /\ chan' = chan /\ runner' = runner
      /\ lock' = lock /\ put[c].pc = "write" /\ raced' = raced
      /\ file' = Holding(put[c].cfg) \/ (file # File("empty") /\ file' = File("torn"))
      /\ c \in Procs /\ c # Boot /\ Boot \in Procs /\ put[Boot].pc = "idle"
  BY <1>0, LinksAssumption DEF SaveWrite, At, Procs, BootFirst
<1>2. /\ put' \in [Procs -> PutRec] /\ put'[c].pc = "idle"
      /\ \A q \in Procs : q # c => put'[q] = put[q]
  <2>1. NoPut \in PutRec /\ NoPut.pc = "idle"
    BY DEF NoPut, NoLink, PutRec, Config
  <2>2. QED
    BY <1>0, <1>1, <2>1, PutIs DEF SaveWrite
<1>3. TypeOK'
  <2>1. put[c].cfg \in Config
    BY <1>0, <1>1, Types DEF PutRec
  <2>2. file' \in [state : {"absent", "empty", "torn", "whole"}, cfg : Config]
    BY <1>1, <2>1 DEF File, Holding, NoLink, Config
  <2>3. QED
    BY <1>0, <1>1, <1>2, <2>2, Types DEF TypeOK, StatusRec, RunnerRec, PutRec, Pcs
<1>4. OneApply'
  BY <1>0, <1>1, <1>2 DEF OneApply, Phase
<1>5. BootFirst'
  BY <1>0, <1>1, <1>2 DEF BootFirst, At, Procs
<1>6. Threads' /\ ShownUp'
  BY <1>0, <1>1, <1>2 DEF Threads, ShownUp, At
<1>7. Belongs'
  BY <1>0, <1>1 DEF Belongs, Has
<1>8. Saved'
  <2>1. ~raced => config = put[c].cfg /\ file' = Holding(put[c].cfg)
    BY <1>0, <1>1 DEF Saved, At
  <2>2. ~raced => config = file'.cfg
    BY <2>1 DEF Holding
  <2>3. \A d \in Clients : ~raced /\ d # c => At(d, "idle")
    BY <1>0, <1>1 DEF Saved, At
  <2>4. QED
    BY <1>0, <1>1, <1>2, <2>2, <2>3 DEF Saved, At, Quiet, Procs
<1>9. QED
  BY <1>3, <1>4, <1>5, <1>6, <1>7, <1>8 DEF LInv

-----------------------------------------------------------------------------
\* The start of the server, the first or another.
LEMMA StartIs ==
    ASSUME NEW f \in [state : {"absent", "empty", "torn", "whole"}, cfg : Config]
    PROVE  /\ AfterLoad(f) \in [state : {"absent", "empty", "torn", "whole"}, cfg : Config]
           /\ Loaded(AfterLoad(f)) = AfterLoad(f).cfg
           /\ NoLink \in Config /\ NoStatus \in StatusRec /\ NoRunner \in RunnerRec
           /\ NoPut \in PutRec /\ NoPut.pc = "idle" /\ Boot \notin Clients
           /\ \A l \in Links : NoLink[l] = Absent
           /\ NoStatus.state = "none" /\ NoStatus.by = None /\ NoRunner.pc = "none"
  BY LinksAssumption
     DEF AfterLoad, Loaded, Holding, NoLink, Config, NoStatus, StatusRec, States,
         NoRunner, RunnerRec, Pcs, NoPut, PutRec

LEMMA CrashKeeps ==
    ASSUME LInv, Crash
    PROVE  LInv'
<1>1. file \in [state : {"absent", "empty", "torn", "whole"}, cfg : Config]
  BY Types DEF LInv
<1>2. /\ file' = AfterLoad(file)
      /\ file' \in [state : {"absent", "empty", "torn", "whole"}, cfg : Config]
  BY <1>1, StartIs DEF Crash
<1>3. /\ config' \in Config /\ \A l \in Links : config'[l] = Absent
      /\ status' \in [Links -> StatusRec]
      /\ \A l \in Links : status'[l].state = "none" /\ status'[l].by = None
      /\ chan' \in [Links -> SUBSET (Setting \cup {Absent})] /\ \A l \in Links : chan'[l] = {}
      /\ runner' \in [Links -> RunnerRec] /\ \A l \in Links : runner'[l].pc = "none"
      /\ lock' = None /\ raced' = FALSE
  BY <1>1, StartIs DEF Crash
<1>4. /\ put' \in [Procs -> PutRec] /\ put'[Boot].pc = "lock" /\ put'[Boot].cfg = file'.cfg
      /\ \A c \in Clients : put'[c].pc = "idle"
  <2>1. [pc |-> "lock", cfg |-> file'.cfg] \in PutRec
    BY <1>2 DEF PutRec
  <2>2. put' = [p \in Procs |-> IF p = Boot THEN [pc |-> "lock", cfg |-> file'.cfg] ELSE NoPut]
    BY <1>1, <1>2, StartIs DEF Crash
  <2>3. QED
    BY <1>1, <2>1, <2>2, StartIs DEF Procs
<1>5. TypeOK'
  BY <1>2, <1>3, <1>4 DEF TypeOK, StatusRec, RunnerRec, PutRec, Pcs
<1>6. OneApply' /\ BootFirst' /\ Threads' /\ ShownUp' /\ Belongs' /\ Saved'
  BY <1>3, <1>4, LinksAssumption
     DEF OneApply, Phase, BootFirst, Threads, ShownUp, Belongs, Has, Saved, At, Quiet, Procs
<1>7. QED
  BY <1>5, <1>6 DEF LInv

LEMMA InitLInv == Init => LInv
<1> SUFFICES ASSUME Init PROVE LInv
  OBVIOUS
<1>1. File("absent") \in [state : {"absent", "empty", "torn", "whole"}, cfg : Config]
  BY DEF File, NoLink, Config
<1>2. /\ file \in [state : {"absent", "empty", "torn", "whole"}, cfg : Config]
      /\ Loaded(file) = file.cfg
  BY <1>1, StartIs DEF Init
<1>3. /\ config \in Config /\ \A l \in Links : config[l] = Absent
      /\ status \in [Links -> StatusRec]
      /\ \A l \in Links : status[l].state = "none" /\ status[l].by = None
      /\ chan \in [Links -> SUBSET (Setting \cup {Absent})] /\ \A l \in Links : chan[l] = {}
      /\ runner \in [Links -> RunnerRec] /\ \A l \in Links : runner[l].pc = "none"
      /\ lock = None /\ raced = FALSE
  BY <1>1, StartIs DEF Init
<1>4. /\ put \in [Procs -> PutRec] /\ put[Boot].pc = "lock" /\ put[Boot].cfg = file.cfg
      /\ \A c \in Clients : put[c].pc = "idle"
  <2>1. [pc |-> "lock", cfg |-> file.cfg] \in PutRec
    BY <1>2 DEF PutRec
  <2>2. put = [p \in Procs |-> IF p = Boot THEN [pc |-> "lock", cfg |-> file.cfg] ELSE NoPut]
    BY <1>2 DEF Init
  <2>3. QED
    BY <1>1, <2>1, <2>2, StartIs DEF Procs
<1>5. TypeOK
  BY <1>2, <1>3, <1>4 DEF TypeOK, StatusRec, RunnerRec, PutRec, Pcs
<1>6. OneApply /\ BootFirst /\ Threads /\ ShownUp /\ Belongs /\ Saved
  BY <1>3, <1>4, LinksAssumption
     DEF OneApply, Phase, BootFirst, Threads, ShownUp, Belongs, Has, Saved, At, Quiet, Procs
<1>7. QED
  BY <1>5, <1>6 DEF LInv

LEMMA StepLInv == LInv /\ [Next]_vars => LInv'
<1> SUFFICES ASSUME LInv, [Next]_vars PROVE LInv'
  OBVIOUS
<1>1. ASSUME NEW p \in Procs, ApplyStep(p)
      PROVE  LInv'
  BY <1>1, ApplyLockKeeps, RaiseStopsKeeps, JoinAllKeeps, SwapKeeps, AppliedKeeps, StartKeeps
     DEF ApplyStep
<1>2. ASSUME NEW c \in Clients, SaveStep(c)
      PROVE  LInv'
  BY <1>2, SaveOpenKeeps, SaveWriteKeeps DEF SaveStep
<1>3. CASE UNCHANGED vars
  BY <1>3 DEF vars, LInv, TypeOK, OneApply, Phase, BootFirst, Threads, ShownUp, Belongs, Has,
              Saved, At, Quiet
<1>4. QED
  BY <1>1, <1>2, <1>3, RunnerStepKeeps, TellingKeeps, PutBeginKeeps, CrashKeeps DEF Next

\* The invariant holds of every reachable state.
THEOREM LinksInvariant == Spec => []LInv
  BY InitLInv, StepLInv, PTL DEF Spec

\* What a client is told of a link is so: one that is shown "up" has its driver
\* open, under the configuration in force, and the warning beside it comes from
\* this connection, unless its thread is being stopped (ProtocolSource::states).
THEOREM UpIsMeant == Spec => []UpMeansUp
<1>1. LInv => UpMeansUp
  BY DEF LInv, ShownUp, UpMeansUp, UpIsOpen, StatusOfThisSession, DriverOpen
<1>2. QED
  BY <1>1, LinksInvariant, PTL

\* After a PUT nothing of the former configuration is left: no state of a link
\* that it does not have, no sample or counter published under other settings,
\* no thread that serves others (ProtocolSource::apply).
THEOREM ConfigIsCurrent == Spec => []OnlyCurrentConfig
<1>1. LInv => OnlyCurrentConfig
  BY DEF LInv, Belongs, Threads, OnlyCurrentConfig
<1>2. QED
  BY <1>1, LinksInvariant, PTL

\* Unless two requests overlapped, the server comes back after a stop with the
\* links that it has, wherever it was stopped before (save_protocols, main).
THEOREM LonePutIsSaved == Spec => []LonePutPersists
<1>1. LInv => LonePutPersists
  BY DEF LInv, Saved, LonePutPersists, Loaded
<1>2. QED
  BY <1>1, LinksInvariant, PTL

-----------------------------------------------------------------------------
(* Starting afresh (Reset).                                               *)

\* The rank of the part a step is about; those of a lower rank are passed.
EraseAt(s) ==
  CASE s \in {"lays", "delete"} -> 1
    [] s = "skin" -> 2
    [] s \in {"links", "save"} -> 3
    [] s = "cap" -> 4
    [] OTHER -> 5

ErasePassed(p, s) == Re!Rank[p] < EraseAt(s)
EraseSure == Re!Parts \ {"links"}

EraseDone ==
  step \in Re!Erasing \cup {"left"} =>
    /\ asked \subseteq ticked
    /\ \A p \in asked \cap EraseSure : ErasePassed(p, step) => failed \/ Re!Gone(p)
    /\ step = "delete" /\ "lays" \in asked => failed \/ layouts \subseteq todo
    /\ step = "left" => ~failed

EraseSown ==
  /\ fresh # "none" => step \in {"left", "reloaded"}
  /\ step = "left" /\ fresh # "none" =>
       /\ ~timer /\ ~autoload
       /\ session = IF fresh = "vierge" THEN "blank" ELSE "none"

EraseInv == Re!TypeOK /\ EraseDone /\ EraseSown /\ Re!FreshStart

-----------------------------------------------------------------------------
(* The order of the parts.                                                 *)

LEMMA EraseRanks ==
  /\ Re!Parts = {"skin", "links", "cap", "lays"}
  /\ Re!Rank["lays"] = 1 /\ Re!Rank["skin"] = 2 /\ Re!Rank["links"] = 3 /\ Re!Rank["cap"] = 4
  BY DEF Re!Parts, Re!Settings, Re!Rank

\* The next step is that of a ticked part of a higher rank than r, the first,
\* or the end.
LEMMA EraseAfterIs ==
  ASSUME NEW r \in Nat
  PROVE  LET left == {p \in Re!Parts \cap ticked : Re!Rank[p] > r}
         IN \/ Re!After(r) = "end" /\ left = {}
            \/ Re!After(r) \in left /\ \A q \in left : Re!Rank[Re!After(r)] <= Re!Rank[q]
<1> DEFINE left == {p \in Re!Parts \cap ticked : Re!Rank[p] > r}
<1>1. left # {} => \E p \in left : \A q \in left : Re!Rank[p] <= Re!Rank[q]
  <2>1. left \subseteq {"skin", "links", "cap", "lays"}
    BY EraseRanks
  <2> HIDE DEF left
  <2>2. CASE "lays" \in left
    BY <2>1, <2>2, EraseRanks
  <2>3. CASE "lays" \notin left /\ "skin" \in left
    BY <2>1, <2>3, EraseRanks
  <2>4. CASE left \subseteq {"links", "cap"} /\ "links" \in left
    BY <2>1, <2>4, EraseRanks
  <2>5. CASE left \subseteq {"cap"}
    <3>1. \A p, q \in left : p = q /\ Re!Rank[p] \in Nat
      BY <2>5, EraseRanks
    <3>2. QED
      BY <3>1
  <2>6. QED
    BY <2>1, <2>2, <2>3, <2>4, <2>5
<1>2. CASE left = {}
  BY <1>2 DEF Re!After
<1>3. CASE left # {}
  <2>1. Re!After(r) = CHOOSE p \in left : \A q \in left : Re!Rank[p] <= Re!Rank[q]
    BY <1>3 DEF Re!After
  <2> HIDE DEF left
  <2>2. Re!After(r) \in left /\ \A q \in left : Re!Rank[Re!After(r)] <= Re!Rank[q]
    BY <1>1, <1>3, <2>1
  <2>3. QED
    BY <2>2 DEF left
<1>4. QED
  BY <1>2, <1>3

\* A part of Parts is a step of its own rank; "end" is after them all.
LEMMA EraseAtIs ==
  /\ \A p \in Re!Parts : EraseAt(p) = Re!Rank[p] /\ p \in Re!Erasing /\ p # "delete" /\ p # "left"
  /\ EraseAt("end") = 5 /\ EraseAt("left") = 5 /\ EraseAt("delete") = 1 /\ EraseAt("save") = 3
  /\ \A p \in Re!Parts : Re!Rank[p] \in 1..4
  BY EraseRanks DEF EraseAt, Re!Erasing

\* Going on after the part of rank r passes no other part that is ticked.
LEMMA EraseAfterPasses ==
  ASSUME NEW r \in Nat
  PROVE  /\ Re!After(r) \in Re!Erasing \ {"delete"}
         /\ \A p \in Re!Parts \cap ticked : ErasePassed(p, Re!After(r)) => Re!Rank[p] <= r
<1> DEFINE left == {p \in Re!Parts \cap ticked : Re!Rank[p] > r}
<1>1. CASE Re!After(r) = "end" /\ left = {}
  <2>1. \A p \in Re!Parts \cap ticked : Re!Rank[p] <= r
    BY <1>1, EraseAtIs
  <2>2. QED
    BY <1>1, <2>1 DEF Re!Erasing
<1>2. CASE Re!After(r) \in left /\ \A q \in left : Re!Rank[Re!After(r)] <= Re!Rank[q]
  <2>1. Re!After(r) \in Re!Parts /\ EraseAt(Re!After(r)) = Re!Rank[Re!After(r)]
    BY <1>2, EraseAtIs
  <2>2. ASSUME NEW p \in Re!Parts \cap ticked, ErasePassed(p, Re!After(r))
        PROVE  Re!Rank[p] <= r
    <3>1. Re!Rank[p] < Re!Rank[Re!After(r)] /\ Re!Rank[p] \in Nat /\ Re!Rank[Re!After(r)] \in Nat
      BY <2>1, <2>2, EraseAtIs DEF ErasePassed
    <3>2. p \notin left
      BY <1>2, <3>1
    <3>3. QED
      BY <2>2, <3>1, <3>2
  <2>3. QED
    BY <2>1, <2>2, EraseAtIs
<1>3. QED
  BY <1>1, <1>2, EraseAfterIs

-----------------------------------------------------------------------------
(* What a request leaves of Done.                                          *)

\* A request that goes on to what follows rank r has erased what it passes,
\* or failed.
LEMMA EraseGoesOn ==
  ASSUME EraseInv, NEW r \in 1..4, step \in Re!Erasing,
         step' = Re!After(r), asked' = asked, ticked' = ticked, failed => failed',
         own' \subseteq own, layouts' \subseteq layouts,
         \A p \in asked \cap EraseSure : Re!Rank[p] <= r => ErasePassed(p, step) \/ failed' \/ Re!Gone(p)'
  PROVE  EraseDone'
<1>1. /\ asked \subseteq ticked
      /\ \A p \in asked \cap EraseSure : ErasePassed(p, step) => failed \/ Re!Gone(p)
  BY DEF EraseInv, EraseDone
<1>2. step' \in Re!Erasing \ {"delete"} /\ step' # "left"
  BY EraseAfterPasses DEF Re!Erasing
<1>3. \A p \in Re!Parts \cap ticked : ErasePassed(p, step') => Re!Rank[p] <= r
  BY EraseAfterPasses
<1>4. \A p : Re!Gone(p) => Re!Gone(p)'
  BY DEF Re!Gone
<1>5. \A p \in asked \cap EraseSure : ErasePassed(p, step') => failed' \/ Re!Gone(p)'
  BY <1>1, <1>3, <1>4 DEF EraseSure
<1>6. QED
  BY <1>1, <1>2, <1>5 DEF EraseDone

\* A step that stays where the erasing is, and takes nothing back.
LEMMA EraseStaysPut ==
  ASSUME EraseInv, EraseAt(step') = EraseAt(step), step' = "left" <=> step = "left",
         step' \in Re!Erasing \cup {"left"} => step \in Re!Erasing \cup {"left"},
         step' = "delete" => step = "delete" /\ todo' = todo,
         asked' \subseteq asked,
         step' \in Re!Erasing \cup {"left"} => asked' \subseteq ticked',
         failed' = failed,
         \A p \in asked' \cap EraseSure : Re!Gone(p) => Re!Gone(p)',
         "lays" \in asked' => layouts' \subseteq layouts
  PROVE  EraseDone'
<1>1. SUFFICES ASSUME step' \in Re!Erasing \cup {"left"} PROVE EraseDone'
  BY DEF EraseDone
<1>2. /\ \A p \in asked \cap EraseSure : ErasePassed(p, step) => failed \/ Re!Gone(p)
      /\ step = "delete" /\ "lays" \in asked => failed \/ layouts \subseteq todo
      /\ step = "left" => ~failed
  BY <1>1 DEF EraseInv, EraseDone
<1>3. \A p \in asked' \cap EraseSure : ErasePassed(p, step') => failed' \/ Re!Gone(p)'
  BY <1>2 DEF ErasePassed
<1>4. step' = "delete" /\ "lays" \in asked' => failed' \/ layouts' \subseteq todo'
  BY <1>2
<1>5. QED
  BY <1>1, <1>2, <1>3, <1>4 DEF EraseDone

\* Before the erasing and after it, Done says nothing.
LEMMA EraseElsewise ==
  ASSUME step' \notin Re!Erasing \cup {"left"}
  PROVE  EraseDone'
  BY DEF EraseDone

-----------------------------------------------------------------------------
(* The window.                                                             *)

\* What the steps of the window share: the page and its promise stay.
EraseAside == fresh' = fresh /\ timer' = timer /\ autoload' = autoload /\ session' = session /\ shows' = shows

LEMMA EraseAsideKeeps ==
  ASSUME EraseInv, EraseAside, step' = "left" => step = "left", step' = "reloaded" => step = "reloaded",
         step \in {"left", "reloaded"} => step' = step
  PROVE  EraseSown' /\ Re!FreshStart'
  BY DEF EraseInv, EraseSown, Re!FreshStart, EraseAside

LEMMA EraseNoFailure == Re!NotedNever = failed /\ Re!Noted = TRUE
  BY DEF Re!NotedNever, Re!Noted

LEMMA EraseWindowKeeps ==
  ASSUME EraseInv, NEW k \in {"default", "vierge"},
         Re!Open(k) \/ Re!Cancel \/ Re!FirstClick \/ Re!Refused
  PROVE  EraseInv'
<1>1. /\ EraseAside /\ own' = own /\ layouts' = layouts /\ holder' = holder
      /\ step \in {"closed", "choose", "confirm", "end"}
      /\ step' \in {"choose", "closed", "confirm"}
      /\ kind' \in {kind, k, "default"} /\ ticked' \in {ticked, {}, {"nav"}}
      /\ failed' \in {failed, FALSE} /\ todo' \in {todo, {}} /\ asked' \in {asked, {}}
  BY DEF Re!Open, Re!Cancel, Re!FirstClick, Re!Refused, EraseAside, Re!controller, Re!browser
<1>2. Re!TypeOK'
  <2>1. Re!TypeOK /\ "nav" \in Re!Boxes
    BY DEF EraseInv, Re!Boxes
  <2>2. /\ ticked' \subseteq Re!Boxes /\ asked' \subseteq Re!Boxes /\ todo' \subseteq LayoutsKept
        /\ failed' \in BOOLEAN /\ kind' \in {"default", "vierge"}
    BY <1>1, <2>1 DEF Re!TypeOK
  <2>3. QED
    BY <1>1, <2>1, <2>2 DEF Re!TypeOK, EraseAside
<1>3. EraseDone'
  BY <1>1, EraseElsewise DEF Re!Erasing
<1>4. EraseSown' /\ Re!FreshStart'
  BY <1>1, EraseAsideKeeps
<1>5. QED
  BY <1>2, <1>3, <1>4 DEF EraseInv

LEMMA EraseTickKeeps ==
  ASSUME EraseInv, NEW b \in Re!Boxes, Re!Tick(b)
  PROVE  EraseInv'
<1>1. /\ EraseAside /\ own' = own /\ layouts' = layouts /\ holder' = holder
      /\ step' = step /\ step \in Re!Erasing \cup {"choose", "confirm"}
      /\ kind' = kind /\ failed' = failed /\ todo' = todo
      /\ asked' = asked \ {b}
      /\ ticked' = IF b \in ticked THEN ticked \ {b} ELSE ticked \cup {b}
  BY DEF Re!Tick, EraseAside, Re!controller, Re!browser
<1>2. Re!TypeOK'
  BY <1>1 DEF EraseInv, Re!TypeOK, EraseAside
<1>3. step \in Re!Erasing => asked' \subseteq ticked'
  BY <1>1 DEF EraseInv, EraseDone
<1>4. EraseDone'
  BY <1>1, <1>3, EraseStaysPut DEF Re!Gone, Re!Erasing
<1>5. EraseSown' /\ Re!FreshStart'
  BY <1>1, EraseAsideKeeps
<1>6. QED
  BY <1>2, <1>4, <1>5 DEF EraseInv

LEMMA EraseSecondClickKeeps ==
  ASSUME EraseInv, Re!SecondClick
  PROVE  EraseInv'
<1>1. /\ EraseAside /\ own' = own /\ layouts' = layouts /\ holder' = holder
      /\ step = "confirm" /\ step' = Re!After(0)
      /\ kind' = kind /\ failed' = FALSE /\ todo' = todo
      /\ asked' = ticked /\ ticked' = ticked
  BY DEF Re!SecondClick, EraseAside, Re!controller, Re!browser
<1>2. /\ step' \in Re!Erasing \ {"delete"}
      /\ \A p \in Re!Parts \cap ticked : ErasePassed(p, step') => Re!Rank[p] <= 0
  BY <1>1, EraseAfterPasses
<1>3. Re!TypeOK'
  BY <1>1, <1>2 DEF EraseInv, Re!TypeOK, EraseAside
\* No part has a rank of 0: nothing is passed yet.
<1>4. \A p \in asked' \cap EraseSure : ~ErasePassed(p, step')
  BY <1>1, <1>2, EraseAtIs DEF EraseSure
<1>5. EraseDone'
  BY <1>1, <1>2, <1>4 DEF EraseDone, Re!Erasing
<1>6. EraseSown' /\ Re!FreshStart'
  BY <1>1, <1>2, EraseAsideKeeps DEF Re!Erasing
<1>7. QED
  BY <1>3, <1>5, <1>6 DEF EraseInv

-----------------------------------------------------------------------------
(* The requests.                                                           *)

LEMMA EraseListLayoutsKeeps ==
  ASSUME EraseInv, Re!ListLayouts
  PROVE  EraseInv'
<1>1. /\ EraseAside /\ own' = own /\ layouts' = layouts /\ holder' = holder
      /\ step = "lays" /\ kind' = kind /\ asked' = asked /\ ticked' = ticked
      /\ \/ todo' = layouts /\ failed' = failed /\ layouts = {} /\ step' = Re!After(1)
         \/ todo' = layouts /\ failed' = failed /\ step' = "delete"
         \/ todo' = {} /\ failed' = TRUE /\ step' = Re!After(1)
  BY DEF Re!ListLayouts, Re!Noted, EraseAside, Re!controller, Re!browser
<1>2. step' \in Re!Erasing
  BY <1>1, EraseAfterPasses DEF Re!Erasing
<1>3. Re!TypeOK'
  BY <1>1, <1>2 DEF EraseInv, Re!TypeOK, EraseAside
<1>4. ASSUME step' = "delete" PROVE EraseDone'
  <2>1. /\ asked \subseteq ticked
        /\ \A p \in asked \cap EraseSure : ErasePassed(p, step) => failed \/ Re!Gone(p)
    BY <1>1 DEF EraseInv, EraseDone, Re!Erasing
  <2>2. \A p : ErasePassed(p, step') <=> ErasePassed(p, step)
    BY <1>1, <1>4 DEF ErasePassed, EraseAt
  <2>3. failed' = failed /\ todo' = layouts
    BY <1>1, <1>4, EraseAfterPasses
  <2>4. \A p \in asked' \cap EraseSure : ErasePassed(p, step') => failed' \/ Re!Gone(p)'
    BY <1>1, <2>1, <2>2, <2>3 DEF Re!Gone
  <2>5. asked' \subseteq ticked' /\ layouts' \subseteq todo'
    BY <1>1, <2>1, <2>3
  <2>6. QED
    BY <1>4, <2>4, <2>5 DEF EraseDone
<1>5. ASSUME step' = Re!After(1) PROVE EraseDone'
  <2>1. \A p \in asked \cap EraseSure : Re!Rank[p] <= 1 => failed' \/ Re!Gone(p)'
    <3>1. failed' \/ layouts' = {}
      BY <1>1, <1>5, EraseAfterPasses
    <3>2. \A p \in EraseSure : Re!Rank[p] <= 1 => p = "lays"
      BY EraseRanks DEF EraseSure
    <3>3. QED
      BY <3>1, <3>2 DEF Re!Gone
  <2>2. 1 \in 1..4 /\ (failed => failed') /\ step \in Re!Erasing
    BY <1>1 DEF Re!Erasing
  <2>3. QED
    BY <1>1, <1>5, <2>1, <2>2, EraseGoesOn
<1>6. EraseDone'
  BY <1>1, <1>4, <1>5
<1>7. EraseSown' /\ Re!FreshStart'
  BY <1>1, <1>2, EraseAsideKeeps DEF Re!Erasing
<1>8. QED
  BY <1>3, <1>6, <1>7 DEF EraseInv

LEMMA EraseDeleteLayoutKeeps ==
  ASSUME EraseInv, Re!DeleteLayout
  PROVE  EraseInv'
<1>1. PICK l \in todo :
        \/ /\ layouts' = layouts \ {l} /\ todo' = todo \ {l} /\ failed' = failed
           /\ step' = IF todo = {l} THEN Re!After(1) ELSE "delete"
        \/ /\ layouts' \in {layouts, layouts \ {l}}
           /\ todo' = {} /\ failed' = TRUE
           /\ step' = Re!After(1)
  BY DEF Re!DeleteLayout, Re!Noted
<1>2. /\ EraseAside /\ own' = own /\ layouts' \subseteq layouts /\ holder' = holder
      /\ step = "delete" /\ kind' = kind /\ asked' = asked /\ ticked' = ticked
      /\ todo' \subseteq todo /\ failed' \in {failed, TRUE}
  BY <1>1 DEF Re!DeleteLayout, EraseAside, Re!browser
<1>3. step' \in Re!Erasing
  BY <1>1, EraseAfterPasses DEF Re!Erasing
<1>4. Re!TypeOK'
  BY <1>2, <1>3 DEF EraseInv, Re!TypeOK, EraseAside
<1>5. /\ asked \subseteq ticked
      /\ \A p \in asked \cap EraseSure : ErasePassed(p, step) => failed \/ Re!Gone(p)
      /\ "lays" \in asked => failed \/ layouts \subseteq todo
  BY <1>2 DEF EraseInv, EraseDone, Re!Erasing
<1>6. ASSUME step' = "delete" PROVE EraseDone'
  <2>1. layouts' = layouts \ {l} /\ todo' = todo \ {l} /\ failed' = failed
    BY <1>1, <1>6, EraseAfterPasses
  <2>2. \A p \in asked' \cap EraseSure : ErasePassed(p, step') => failed' \/ Re!Gone(p)'
    BY <1>2, <1>5, <1>6, <2>1 DEF Re!Gone
  <2>3. "lays" \in asked' => failed' \/ layouts' \subseteq todo'
    BY <1>2, <1>5, <2>1
  <2>4. asked' \subseteq ticked'
    BY <1>2, <1>5
  <2>5. QED
    BY <1>6, <2>2, <2>3, <2>4 DEF EraseDone
<1>7. ASSUME step' = Re!After(1) PROVE EraseDone'
  <2>1. "lays" \in asked => failed' \/ layouts' = {}
    BY <1>1, <1>5, <1>7, EraseAfterPasses
  <2>2. \A p \in EraseSure : Re!Rank[p] <= 1 => p = "lays"
    BY EraseRanks DEF EraseSure
  <2>3. \A p \in asked \cap EraseSure : Re!Rank[p] <= 1 => failed' \/ Re!Gone(p)'
    BY <2>1, <2>2 DEF Re!Gone
  <2>4. 1 \in 1..4 /\ (failed => failed') /\ step \in Re!Erasing
    BY <1>1, <1>2 DEF Re!Erasing
  <2>5. QED
    BY <1>2, <1>7, <2>3, <2>4, EraseGoesOn
<1>8. EraseDone'
  BY <1>1, <1>6, <1>7
<1>9. EraseSown' /\ Re!FreshStart'
  BY <1>2, <1>3, EraseAsideKeeps DEF Re!Erasing
<1>10. QED
  BY <1>4, <1>8, <1>9 DEF EraseInv

\* The requests that give back a setting.
LEMMA EraseSettingKeeps ==
  ASSUME EraseInv, Re!ResetSkin \/ Re!SaveLinks \/ Re!ResetCapture
  PROVE  EraseInv'
<1>1. PICK r \in 2..4 : /\ step' = Re!After(r) /\ EraseAt(step) = r
                        /\ r = 2 => "skin" \notin own' \/ failed'
                        /\ r = 4 => "cap" \notin own' \/ failed'
  <2>1. CASE Re!ResetSkin
    BY <2>1 DEF Re!ResetSkin, Re!Request, Re!Noted, EraseAt
  <2>2. CASE Re!SaveLinks
    BY <2>2 DEF Re!SaveLinks, EraseAt
  <2>3. CASE Re!ResetCapture
    BY <2>3 DEF Re!ResetCapture, Re!Request, Re!Noted, EraseAt
  <2>4. QED
    BY <2>1, <2>2, <2>3
<1>2. /\ EraseAside /\ own' \subseteq own /\ layouts' = layouts /\ holder' = holder
      /\ step \in Re!Erasing /\ kind' = kind /\ asked' = asked /\ ticked' = ticked
      /\ todo' = todo /\ (failed' = failed \/ failed' = TRUE)
  BY DEF Re!ResetSkin, Re!SaveLinks, Re!ResetCapture, Re!Request, Re!Noted, EraseAside, Re!browser, Re!Erasing
<1>3. step' \in Re!Erasing
  BY <1>1, EraseAfterPasses
<1>4. Re!TypeOK'
  BY <1>2, <1>3 DEF EraseInv, Re!TypeOK, EraseAside
<1>5. \A p \in asked \cap EraseSure : Re!Rank[p] <= r => ErasePassed(p, step) \/ failed' \/ Re!Gone(p)'
  <2>1. SUFFICES ASSUME NEW p \in asked \cap EraseSure, Re!Rank[p] <= r, ~ErasePassed(p, step)
                 PROVE  failed' \/ Re!Gone(p)'
    OBVIOUS
  <2>2. Re!Rank[p] = r /\ p \in {"lays", "skin", "cap"}
    BY <1>1, <2>1, EraseRanks DEF ErasePassed, EraseSure
  <2>3. p # "lays"
    BY <2>2, EraseRanks
  <2>4. p = "skin" => r = 2
    BY <2>2, EraseRanks
  <2>5. p = "cap" => r = 4
    BY <2>2, EraseRanks
  <2>6. QED
    BY <1>1, <2>2, <2>3, <2>4, <2>5 DEF Re!Gone
<1>6. EraseDone'
  <2>1. failed => failed'
    BY <1>2
  <2>2. r \in 1..4 /\ layouts' \subseteq layouts
    BY <1>1, <1>2
  <2>3. QED
    BY <1>1, <1>2, <1>5, <2>1, <2>2, EraseGoesOn
<1>7. EraseSown' /\ Re!FreshStart'
  BY <1>2, <1>3, EraseAsideKeeps DEF Re!Erasing
<1>8. QED
  BY <1>4, <1>6, <1>7 DEF EraseInv

LEMMA EraseLoadLinksKeeps ==
  ASSUME EraseInv, Re!LoadLinks
  PROVE  EraseInv'
<1>1. /\ EraseAside /\ own' = own /\ layouts' = layouts /\ holder' \in {"server", "local"}
      /\ step = "links" /\ step' = "save"
      /\ kind' = kind /\ asked' = asked /\ ticked' = ticked /\ todo' = todo /\ failed' = failed
  BY DEF Re!LoadLinks, EraseAside, Re!controller, Re!browser
<1>2. Re!TypeOK'
  BY <1>1 DEF EraseInv, Re!TypeOK, EraseAside, Re!Erasing
<1>3. asked \subseteq ticked
  BY <1>1 DEF EraseInv, EraseDone, Re!Erasing
<1>4. EraseDone'
  BY <1>1, <1>3, EraseStaysPut DEF Re!Gone, Re!Erasing, EraseAt
<1>5. EraseSown' /\ Re!FreshStart'
  BY <1>1, EraseAsideKeeps
<1>6. QED
  BY <1>2, <1>4, <1>5 DEF EraseInv

\* Leaving promises something only when the browser is erased and no save is
\* pending.
LEMMA EraseLeaveKeeps ==
  ASSUME EraseInv, Re!Leave
  PROVE  EraseInv'
<1>1. /\ own' = own /\ layouts' = layouts /\ holder' = holder
      /\ step = "end" /\ ~failed /\ step' = "left"
      /\ kind' = kind /\ asked' = asked /\ ticked' = ticked /\ todo' = todo /\ failed' = failed
      /\ timer' = timer /\ shows' = shows
      /\ "nav" \in ticked => session' = Re!Erased /\ autoload' = FALSE
      /\ "nav" \notin ticked => session' = session /\ autoload' = autoload
      /\ fresh' = IF "nav" \in ticked /\ ~timer THEN kind ELSE "none"
  BY DEF Re!Leave, Re!controller
<1>2. Re!TypeOK'
  BY <1>1 DEF EraseInv, Re!TypeOK, Re!Erased, Re!Tabs
<1>3. /\ asked \subseteq ticked
      /\ \A p \in asked \cap EraseSure : ErasePassed(p, step) => failed \/ Re!Gone(p)
  BY <1>1 DEF EraseInv, EraseDone, Re!Erasing
<1>4. EraseDone'
  BY <1>1, <1>3, EraseAtIs DEF EraseDone, Re!Gone, ErasePassed
<1>5. EraseSown' /\ Re!FreshStart'
  BY <1>1 DEF EraseSown, Re!Erased, Re!FreshStart
<1>6. QED
  BY <1>2, <1>4, <1>5 DEF EraseInv

-----------------------------------------------------------------------------
(* The page and the other stations.                                        *)

LEMMA EraseGestureKeeps ==
  ASSUME EraseInv, Re!Gesture
  PROVE  EraseInv'
<1>1. /\ step' = step /\ step \in {"closed", "reloaded"} /\ fresh' = "none"
      /\ shows' = "tabs" /\ timer' = TRUE
      /\ UNCHANGED <<layouts, own, holder, session, autoload, kind, ticked, todo, failed, asked>>
  BY DEF Re!Gesture, Re!controller, Re!window
<1>2. Re!TypeOK'
  BY <1>1 DEF EraseInv, Re!TypeOK, Re!Tabs
<1>3. EraseDone'
  BY <1>1, EraseElsewise DEF Re!Erasing
<1>4. QED
  BY <1>1, <1>2, <1>3 DEF EraseInv, EraseSown, Re!FreshStart

LEMMA EraseSaveSessionKeeps ==
  ASSUME EraseInv, Re!SaveSession
  PROVE  EraseInv'
<1>1. /\ timer = TRUE /\ session' = shows /\ timer' = FALSE
      /\ UNCHANGED <<layouts, own, holder, autoload, shows, fresh,
                     step, kind, ticked, todo, failed, asked>>
  BY DEF Re!SaveSession, Re!controller, Re!window, EraseInv, Re!TypeOK
<1>2. Re!TypeOK'
  BY <1>1 DEF EraseInv, Re!TypeOK
<1>3. EraseDone'
  BY <1>1 DEF EraseInv, EraseDone, Re!Gone
<1>4. QED
  BY <1>1, <1>2, <1>3 DEF EraseInv, EraseSown, Re!FreshStart

\* The page opens on the session, and no save came before.
LEMMA EraseOpensKeeps ==
  ASSUME EraseInv, Re!Opens
  PROVE  EraseInv'
<1>1. /\ step = "left" /\ step' = "reloaded" /\ shows' = Re!Restored
      /\ timer' = TRUE /\ holder' \in {"server", "local"}
      /\ kind' = "default" /\ ticked' = {} /\ asked' = {}
      /\ UNCHANGED <<layouts, own, session, autoload, todo, failed, fresh>>
  BY DEF Re!Opens, Re!controller
<1>2. Re!TypeOK'
  BY <1>1 DEF EraseInv, Re!TypeOK, Re!Restored, Re!Tabs
<1>3. EraseDone'
  BY <1>1, EraseElsewise DEF Re!Erasing
<1>4. EraseSown' /\ Re!FreshStart'
  BY <1>1 DEF EraseInv, EraseSown, Re!FreshStart, Re!Restored
<1>5. QED
  BY <1>2, <1>3, <1>4 DEF EraseInv

\* What another station saves is no longer asked for.
LEMMA EraseElsewhereKeeps ==
  ASSUME EraseInv, Re!Elsewhere
  PROVE  EraseInv'
<1>1. /\ EraseAside /\ holder' = holder /\ step' = step /\ step \in Re!Erasing
      /\ kind' = kind /\ ticked' = ticked /\ todo' = todo /\ failed' = failed
      /\ \/ \E s \in Re!Settings : own' = own \cup {s} /\ asked' = asked \ {s} /\ layouts' = layouts
         \/ \E l \in LayoutsKept : layouts' = layouts \cup {l} /\ asked' = asked \ {"lays"} /\ own' = own
  BY DEF Re!Elsewhere, EraseAside, Re!browser
<1>2. Re!TypeOK'
  BY <1>1 DEF EraseInv, Re!TypeOK, EraseAside
<1>3. /\ asked' \subseteq asked /\ asked' \subseteq ticked'
      /\ "lays" \in asked' => layouts' = layouts
  <2>1. asked \subseteq ticked
    BY <1>1 DEF EraseInv, EraseDone
  <2>2. QED
    BY <1>1, <2>1 DEF Re!Settings
<1>4. \A p \in asked' \cap EraseSure : Re!Gone(p) => Re!Gone(p)'
  BY <1>1, <1>3 DEF Re!Gone
<1>5. EraseDone'
  BY <1>1, <1>3, <1>4, EraseStaysPut
<1>6. EraseSown' /\ Re!FreshStart'
  BY <1>1, EraseAsideKeeps DEF Re!Erasing
<1>7. QED
  BY <1>2, <1>5, <1>6 DEF EraseInv

-----------------------------------------------------------------------------
(* The theorems.                                                           *)

LEMMA EraseStarts == Re!Init => EraseInv
  BY DEF Re!Init, EraseInv, Re!TypeOK, Re!Tabs, EraseDone, Re!Erasing, EraseSown, Re!FreshStart

\* The inductive invariant of the erasing.
THEOREM ErasingInvariant == Re!Spec => []EraseInv
<1>1. EraseInv /\ [Re!Next]_(Re!vars) => EraseInv'
  <2>1. SUFFICES ASSUME EraseInv, [Re!Next]_(Re!vars) PROVE EraseInv'
    OBVIOUS
  <2>2. CASE UNCHANGED Re!vars
    BY <2>1, <2>2 DEF Re!vars, EraseInv, Re!TypeOK, EraseDone, Re!Gone, EraseSown, Re!FreshStart
  <2>3. CASE Re!Next
    BY <2>1, <2>3, EraseWindowKeeps, EraseTickKeeps, EraseSecondClickKeeps, EraseListLayoutsKeeps,
       EraseDeleteLayoutKeeps, EraseSettingKeeps, EraseLoadLinksKeeps, EraseLeaveKeeps, EraseGestureKeeps,
       EraseSaveSessionKeeps, EraseOpensKeeps, EraseElsewhereKeeps DEF Re!Next
  <2>4. QED
    BY <2>1, <2>2, <2>3
<1>2. QED
  BY <1>1, EraseStarts, PTL DEF Re!Spec

\* A behaviour of the page being reset is one of Reset.
LEMMA ResetPart == MCSpec => Re!Spec
<1>1. MCInit => Re!Init
  BY DEF MCInit
<1>2. [MCNext]_<<part, vars, windowVars, driverVars>> => [Re!Next]_(Re!vars)
  BY DEF MCNext, windowVars, resetVars, Re!vars
<1>3. QED
  BY <1>1, <1>2, PTL DEF MCSpec, Re!Spec

\* The page is reloaded only when what it was asked to erase on the controller
\* is gone, the links apart, and opens on what the entry of the menu promises
\* (openResetModal and boot of app.js), whatever other stations save, however
\* many layouts there are and whichever requests fail.
THEOREM ErasedOrSaid == MCSpec => []ResetSound
<1>1. EraseInv => ResetSound
  <2>1. SUFFICES ASSUME EraseInv PROVE Re!SparedOrWhole
    BY DEF EraseInv, ResetSound, Re!ResetSound
  <2>2. SUFFICES ASSUME step = "left", NEW p \in asked \cap (Re!Parts \ {"links"}) PROVE Re!Gone(p)
    BY DEF Re!SparedOrWhole
  <2>3. ErasePassed(p, step)
    BY <2>2, EraseAtIs DEF ErasePassed
  <2>4. QED
    BY <2>1, <2>2, <2>3 DEF EraseInv, EraseDone, EraseSure
<1>2. QED
  BY <1>1, ResetPart, ErasingInvariant, PTL

-----------------------------------------------------------------------------
(* The transfers of J1939: the session that is being filled.               *)

JayUnderOK(u) == u = None \/ u \in [id : 1..MaxTransfers, sent : 0..(Packets - 1)]

JaySessOK(s, c) ==
  /\ s \in [id : 1..MaxTransfers, got : [1..Packets -> (1..MaxTransfers) \cup {None}],
            age : 0..(JayT1 + 2), excused : BOOLEAN]
  /\ s.id <= c

JayTyped ==
  /\ asks \in BOOLEAN /\ count \in 0..MaxTransfers /\ bus \in BOOLEAN /\ purgeDone \in BOOLEAN
  /\ under \in [Jay!Kinds -> {None} \cup [id : 1..MaxTransfers, sent : 0..(Packets - 1)]]
  /\ sess = None \/ JaySessOK(sess, count)

\* What the session has received is of its transfer.
JayPureOf(s) == s # None /\ ~s.excused => \A i \in 1..Packets : s.got[i] \in {None, s.id}
\* No other transfer is under way while a packet can reach the session.
JayAloneOf(s, u) ==
  s # None /\ ~s.excused /\ s.age <= JayT1 + 1 =>
    \A k \in Jay!Kinds : u[k] = None \/ u[k].id = s.id
\* A session is of a driver whose bus is open, and tick() drops it in time.
JayPurgedOf(s, b, t) ==
  s # None => b = TRUE /\ (~s.excused => s.age <= JayT1 + 1 /\ (t => s.age <= JayT1))

JayPure == JayPureOf(sess)
JayAlone == JayAloneOf(sess, under)
JayPurged == JayPurgedOf(sess, bus, purgeDone)

JayInv == JayTyped /\ JayPure /\ JayAlone /\ JayPurged /\ Jay!MessagesWhole

-----------------------------------------------------------------------------
(* The operators of the driver.                                            *)

\* A new session has received nothing; it has an excuse when the source
\* leads a transfer of the other kind.
LEMMA JayNewIs ==
  ASSUME NEW id \in 1..MaxTransfers, NEW o \in BOOLEAN
  PROVE  LET s == Jay!NewSession(id, o)
         IN /\ JaySessOK(s, id) /\ JayPureOf(s)
            /\ s.id = id /\ s.age = 0 /\ s.excused = o
  BY TransfersAssumption DEF Jay!NewSession, JaySessOK, JayPureOf

\* An announcement missed changes the excuse of the session and nothing else.
LEMMA JayMissedIs ==
  ASSUME NEW s, NEW c \in 0..MaxTransfers, JaySessOK(s, c)
  PROVE  /\ JaySessOK(Jay!Missed(s), c)
         /\ Jay!Missed(s).id = s.id /\ Jay!Missed(s).got = s.got /\ Jay!Missed(s).age = s.age
         /\ Jay!Missed(s).excused \in BOOLEAN
         /\ ~Jay!Missed(s).excused => ~s.excused
         /\ ~Jay!Missed(s).excused /\ s # None => s.age > JayT1 + 1
<1>1. s.age \in Int /\ JayT1 \in Int /\ s.excused \in BOOLEAN
  BY TransfersAssumption DEF JaySessOK
<1>2. CASE s # None /\ s.age <= JayT1 + 1
  <2>1. Jay!Missed(s) = [s EXCEPT !.excused = TRUE]
    BY <1>2 DEF Jay!Missed
  <2>2. QED
    BY <2>1, <1>2 DEF JaySessOK
<1>3. CASE ~(s # None /\ s.age <= JayT1 + 1)
  <2>1. Jay!Missed(s) = s
    BY <1>3 DEF Jay!Missed
  <2>2. QED
    BY <2>1, <1>3, <1>1
<1>4. QED
  BY <1>2, <1>3

LEMMA JayPurgedIs ==
  ASSUME NEW s, NEW c \in 0..MaxTransfers, s = None \/ JaySessOK(s, c)
  PROVE  Jay!purged(s) = None \/ (Jay!purged(s) = s /\ JaySessOK(s, c) /\ s.age <= JayT1)
  BY TransfersAssumption DEF Jay!purged, JaySessOK

\* A packet sets one entry of the session and its age.
LEMMA JayFilledIs ==
  ASSUME count \in 0..MaxTransfers, JaySessOK(sess, count),
         NEW id \in 1..MaxTransfers, NEW seq \in 1..Packets
  PROVE  LET s == Jay!Filled(id, seq)
         IN /\ JaySessOK(s, count)
            /\ s.id = sess.id /\ s.age = 0 /\ s.excused = sess.excused
            /\ s.got[seq] = id
            /\ \A i \in 1..Packets : i # seq => s.got[i] = sess.got[i]
<1> DEFINE g == [sess.got EXCEPT ![seq] = id]
<1>1. sess \in [id : 1..MaxTransfers, got : [1..Packets -> (1..MaxTransfers) \cup {None}],
                 age : 0..(JayT1 + 2), excused : BOOLEAN]
  BY DEF JaySessOK
<1>2. Jay!Filled(id, seq) = [[sess EXCEPT !.got = g] EXCEPT !.age = 0]
  BY <1>1 DEF Jay!Filled
<1>3. /\ g \in [1..Packets -> (1..MaxTransfers) \cup {None}]
      /\ g[seq] = id
      /\ \A i \in 1..Packets : i # seq => g[i] = sess.got[i]
  BY <1>1
<1> HIDE DEF g
<1>4. 0 \in 0..(JayT1 + 2)
  BY TransfersAssumption
<1>5. QED
  BY <1>1, <1>2, <1>3, <1>4 DEF JaySessOK

LEMMA JayOtherIs ==
  ASSUME NEW way \in Jay!Kinds
  PROVE  Jay!Other(way) \in Jay!Kinds /\ \A k \in Jay!Kinds : k = way \/ k = Jay!Other(way)
  BY DEF Jay!Kinds, Jay!Other

\* What tick() leaves of a session keeps what is said of it.
LEMMA JayPurgeKeeps ==
  ASSUME NEW s, NEW c \in 0..MaxTransfers, NEW u, NEW b \in BOOLEAN, NEW t \in BOOLEAN,
         s = None \/ JaySessOK(s, c), JayPureOf(s), JayAloneOf(s, u), s = None \/ b = TRUE
  PROVE  LET p == Jay!purged(s)
         IN /\ p = None \/ JaySessOK(p, c)
            /\ JayPureOf(p) /\ JayAloneOf(p, u) /\ JayPurgedOf(p, b, t)
<1>1. CASE Jay!purged(s) = None
  BY <1>1 DEF JayPureOf, JayAloneOf, JayPurgedOf
<1>2. CASE Jay!purged(s) = s /\ JaySessOK(s, c) /\ s.age <= JayT1
  <2>1. s.age \in Int /\ JayT1 \in Int
    BY <1>2, TransfersAssumption DEF JaySessOK
  <2>2. QED
    BY <1>2, <2>1 DEF JayPurgedOf
<1>3. QED
  BY <1>1, <1>2, JayPurgedIs

-----------------------------------------------------------------------------
(* The steps.                                                              *)

LEMMA JayAnnounceKeeps ==
  ASSUME JayInv, NEW way \in Jay!Kinds, NEW how \in {"heard", "lost", "wrong"},
         Jay!Announce(way, how)
  PROVE  JayInv'
<1>1. /\ count \in 0..MaxTransfers /\ count < MaxTransfers
      /\ bus \in BOOLEAN /\ purgeDone \in BOOLEAN /\ asks \in BOOLEAN
      /\ under \in [Jay!Kinds -> {None} \cup [id : 1..MaxTransfers, sent : 0..(Packets - 1)]]
      /\ sess = None \/ JaySessOK(sess, count)
      /\ JayPureOf(sess) /\ JayAloneOf(sess, under) /\ JayPurgedOf(sess, bus, purgeDone)
  BY DEF JayInv, JayTyped, JayPure, JayAlone, JayPurged, Jay!Announce
<1>2. /\ count' = count + 1 /\ count' \in 1..MaxTransfers /\ count' \in 0..MaxTransfers
      /\ under[way] = None /\ delivered' = None
      /\ asks' = asks /\ bus' = bus /\ purgeDone' = purgeDone
  BY <1>1, TransfersAssumption DEF Jay!Announce
<1> DEFINE r == [id |-> count', sent |-> 0]
<1>3. r \in [id : 1..MaxTransfers, sent : 0..(Packets - 1)] /\ r.id = count'
  BY <1>2, TransfersAssumption
<1>4. under' = [under EXCEPT ![way] = r]
  BY DEF Jay!Announce
<1> HIDE DEF r
<1>5. /\ under' \in [Jay!Kinds -> {None} \cup [id : 1..MaxTransfers, sent : 0..(Packets - 1)]]
      /\ under'[way] = r
      /\ \A k \in Jay!Kinds : k # way => under'[k] = under[k]
  BY <1>1, <1>3, <1>4
\* A session in hand keeps its type under one more transfer.
<1>6. sess = None \/ JaySessOK(sess, count')
  BY <1>1, <1>2 DEF JaySessOK
\* What an announcement that is not taken leaves.
<1> DEFINE m == Jay!Missed(sess)
<1>7. /\ m = None \/ JaySessOK(m, count')
      /\ JayPureOf(m) /\ JayAloneOf(m, under') /\ JayPurgedOf(m, bus, purgeDone)
  <2>1. CASE sess = None
    <3>1. m = None
      BY <2>1 DEF Jay!Missed
    <3>2. QED
      BY <3>1 DEF JayPureOf, JayAloneOf, JayPurgedOf
  <2>2. CASE sess # None
    <3>1. /\ JaySessOK(m, count') /\ m.id = sess.id /\ m.got = sess.got /\ m.age = sess.age
          /\ ~m.excused => ~sess.excused /\ sess.age > JayT1 + 1
      BY <2>2, <1>2, <1>6, JayMissedIs
    <3>2. sess.age \in Int /\ JayT1 \in Int
      BY <2>2, <1>1, TransfersAssumption DEF JaySessOK
    <3>3. JayPureOf(m)
      BY <2>2, <3>1, <1>1 DEF JayPureOf
    <3>4. JayAloneOf(m, under')
      BY <3>1, <3>2 DEF JayAloneOf
    <3>5. JayPurgedOf(m, bus, purgeDone)
      BY <2>2, <3>1, <1>1 DEF JayPurgedOf
    <3>6. QED
      BY <3>1, <3>3, <3>4, <3>5
  <2>3. QED
    BY <2>1, <2>2
\* What a session opened by an announcement is.
<1> DEFINE n == Jay!NewSession(count', under[Jay!Other(way)] # None)
<1>8. JaySessOK(n, count') /\ JayPureOf(n) /\ JayAloneOf(n, under')
  <2>1. /\ JaySessOK(n, count') /\ JayPureOf(n) /\ n.id = count'
        /\ n.excused = (under[Jay!Other(way)] # None)
    BY <1>2, JayNewIs
  <2>2. ~n.excused => \A k \in Jay!Kinds : under'[k] = None \/ under'[k].id = n.id
    BY <2>1, <1>3, <1>5, JayOtherIs
  <2>3. QED
    BY <2>1, <2>2 DEF JayAloneOf
<1> HIDE DEF m, n
<1>9. /\ sess' = None \/ JaySessOK(sess', count')
      /\ JayPureOf(sess') /\ JayAloneOf(sess', under') /\ JayPurgedOf(sess', bus, purgeDone)
  <2>1. CASE how = "heard"
    <3>1. PICK s \in {m, n} : sess' = Jay!purged(s)
      BY <2>1 DEF Jay!Announce, Jay!on_cm, m, n
    <3>2. (s = None \/ JaySessOK(s, count')) /\ JayPureOf(s) /\ JayAloneOf(s, under')
      BY <3>1, <1>7, <1>8
    <3>3. bus = TRUE
      BY <2>1, <1>1 DEF Jay!Announce
    <3>4. QED
      BY <3>1, <3>2, <3>3, <1>1, <1>2, JayPurgeKeeps
  <2>2. CASE how = "lost"
    <3>1. sess' = m
      BY <2>2 DEF Jay!Announce, m
    <3>2. QED
      BY <3>1, <1>7
  <2>3. CASE how = "wrong"
    <3>1. sess' = None
      BY <2>3 DEF Jay!Announce
    <3>2. QED
      BY <3>1 DEF JayPureOf, JayAloneOf, JayPurgedOf
  <2>4. QED
    BY <2>1, <2>2, <2>3
<1>10. QED
  BY <1>1, <1>2, <1>5, <1>9 DEF JayInv, JayTyped, JayPure, JayAlone, JayPurged, Jay!MessagesWhole

LEMMA JayPacketKeeps ==
  ASSUME JayInv, NEW way \in Jay!Kinds, NEW lost \in BOOLEAN, Jay!Packet(way, lost)
  PROVE  JayInv'
<1> DEFINE id == under[way].id
           seq == under[way].sent + 1
           s == Jay!Filled(id, seq)
           u == IF seq = Packets THEN None ELSE [under[way] EXCEPT !.sent = seq]
<1>1. /\ count \in 0..MaxTransfers
      /\ bus \in BOOLEAN /\ purgeDone \in BOOLEAN /\ asks \in BOOLEAN
      /\ under \in [Jay!Kinds -> {None} \cup [id : 1..MaxTransfers, sent : 0..(Packets - 1)]]
      /\ sess = None \/ JaySessOK(sess, count)
      /\ JayPureOf(sess) /\ JayAloneOf(sess, under) /\ JayPurgedOf(sess, bus, purgeDone)
  BY DEF JayInv, JayTyped, JayPure, JayAlone, JayPurged
<1>2. /\ under[way] # None /\ (bus \/ lost)
      /\ count' = count /\ asks' = asks /\ bus' = bus /\ purgeDone' = purgeDone
  BY DEF Jay!Packet
<1>3. under' = [under EXCEPT ![way] = u]
  BY DEF Jay!Packet
<1>4. /\ under[way] \in [id : 1..MaxTransfers, sent : 0..(Packets - 1)]
      /\ id \in 1..MaxTransfers /\ seq \in 1..Packets
  BY <1>1, <1>2, TransfersAssumption
<1>5. /\ u = None \/ (u \in [id : 1..MaxTransfers, sent : 0..(Packets - 1)] /\ u.id = id)
  BY <1>4, TransfersAssumption
<1>6. /\ sess' = IF lost \/ sess = None THEN sess
                 ELSE IF \A i \in 1..Packets : s.got[i] # None THEN None ELSE Jay!purged(s)
      /\ delivered' = IF lost \/ sess = None \/ ~\A i \in 1..Packets : s.got[i] # None
                      THEN None ELSE s
  BY DEF Jay!Packet
<1> HIDE DEF u, s, id, seq
<1>7. /\ under' \in [Jay!Kinds -> {None} \cup [id : 1..MaxTransfers, sent : 0..(Packets - 1)]]
      /\ under'[way] = u
      /\ \A k \in Jay!Kinds : k # way => under'[k] = under[k]
  BY <1>1, <1>3, <1>5
\* The transfer under way is the same or ended: what was alone stays alone.
<1>8. \A x : JayAloneOf(x, under) => JayAloneOf(x, under')
  <2>1. \A k \in Jay!Kinds : \/ under'[k] = None
                             \/ under'[k].id = under[k].id /\ under[k] # None
                             \/ under'[k] = under[k]
    BY <1>2, <1>5, <1>7 DEF id
  <2>2. QED
    BY <2>1 DEF JayAloneOf
<1>9. CASE lost \/ sess = None
  <2>1. sess' = sess /\ delivered' = None
    BY <1>9, <1>6
  <2>2. QED
    BY <2>1, <1>1, <1>2, <1>7, <1>8 DEF JayInv, JayTyped, JayPure, JayAlone, JayPurged, Jay!MessagesWhole
<1>10. CASE ~lost /\ sess # None
  <2>1. JaySessOK(sess, count) /\ bus = TRUE
    BY <1>10, <1>1, <1>2
  <2>2. /\ JaySessOK(s, count)
        /\ s.id = sess.id /\ s.age = 0 /\ s.excused = sess.excused
        /\ s.got[seq] = id
        /\ \A i \in 1..Packets : i # seq => s.got[i] = sess.got[i]
    BY <2>1, <1>1, <1>4, JayFilledIs DEF s
  \* The packet of another transfer reaches a session with an excuse only.
  <2>3. ~sess.excused => id = sess.id /\ \A k \in Jay!Kinds : under[k] = None \/ under[k].id = sess.id
    BY <1>10, <2>1, <1>1, <1>2 DEF JayPurgedOf, JayAloneOf, id
  <2>4. JayPureOf(s)
    BY <1>10, <2>2, <2>3, <1>1 DEF JayPureOf
  <2>5. JayAloneOf(s, under)
    BY <2>2, <2>3 DEF JayAloneOf
  <2>6. CASE \A i \in 1..Packets : s.got[i] # None
    <3>1. sess' = None /\ delivered' = s
      BY <2>6, <1>6, <1>10
    <3>2. Jay!MessagesWhole'
      <4>1. delivered' # None => \/ delivered'.excused
                                 \/ \A i \in 1..Packets : delivered'.got[i] = delivered'.id
        BY <3>1, <2>4, <2>6 DEF JayPureOf
      <4>2. QED
        BY <4>1 DEF Jay!MessagesWhole
    <3>3. QED
      BY <3>1, <3>2, <1>1, <1>2, <1>7
      DEF JayInv, JayTyped, JayPure, JayAlone, JayPurged, JayPureOf, JayAloneOf, JayPurgedOf
  <2>7. CASE ~\A i \in 1..Packets : s.got[i] # None
    <3>1. sess' = Jay!purged(s) /\ delivered' = None
      BY <2>7, <1>6, <1>10
    <3>2. /\ sess' = None \/ JaySessOK(sess', count)
          /\ JayPureOf(sess') /\ JayAloneOf(sess', under') /\ JayPurgedOf(sess', bus, purgeDone)
      BY <3>1, <2>1, <2>2, <2>4, <2>5, <1>1, <1>8, JayPurgeKeeps
    <3>3. QED
      BY <3>1, <3>2, <1>1, <1>2, <1>7 DEF JayInv, JayTyped, JayPure, JayAlone, JayPurged, Jay!MessagesWhole
  <2>8. QED
    BY <2>6, <2>7
<1>11. QED
  BY <1>9, <1>10

LEMMA JayCutKeeps ==
  ASSUME JayInv, NEW way \in Jay!Kinds, NEW told \in BOOLEAN, Jay!Cut(way, told)
  PROVE  JayInv'
<1>1. /\ count \in 0..MaxTransfers
      /\ bus \in BOOLEAN /\ purgeDone \in BOOLEAN /\ asks \in BOOLEAN
      /\ under \in [Jay!Kinds -> {None} \cup [id : 1..MaxTransfers, sent : 0..(Packets - 1)]]
      /\ sess = None \/ JaySessOK(sess, count)
      /\ JayPureOf(sess) /\ JayAloneOf(sess, under) /\ JayPurgedOf(sess, bus, purgeDone)
  BY DEF JayInv, JayTyped, JayPure, JayAlone, JayPurged
<1>2. /\ under' = [under EXCEPT ![way] = None]
      /\ sess' = sess \/ sess' = None
      /\ delivered' = None
      /\ count' = count /\ asks' = asks /\ bus' = bus /\ purgeDone' = purgeDone
  BY DEF Jay!Cut
<1>3. /\ under' \in [Jay!Kinds -> {None} \cup [id : 1..MaxTransfers, sent : 0..(Packets - 1)]]
      /\ \A k \in Jay!Kinds : under'[k] = None \/ under'[k] = under[k]
  BY <1>1, <1>2
<1>4. JayAloneOf(sess', under')
  BY <1>1, <1>2, <1>3 DEF JayAloneOf
<1>5. JayPureOf(sess') /\ JayPurgedOf(sess', bus, purgeDone)
  BY <1>1, <1>2 DEF JayPureOf, JayPurgedOf
<1>6. QED
  BY <1>1, <1>2, <1>3, <1>4, <1>5 DEF JayInv, JayTyped, JayPure, JayAlone, JayPurged, Jay!MessagesWhole

LEMMA JaytickKeeps ==
  ASSUME JayInv, Jay!tick
  PROVE  JayInv'
<1>1. /\ count \in 0..MaxTransfers /\ bus \in BOOLEAN
      /\ sess = None \/ JaySessOK(sess, count)
      /\ JayPureOf(sess) /\ JayAloneOf(sess, under)
  BY DEF JayInv, JayTyped, JayPure, JayAlone, Jay!tick
<1>2. /\ sess' = Jay!purged(sess) /\ purgeDone' = TRUE /\ delivered' = None /\ bus = TRUE
      /\ asks' = asks /\ count' = count /\ under' = under /\ bus' = bus
  BY DEF Jay!tick
<1>3. /\ sess' = None \/ JaySessOK(sess', count)
      /\ JayPureOf(sess') /\ JayAloneOf(sess', under) /\ JayPurgedOf(sess', bus, TRUE)
  BY <1>1, <1>2, JayPurgeKeeps
<1>4. QED
  BY <1>2, <1>3 DEF JayInv, JayTyped, JayPure, JayAlone, JayPurged, Jay!MessagesWhole

LEMMA JayBusKeeps ==
  ASSUME JayInv, Jay!Bus
  PROVE  JayInv'
<1>1. /\ bus' = ~bus /\ delivered' = None /\ sess' = None
      /\ asks' = asks /\ count' = count /\ under' = under /\ purgeDone' = purgeDone
  BY DEF Jay!Bus
<1>2. QED
  BY <1>1 DEF JayInv, JayTyped, JayPure, JayAlone, JayPurged, JayPureOf, JayAloneOf, JayPurgedOf, Jay!MessagesWhole

LEMMA JayTimeKeeps ==
  ASSUME JayInv, Jay!Time
  PROVE  JayInv'
<1>1. /\ bus \in BOOLEAN /\ purgeDone \in BOOLEAN /\ sess # None /\ JaySessOK(sess, count)
      /\ JayPureOf(sess) /\ JayAloneOf(sess, under) /\ JayPurgedOf(sess, bus, purgeDone)
  BY DEF JayInv, JayTyped, JayPure, JayAlone, JayPurged, Jay!Time
<1>2. /\ purgeDone
      /\ sess' = [sess EXCEPT !.age = IF sess.age > JayT1 + 1 THEN sess.age ELSE sess.age + 1]
      /\ purgeDone' = FALSE /\ delivered' = None
      /\ asks' = asks /\ count' = count /\ under' = under /\ bus' = bus
  BY DEF Jay!Time
<1>3. sess.age \in Nat /\ sess.age <= JayT1 + 2 /\ JayT1 \in Nat
  BY <1>1, TransfersAssumption DEF JaySessOK
<1>4. /\ JaySessOK(sess', count)
      /\ sess'.id = sess.id /\ sess'.got = sess.got /\ sess'.excused = sess.excused
      /\ sess'.age \in Nat
      /\ (sess'.age = sess.age /\ sess.age > JayT1 + 1) \/ sess'.age = sess.age + 1
  BY <1>1, <1>2, <1>3 DEF JaySessOK
<1>5. JayPureOf(sess')
  BY <1>1, <1>4 DEF JayPureOf
<1>6. JayAloneOf(sess', under)
  BY <1>1, <1>3, <1>4 DEF JayAloneOf
<1>7. JayPurgedOf(sess', bus, FALSE)
  BY <1>1, <1>2, <1>3, <1>4 DEF JayPurgedOf
<1>8. QED
  BY <1>1, <1>2, <1>4, <1>5, <1>6, <1>7 DEF JayInv, JayTyped, JayPure, JayAlone, JayPurged, Jay!MessagesWhole

-----------------------------------------------------------------------------
(* The theorems.                                                           *)

LEMMA JayStarts ==
  ASSUME Jay!Init
  PROVE  JayInv
<1>1. JayTyped
  BY TransfersAssumption DEF Jay!Init, JayTyped, Jay!Kinds
<1>2. QED
  BY <1>1 DEF Jay!Init, JayInv, JayPure, JayAlone, JayPurged, JayPureOf, JayAloneOf, JayPurgedOf, Jay!MessagesWhole

\* The inductive invariant of the transfers: the session being filled is as
\* sound as the message it will deliver.
THEOREM TransfersInvariant ==
  Jay!Spec => []JayInv
<1>1. Jay!Init => JayInv
  BY JayStarts
<1>2. JayInv /\ [Jay!Next]_(Jay!vars) => JayInv'
  <2>1. CASE UNCHANGED Jay!vars
    BY <2>1 DEF Jay!vars, JayInv, JayTyped, JayPure, JayAlone, JayPurged, Jay!MessagesWhole
  <2>2. CASE Jay!Next
    BY <2>2, JayAnnounceKeeps, JayPacketKeeps, JayCutKeeps, JaytickKeeps, JayBusKeeps, JayTimeKeeps DEF Jay!Next
  <2>3. QED
    BY <2>1, <2>2
<1>3. QED
  BY <1>1, <1>2, PTL DEF Jay!Spec

\* A behaviour of the driver of J1939 is one of J1939.
LEMMA JayPart == MCSpec => Jay!Spec
<1>1. MCInit => Jay!Init
  BY DEF MCInit
<1>2. [MCNext]_<<part, vars, windowVars, driverVars>> => [Jay!Next]_(Jay!vars)
  BY DEF MCNext, driverVars, jayVars, Jay!vars
<1>3. QED
  BY <1>1, <1>2, PTL DEF MCSpec, Jay!Spec

\* A message delivered is made of one transfer, unless the driver missed an
\* announcement or the source led two transfers (on_dt, on_cm and tick of
\* j1939.hpp), whatever the number of packets; and the session is of a transfer
\* that was announced, on the bus that is open.
THEOREM TransfersAreWhole ==
  MCSpec => []MessagesWhole
<1>1. JayInv => Jay!TypeOK
  <2>1. SUFFICES ASSUME JayInv PROVE Jay!TypeOK
    OBVIOUS
  <2>2. JayTyped
    BY <2>1 DEF JayInv
  <2>3. [id : 1..MaxTransfers, sent : 0..(Packets - 1)] \subseteq [id : 1..MaxTransfers, sent : 0..Packets]
    BY TransfersAssumption
  <2>4. sess # None => bus /\ sess.id \in 1..count /\ sess.age \in 0..(JayT1 + 2)
    BY <2>1, <2>2, TransfersAssumption DEF JayInv, JayPurged, JayPurgedOf, JayTyped, JaySessOK
  <2>5. QED
    BY <2>2, <2>3, <2>4 DEF JayTyped, Jay!TypeOK
<1>2. JayInv => Jay!MessagesWhole
  BY DEF JayInv
<1>3. JayInv => MessagesWhole
  BY <1>1, <1>2 DEF MessagesWhole
<1>4. QED
  BY <1>3, JayPart, TransfersInvariant, PTL
-----------------------------------------------------------------------------
(* The window of the links. What is sent: normalize, a copy put in order.  *)

LEMMA NatInSet ==
  ASSUME NEW F, 0 \in F, \A n \in Nat : n \in F => n + 1 \in F
  PROVE  \A n \in Nat : n \in F
<1> DEFINE R == OpToRel(<, Nat)
           Missing == {n \in Nat : n \notin F}
<1>1. SUFFICES ASSUME Missing # {} PROVE FALSE
  OBVIOUS
<1>2. IsWellFoundedOn(R, Nat)
  BY NatLessThanWellFounded
<1>3. PICK n \in Missing : \A m \in Missing : ~ (<<m, n>> \in R)
  <2> HIDE DEF Missing, R
  <2>1. Missing \subseteq Nat
    BY DEF Missing
  <2>9. QED
    BY <1>1, <1>2, <2>1, WFMin
<1>4. n # 0 /\ n - 1 \in Nat
  OBVIOUS
<1>5. \A m, k \in Nat : m < k => <<m, k>> \in R
  BY DEF OpToRel
<1>6. n - 1 \in F
  <2>1. <<n - 1, n>> \in R /\ n - 1 < n
    <3> HIDE DEF R
    <3>1. n - 1 \in Nat /\ n \in Nat /\ n - 1 < n
      BY <1>4
    <3>2. QED
      BY <3>1, <1>5
  <2> HIDE DEF R
  <2>9. QED
    BY <1>3, <1>4, <2>1
<1>7. QED
  BY <1>4, <1>6

(* A sequence of sequences, put end to end.                                *)
ConfJoined(x, y) == x \o y
ConfFlat(g, t) == g = [i \in 1..Len(t) |-> IF i = 1 THEN t[i] ELSE ConfJoined(g[i - 1], t[i])]

LEMMA ConfFlatExists ==
  ASSUME NEW t, Len(t) \in Nat
  PROVE  \E g : ConfFlat(g, t)
<1> DEFINE Upto(n, g) == g = [i \in 1..n |-> IF i = 1 THEN t[i] ELSE ConfJoined(g[i - 1], t[i])]
           F == {n \in Nat : \E g : Upto(n, g)}
<1>1. 0 \in F
  <2>1. Upto(0, [i \in 1..0 |-> 0])
    OBVIOUS
  <2>2. QED
    BY <2>1
<1>2. ASSUME NEW n \in Nat, n \in F PROVE n + 1 \in F
  <2>1. PICK g : Upto(n, g)
    BY <1>2
  <2> DEFINE h == [i \in 1..(n + 1) |-> IF i = 1 THEN t[i] ELSE ConfJoined(g[i - 1], t[i])]
             k == [i \in 1..(n + 1) |-> IF i = 1 THEN t[i] ELSE ConfJoined(h[i - 1], t[i])]
  <2>2. \A i \in 1..n : h[i] = g[i]
    BY <2>1
  <2>3. \A i \in 1..(n + 1) : i # 1 => i - 1 \in 1..n
    OBVIOUS
  <2>4. \A i \in 1..(n + 1) : h[i] = k[i]
    BY <2>2, <2>3
  <2>5. h = k
    BY <2>4
  <2>6. Upto(n + 1, h)
    BY <2>5
  <2>7. QED
    <3> HIDE DEF h
    <3>9. QED
      BY <2>6
<1>3. Len(t) \in F
  <2> HIDE DEF F
  <2>9. QED
    BY <1>1, <1>2, NatInSet
<1>4. QED
  BY <1>3 DEF ConfFlat

LEMMA ConfFlattened ==
  ASSUME NEW t, Len(t) \in Nat, Len(t) # 0
  PROVE  \E g : ConfFlat(g, t) /\ Co!FlattenSeq(t) = g[Len(t)]
<1> DEFINE c == CHOOSE g : ConfFlat(g, t)
<1>1. ConfFlat(c, t)
  BY ConfFlatExists
<1>2. Co!FlattenSeq(t) = c[Len(t)]
  BY DEF Co!FlattenSeq, ConfFlat, ConfJoined
<1>3. QED
  BY <1>1, <1>2

ConfClean(s) ==
  \A i \in 1..Len(s) :
    /\ s[i].id # Bad /\ Bad \notin s[i].points
    /\ \A j \in 1..Len(s) : s[i].id = s[j].id => i = j

\* What normalize makes of the first i links of s.
ConfMade(r, s, i) ==
  /\ r \in Seq(ConfLink) /\ Len(r) <= i /\ ConfClean(r)
  /\ \A k \in 1..Len(r) : \E j \in 1..i : r[k].id = s[j].id
  /\ ConfClean(s) => Len(r) = i /\ \A j \in 1..i : r[j] = s[j]

ConfKeep(s, i) ==
  IF Co!Kept(s, i) THEN <<[s[i] EXCEPT !.points = @ \ {Bad}]>> ELSE <<>>

LEMMA ConfKeepIs ==
  ASSUME NEW s \in Seq(ConfLink), NEW i \in 1..Len(s)
  PROVE  /\ ConfKeep(s, i) = <<>> \/
            \E x \in ConfLink : /\ ConfKeep(s, i) = <<x>> /\ x.id = s[i].id /\ x.id # Bad
                                /\ Bad \notin x.points
                                /\ \A j \in 1..(i - 1) : s[j].id # s[i].id
         /\ ConfClean(s) => ConfKeep(s, i) = <<s[i]>>
<1>1. s[i] \in ConfLink
  OBVIOUS
<1>2. PICK d \in ConfIds \cup {Bad}, p \in SUBSET (ConfPoints \cup {Bad}) : s[i] = [id |-> d, points |-> p]
  BY <1>1 DEF ConfLink
<1> DEFINE x == [s[i] EXCEPT !.points = @ \ {Bad}]
<1>3. x = [id |-> d, points |-> p \ {Bad}]
  <2>1. PICK f : f = s[i]
    OBVIOUS
  <2>2. PICK e : e = [f EXCEPT !.points = f.points \ {Bad}]
    OBVIOUS
  <2>3. f = [id |-> d, points |-> p]
    BY <1>2, <2>1
  <2>4. e = [id |-> d, points |-> p \ {Bad}]
    BY ONLY <2>2, <2>3
  <2>5. x = e
    BY ONLY <2>1, <2>2
  <2>6. QED
    BY <2>4, <2>5
<1>4. x \in ConfLink /\ x.id = s[i].id /\ Bad \notin x.points
  BY <1>2, <1>3 DEF ConfLink
<1> HIDE DEF x
<1>5. ConfKeep(s, i) = IF Co!Kept(s, i) THEN <<x>> ELSE <<>>
  BY DEF ConfKeep, x
<1>6. Co!Kept(s, i) => s[i].id # Bad /\ \A j \in 1..(i - 1) : s[j].id # s[i].id
  BY DEF Co!Kept, Co!FirstOfItsId
<1>7. ConfClean(s) => Co!Kept(s, i) /\ x = s[i]
  <2>1. ASSUME ConfClean(s) PROVE Co!Kept(s, i)
    BY <2>1 DEF ConfClean, Co!Kept, Co!FirstOfItsId
  <2>2. ASSUME ConfClean(s) PROVE x = s[i]
    <3>1. Bad \notin p
      BY <1>2, <2>2 DEF ConfClean
    <3>2. p \ {Bad} = p
      BY <3>1
    <3>3. QED
      BY <1>2, <1>3, <3>2
  <2>3. QED
    BY <2>1, <2>2
<1>8. QED
  BY <1>4, <1>5, <1>6, <1>7

LEMMA ConfGrows ==
  ASSUME NEW s \in Seq(ConfLink), NEW i \in 1..Len(s), NEW r, ConfMade(r, s, i - 1)
  PROVE  ConfMade(r \o ConfKeep(s, i), s, i)
<1> DEFINE q == r \o ConfKeep(s, i)
<1>1. /\ r \in Seq(ConfLink) /\ Len(r) \in Nat /\ Len(r) <= i - 1 /\ ConfClean(r) /\ i \in Nat /\ Len(s) \in Nat
      /\ \A k \in 1..Len(r) : \E j \in 1..(i - 1) : r[k].id = s[j].id
      /\ ConfClean(s) => Len(r) = i - 1 /\ \A j \in 1..(i - 1) : r[j] = s[j]
  BY DEF ConfMade
<1>2. CASE ConfKeep(s, i) = <<>>
  <2>1. q = r
    BY <1>1, <1>2
  <2>2. ~ConfClean(s)
    BY <1>2, ConfKeepIs
  <2>3. \A k \in 1..Len(r) : \E j \in 1..i : r[k].id = s[j].id
    BY <1>1
  <2>4. QED
    BY <1>1, <2>1, <2>2, <2>3 DEF ConfMade
<1>3. CASE ConfKeep(s, i) # <<>>
  <2>1. PICK x \in ConfLink : /\ ConfKeep(s, i) = <<x>> /\ x.id = s[i].id /\ x.id # Bad
                              /\ Bad \notin x.points
                              /\ \A j \in 1..(i - 1) : s[j].id # s[i].id
    BY <1>3, ConfKeepIs
  <2>2. /\ q \in Seq(ConfLink) /\ Len(q) = Len(r) + 1 /\ q[Len(r) + 1] = x
        /\ \A k \in 1..Len(r) : q[k] = r[k]
    BY <1>1, <2>1
  <2> HIDE DEF q
  <2>3. \A k \in 1..Len(q) : k \in 1..Len(r) \/ k = Len(r) + 1
    BY <1>1, <2>2
  <2>4. \A k \in 1..Len(r) : q[k].id # x.id
    BY <1>1, <2>1, <2>2
  <2>5. ConfClean(q)
    <3>1. \A k \in 1..Len(q) : q[k].id # Bad /\ Bad \notin q[k].points
      BY <1>1, <2>1, <2>2, <2>3 DEF ConfClean
    <3>2. \A k, l \in 1..Len(q) : q[k].id = q[l].id => k = l
      BY <1>1, <2>2, <2>3, <2>4 DEF ConfClean
    <3>3. QED
      BY <3>1, <3>2 DEF ConfClean
  <2>6. \A k \in 1..Len(q) : \E j \in 1..i : q[k].id = s[j].id
    <3>1. \A k \in 1..Len(r) : \E j \in 1..i : q[k].id = s[j].id
      <4>1. ASSUME NEW k \in 1..Len(r) PROVE \E j \in 1..i : q[k].id = s[j].id
        <5>1. PICK j \in 1..(i - 1) : r[k].id = s[j].id
          BY <1>1
        <5>2. j \in 1..i /\ q[k].id = s[j].id
          BY <1>1, <2>2, <5>1
        <5>3. QED
          BY <5>2
      <4>2. QED
        BY <4>1
    <3>2. i \in 1..i /\ q[Len(r) + 1].id = s[i].id
      BY <1>1, <2>1, <2>2
    <3>3. QED
      BY <2>3, <3>1, <3>2
  <2>7. ASSUME ConfClean(s) PROVE Len(q) = i /\ \A j \in 1..i : q[j] = s[j]
    <3>1. x = s[i]
      <4>1. <<x>> = <<s[i]>>
        BY <2>1, <2>7, ConfKeepIs
      <4>2. <<x>>[1] = <<s[i]>>[1]
        BY <4>1
      <4>3. QED
        BY <4>2
    <3>2. Len(r) = i - 1 /\ \A j \in 1..(i - 1) : r[j] = s[j]
      BY <1>1, <2>7
    <3>3. QED
      BY <1>1, <2>2, <3>1, <3>2
  <2>8. Len(q) <= i
    BY <1>1, <2>2
  <2>9. ConfMade(q, s, i)
    BY <2>2, <2>5, <2>6, <2>7, <2>8 DEF ConfMade
  <2>10. QED
    BY <2>9 DEF q
<1>4. QED
  BY <1>2, <1>3

\* What normalize leaves is clean, and is what it was given if that was clean.
LEMMA ConfNormal ==
  ASSUME NEW s \in Seq(ConfLink)
  PROVE  /\ Co!normalize(s) \in Seq(ConfLink) /\ Len(Co!normalize(s)) <= Len(s)
         /\ ConfClean(Co!normalize(s))
         /\ ConfClean(s) => Co!normalize(s) = s
<1> DEFINE t == [i \in DOMAIN s |-> ConfKeep(s, i)]
<1>1. /\ Len(s) \in Nat /\ DOMAIN s = 1..Len(s) /\ Len(t) = Len(s)
      /\ \A i \in 1..Len(s) : t[i] = ConfKeep(s, i)
  <2>1. Len(s) \in Nat /\ DOMAIN s = 1..Len(s)
    OBVIOUS
  <2>2. t \in [1..Len(s) -> {ConfKeep(s, i) : i \in 1..Len(s)}]
    BY <2>1
  <2>3. t \in Seq({ConfKeep(s, i) : i \in 1..Len(s)}) /\ Len(t) = Len(s)
    BY <2>1, <2>2
  <2>4. QED
    BY <2>1, <2>3
<1>2. Co!normalize(s) = Co!FlattenSeq(t)
  BY DEF Co!normalize, ConfKeep
<1> HIDE DEF t
<1>3. CASE Len(s) = 0
  <2>1. s = <<>> /\ t = <<>>
    <3>1. s = <<>>
      BY <1>3
    <3>2. t = [i \in DOMAIN s |-> ConfKeep(s, i)]
      BY DEF t
    <3>3. t = <<>>
      BY <3>1, <3>2
    <3>4. QED
      BY <3>1, <3>3
  <2>2. Co!normalize(s) = <<>>
    BY <1>1, <1>2, <1>3, <2>1 DEF Co!FlattenSeq
  <2>3. QED
    <3>1. ConfClean(<<>>) /\ <<>> \in Seq(ConfLink) /\ Len(<<>>) <= Len(s)
      BY <1>3 DEF ConfClean
    <3>2. QED
      BY <2>1, <2>2, <3>1
<1>4. CASE Len(s) # 0
  <2>1. PICK g : ConfFlat(g, t) /\ Co!FlattenSeq(t) = g[Len(t)]
    BY <1>1, <1>4, ConfFlattened
  <2>2. \A i \in 1..Len(s) : g[i] = IF i = 1 THEN ConfKeep(s, 1) ELSE g[i - 1] \o ConfKeep(s, i)
    BY <1>1, <2>1 DEF ConfFlat, ConfJoined
  <2> DEFINE F == {n \in Nat : n + 1 <= Len(s) => ConfMade(g[n + 1], s, n + 1)}
  <2>3. 0 \in F
    <3>1. ConfMade(<<>>, s, 1 - 1)
      BY <1>1, <1>4 DEF ConfMade, ConfClean
    <3>2. 1 \in 1..Len(s)
      BY <1>1, <1>4
    <3>3. ConfMade(<<>> \o ConfKeep(s, 1), s, 1)
      BY <3>1, <3>2, ConfGrows
    <3>4. <<>> \o ConfKeep(s, 1) = ConfKeep(s, 1)
      BY <3>2, ConfKeepIs
    <3>5. ConfMade(g[1], s, 1)
      BY <2>2, <3>2, <3>3, <3>4
    <3>6. QED
      BY <3>5
  <2>4. ASSUME NEW n \in Nat, n \in F PROVE n + 1 \in F
    <3>1. ASSUME n + 2 <= Len(s) PROVE ConfMade(g[n + 2], s, n + 2)
      <4>1. n + 2 \in 1..Len(s) /\ n + 2 # 1 /\ n + 2 - 1 = n + 1 /\ n + 1 <= Len(s)
        BY <1>1, <3>1
      <4>2. ConfMade(g[n + 1], s, n + 2 - 1)
        BY <2>4, <4>1
      <4>3. ConfMade(g[n + 1] \o ConfKeep(s, n + 2), s, n + 2)
        BY <4>1, <4>2, ConfGrows
      <4>4. QED
        BY <2>2, <4>1, <4>3
    <3>2. n + 1 + 1 = n + 2
      OBVIOUS
    <3>3. QED
      BY <3>1, <3>2
  <2>5. \A n \in Nat : n \in F
    <3> HIDE DEF F
    <3>9. QED
      BY <2>3, <2>4, NatInSet
  <2>6. Len(s) - 1 \in Nat /\ Len(s) - 1 + 1 = Len(s)
    BY <1>1, <1>4
  <2>7. ConfMade(g[Len(s)], s, Len(s))
    BY <2>5, <2>6
  <2>8. ConfMade(Co!normalize(s), s, Len(s))
    BY <1>1, <1>2, <2>1, <2>7
  <2> DEFINE r == Co!normalize(s)
  <2>9. ASSUME ConfClean(s) PROVE r = s
    <3>1. r \in Seq(ConfLink) /\ Len(r) = Len(s) /\ \A j \in 1..Len(s) : r[j] = s[j]
      BY <2>8, <2>9 DEF ConfMade
    <3> HIDE DEF r
    <3>2. QED
      BY <3>1
  <2>10. QED
    BY <2>8, <2>9 DEF ConfMade
<1>5. QED
  BY <1>3, <1>4

-----------------------------------------------------------------------------
(* The window of the links: its inductive invariant.                       *)

ConfLists == {f \in Seq(ConfLink) : Len(f) <= MaxLinks}
ConfSaves ==
  [to : {"server", "local"}, config : ConfLists, then : {"links", "points", "list"},
   link : 0..(MaxLinks + 1)]
ConfLoads ==
  [answer : Seq(ConfLists), stale : BOOLEAN, then : {"links", "points"},
   link : ConfIds \cup {Bad}]
ConfDrafts == {Co!Link(i) : i \in ConfIds \cup {Bad}}

\* What the window is about, and the list with the point of its form.
ConfView(v, s, k, d, p, n) ==
  /\ v \in {"closed", "astray", "links", "link", "points", "point"}
  /\ s \in ConfLists /\ k \in 0..Len(s) /\ (v \in {"points", "point"} => k # 0)
  /\ (v \in {"links", "closed"} => k = 0)
  /\ d \in ConfDrafts /\ (d # Co!NoLink => v = "link" /\ k = 0)
  /\ p \in ConfPoints \cup {Bad} /\ n \in BOOLEAN
ConfWith(s, k, S) == [s EXCEPT ![k].points = S]
ConfWrit(v, s, k, p, n) ==
  IF v = "point" /\ ~n THEN ConfWith(s, k, s[k].points \cup {p}) ELSE s

ConfPage ==
  /\ ConfView(view, edited, at, draft, point, new)
  /\ mode \in {"server", "local"}
  /\ apart \in BOOLEAN /\ since \in BOOLEAN /\ crossed \in BOOLEAN
  /\ view = "astray" => crossed
ConfWorld ==
  /\ served \in ConfLists /\ ConfClean(served)
  /\ saving = <<>> \/ loading = <<>>
  /\ saving \in Seq(ConfSaves) /\ Len(saving) <= 1
  /\ loading \in Seq(ConfLoads) /\ Len(loading) <= 1

\* A save under way knows a link to come back to, unless the window was closed
\* meanwhile.
ConfBack(c, v, s, k, x) ==
  /\ c.link <= Len(s) \/ c.link = MaxLinks + 1
  /\ c.then = "points" /\ ~x =>
       IF c.link = MaxLinks + 1 THEN v = "closed" \/ (v = "link" /\ k # 0)
       ELSE c.link # 0

\* It bears what the page holds, unless something came after it.
ConfBears(c, s, later) == ConfClean(c.config) /\ (~later => c.config = Co!normalize(s))

\* A reading that came back bears what the controller holds, unless another
\* station saved meanwhile.
ConfHeard(c, f) ==
  /\ Len(c.answer) <= 1
  /\ c.answer # <<>> => ConfClean(c.answer[1]) /\ (~c.stale => c.answer[1] = f)

ConfCalls ==
  /\ saving # <<>> =>
       /\ saving[1].to = mode /\ ConfBack(saving[1], view, edited, at, crossed)
       /\ ConfBears(saving[1], ConfWrit(view, edited, at, point, new), since)
  /\ loading # <<>> => ConfHeard(loading[1], served)

ConfAgrees ==
  mode = "server" /\ saving = <<>> /\ ~apart =>
    Co!normalize(ConfWrit(view, edited, at, point, new)) = served

ConfInv == ConfPage /\ ConfWorld /\ ConfCalls /\ ConfAgrees

-----------------------------------------------------------------------------
LEMMA ConfOne ==
  ASSUME NEW S, NEW q \in Seq(S), q # <<>>
  PROVE  1 \in 1..Len(q) /\ q[1] \in S
BY Z3

LEMMA ConfSingle ==
  ASSUME NEW S, NEW x \in S
  PROVE  <<x>> \in Seq(S) /\ Len(<<x>>) = 1 /\ <<x>>[1] = x /\ <<x>> # <<>>
OBVIOUS

LEMMA ConfNothing == ASSUME NEW S PROVE <<>> \in Seq(S) /\ Len(<<>>) = 0
OBVIOUS

LEMMA ConfNormalIs ==
  ASSUME NEW s \in ConfLists
  PROVE  /\ Co!normalize(s) \in ConfLists /\ ConfClean(Co!normalize(s))
         /\ ConfClean(s) => Co!normalize(s) = s
<1>1. s \in Seq(ConfLink) /\ Len(s) <= MaxLinks /\ Len(s) \in Nat /\ MaxLinks \in Nat
  BY ConfigAssumption DEF ConfLists
<1>2. Co!normalize(s) \in Seq(ConfLink) /\ Len(Co!normalize(s)) <= Len(s) /\ Len(Co!normalize(s)) \in Nat
  BY <1>1, ConfNormal
<1>3. QED
  BY <1>1, <1>2, ConfNormal DEF ConfLists

(* A link whose points change.                                             *)
LEMMA ConfWithIs ==
  ASSUME NEW s \in ConfLists, NEW k \in 1..Len(s), NEW S \in SUBSET (ConfPoints \cup {Bad})
  PROVE  /\ ConfWith(s, k, S) \in ConfLists /\ Len(ConfWith(s, k, S)) = Len(s)
         /\ ConfWith(s, k, S)[k] = [id |-> s[k].id, points |-> S]
         /\ \A j \in 1..Len(s) : j # k => ConfWith(s, k, S)[j] = s[j]
<1>1. s \in Seq(ConfLink) /\ Len(s) \in Nat /\ Len(s) <= MaxLinks /\ s[k] \in ConfLink
  BY DEF ConfLists
<1>2. PICK x : x = s[k]
  OBVIOUS
<1>3. PICK d \in ConfIds \cup {Bad}, p \in SUBSET (ConfPoints \cup {Bad}) : x = [id |-> d, points |-> p]
  BY <1>1, <1>2 DEF ConfLink
<1>4. PICK e : e = [x EXCEPT !.points = S]
  OBVIOUS
<1>5. e = [id |-> d, points |-> S]
  BY ONLY <1>3, <1>4
<1>6. e \in ConfLink /\ d = s[k].id
  BY <1>2, <1>3, <1>5 DEF ConfLink
<1>7. ConfWith(s, k, S) = [s EXCEPT ![k] = e]
  BY <1>2, <1>4 DEF ConfWith
<1>8. PICK r : r = [s EXCEPT ![k] = e]
  OBVIOUS
<1>9. r \in Seq(ConfLink) /\ Len(r) = Len(s) /\ r[k] = e /\ \A j \in 1..Len(s) : j # k => r[j] = s[j]
  BY ONLY <1>1, <1>6, <1>8, k \in 1..Len(s)
<1>10. QED
  BY <1>1, <1>5, <1>6, <1>7, <1>8, <1>9 DEF ConfLists

LEMMA ConfSame ==
  ASSUME NEW s \in ConfLists, NEW r \in ConfLists, Len(r) = Len(s), \A j \in 1..Len(s) : r[j] = s[j]
  PROVE  r = s
BY DEF ConfLists

LEMMA ConfWithOwn ==
  ASSUME NEW s \in ConfLists, NEW k \in 1..Len(s)
  PROVE  /\ s[k] \in ConfLink /\ s[k].points \in SUBSET (ConfPoints \cup {Bad})
         /\ ConfWith(s, k, s[k].points) = s
<1>1. s[k] \in ConfLink
  BY DEF ConfLists
<1>2. PICK d \in ConfIds \cup {Bad}, p \in SUBSET (ConfPoints \cup {Bad}) : s[k] = [id |-> d, points |-> p]
  BY <1>1 DEF ConfLink
<1>3. s[k].points = p /\ s[k].id = d
  BY <1>2
<1>4. PICK r : r = ConfWith(s, k, p)
  OBVIOUS
<1>5. r \in ConfLists /\ Len(r) = Len(s) /\ r[k] = s[k] /\ \A j \in 1..Len(s) : j # k => r[j] = s[j]
  BY <1>2, <1>3, <1>4, ConfWithIs
<1>6. r = s
  BY <1>5, ConfSame
<1>7. QED
  BY <1>1, <1>3, <1>4, <1>6

LEMMA ConfWithTwice ==
  ASSUME NEW s \in ConfLists, NEW k \in 1..Len(s), NEW S \in SUBSET (ConfPoints \cup {Bad}),
         NEW T \in SUBSET (ConfPoints \cup {Bad})
  PROVE  ConfWith(ConfWith(s, k, S), k, T) = ConfWith(s, k, T)
<1>1. PICK r : r = ConfWith(s, k, S)
  OBVIOUS
<1>2. r \in ConfLists /\ Len(r) = Len(s) /\ r[k] = [id |-> s[k].id, points |-> S]
      /\ \A j \in 1..Len(s) : j # k => r[j] = s[j]
  BY <1>1, ConfWithIs
<1>3. PICK q : q = ConfWith(r, k, T)
  OBVIOUS
<1>4. q \in ConfLists /\ Len(q) = Len(r) /\ q[k] = [id |-> r[k].id, points |-> T]
      /\ \A j \in 1..Len(r) : j # k => q[j] = r[j]
  BY <1>2, <1>3, ConfWithIs
<1>5. PICK t : t = ConfWith(s, k, T)
  OBVIOUS
<1>6. t \in ConfLists /\ Len(t) = Len(s) /\ t[k] = [id |-> s[k].id, points |-> T]
      /\ \A j \in 1..Len(s) : j # k => t[j] = s[j]
  BY <1>5, ConfWithIs
<1>7. r[k].id = s[k].id
  BY <1>2
<1>8. \A j \in 1..Len(s) : q[j] = t[j]
  BY <1>2, <1>4, <1>6, <1>7
<1>9. q = t
  BY <1>2, <1>4, <1>6, <1>8, ConfSame
<1>10. QED
  BY <1>1, <1>3, <1>5, <1>9

(* The list with the point of the form.                                    *)
LEMMA ConfWritIs ==
  ASSUME NEW v, NEW s, NEW k, NEW d, NEW p, NEW n, ConfView(v, s, k, d, p, n)
  PROVE  ConfWrit(v, s, k, p, n) \in ConfLists /\ Len(ConfWrit(v, s, k, p, n)) = Len(s)
<1>1. /\ s \in ConfLists /\ k \in 0..Len(s) /\ p \in ConfPoints \cup {Bad}
      /\ (v = "point" => k # 0)
  BY DEF ConfView
<1>2. CASE v = "point" /\ ~n
  <2>1. k \in 1..Len(s)
    BY <1>1, <1>2 DEF ConfLists
  <2>2. s[k].points \cup {p} \in SUBSET (ConfPoints \cup {Bad})
    BY <1>1, <2>1, ConfWithOwn
  <2>3. QED
    BY <1>1, <1>2, <2>1, <2>2, ConfWithIs DEF ConfWrit
<1>3. CASE ~(v = "point" /\ ~n)
  BY <1>1, <1>3 DEF ConfWrit
<1>4. QED
  BY <1>2, <1>3

LEMMA ConfWrittenIs ==
  ASSUME ConfPage
  PROVE  Co!Written = ConfWrit(view, edited, at, point, new)
BY DEF ConfPage, ConfView, Co!Written, Co!Nowhere, ConfWrit, ConfWith

\* A set of numbers has a least one.
LEMMA ConfLeast ==
  ASSUME NEW S \in SUBSET Nat, S # {}
  PROVE  \E x \in S : \A y \in S : x <= y
<1> DEFINE R == OpToRel(<, Nat)
<1>1. IsWellFoundedOn(R, Nat)
  BY NatLessThanWellFounded
<1>2. PICK x \in S : \A y \in S : ~ (<<y, x>> \in R)
  <2> HIDE DEF R
  <2>1. QED
    BY <1>1, WFMin
<1>3. \A m, k \in Nat : m < k => <<m, k>> \in R
  BY DEF OpToRel
<1> HIDE DEF R
<1>4. ASSUME NEW y \in S PROVE x <= y
  <2>1. x \in Nat /\ y \in Nat
    OBVIOUS
  <2>2. ~ (y < x)
    BY <1>2, <1>3, <2>1
  <2>3. QED
    BY <2>1, <2>2
<1>5. QED
  BY <1>4

(* A gesture while no call ends: what the page holds is as it was, or it    *)
(* has a reason to differ.                                                 *)
ConfView1 == ConfView(view', edited', at', draft', point', new')
ConfWrit0 == ConfWrit(view, edited, at, point, new)
ConfWrit1 == ConfWrit(view', edited', at', point', new')
LEMMA ConfGesture ==
  ASSUME ConfInv, UNCHANGED <<served, mode, saving, loading>>,
         ConfView1, Len(edited') = Len(edited),
         \/ ConfWrit1 = ConfWrit0 /\ UNCHANGED <<apart, since>>
         \/ apart' = TRUE /\ since' = TRUE,
         crossed' \in BOOLEAN, view' = "astray" => crossed',
         saving # <<>> => ConfBack(saving[1], view', edited', at', crossed')
  PROVE  ConfInv'
<1>1. ConfPage'
  BY DEF ConfInv, ConfPage, ConfView1
<1>2. ConfWorld'
  BY DEF ConfInv, ConfWorld
<1>3. ConfCalls'
  <2>1. saving # <<>> => ConfBears(saving[1], ConfWrit1, since')
    BY DEF ConfInv, ConfCalls, ConfBears, ConfWrit0
  <2>2. QED
    BY <2>1 DEF ConfInv, ConfCalls, ConfWrit1
<1>4. ConfAgrees'
  <2>1. mode = "server" /\ saving = <<>> /\ ~apart' => Co!normalize(ConfWrit1) = served
    BY DEF ConfInv, ConfAgrees, ConfWrit0
  <2>2. QED
    BY <2>1 DEF ConfAgrees, ConfWrit1, Co!normalize, Co!Kept, Co!FirstOfItsId
<1>5. QED
  BY <1>1, <1>2, <1>3, <1>4 DEF ConfInv

LEMMA ConfFacts ==
  ASSUME ConfInv
  PROVE  /\ ConfView(view, edited, at, draft, point, new)
         /\ view \in {"closed", "astray", "links", "link", "points", "point"}
         /\ edited \in ConfLists /\ at \in 0..Len(edited) /\ Len(edited) \in Nat /\ MaxLinks \in Nat
         /\ Len(edited) <= MaxLinks
         /\ (view \in {"points", "point"} => at \in 1..Len(edited))
         /\ (view \in {"links", "closed"} => at = 0)
         /\ draft \in ConfDrafts /\ (draft # Co!NoLink => view = "link" /\ at = 0)
         /\ point \in ConfPoints \cup {Bad} /\ new \in BOOLEAN
         /\ crossed \in BOOLEAN /\ (view = "astray" => crossed)
         /\ saving # <<>> => ConfBack(saving[1], view, edited, at, crossed)
         /\ Co!NoLink \in ConfDrafts
  BY ConfigAssumption DEF ConfInv, ConfPage, ConfView, ConfCalls, ConfLists, ConfDrafts, Co!NoLink

LEMMA ConfOpenKeeps == ASSUME ConfInv, Co!Open PROVE ConfInv'
<1>1. /\ view = "closed" /\ view' = "links" /\ crossed' = (Co!calls # <<<<>>, <<>>>>)
      /\ UNCHANGED <<served, mode, edited, at, draft, point, new, saving, loading, apart, since>>
  BY DEF Co!Open, Co!form, Co!calls
<1>2. ConfView1
  BY <1>1, ConfFacts DEF ConfView1, ConfView
<1>3. ConfWrit1 = ConfWrit0
  BY <1>1 DEF ConfWrit1, ConfWrit0, ConfWrit
<1>4. crossed' \in BOOLEAN /\ (saving # <<>> => crossed')
  BY <1>1 DEF Co!calls
<1>5. saving # <<>> => ConfBack(saving[1], view', edited', at', crossed')
  BY <1>1, <1>4, ConfFacts DEF ConfBack
<1>6. QED
  BY <1>1, <1>2, <1>3, <1>4, <1>5, ConfGesture

LEMMA ConfCloseKeeps == ASSUME ConfInv, Co!Close PROVE ConfInv'
<1>1. /\ view' = "closed" /\ at' = 0 /\ edited' = Co!Written
      /\ draft' = Co!NoLink /\ point' = Bad /\ new' = FALSE
      /\ UNCHANGED <<served, mode, saving, loading, apart, since, crossed>>
  BY DEF Co!Close, Co!NoForm, Co!calls, Co!history, Co!Nowhere
<1>2. edited' = ConfWrit0 /\ edited' \in ConfLists /\ Len(edited') = Len(edited)
  BY <1>1, ConfFacts, ConfWritIs, ConfWrittenIs DEF ConfWrit0, ConfInv
<1>3. ConfView1
  <2>1. 0 \in 0..Len(edited') /\ Bad \in ConfPoints \cup {Bad}
    BY <1>2, ConfFacts
  <2>2. QED
    BY <1>1, <1>2, <2>1, ConfFacts DEF ConfView1, ConfView
<1>4. ConfWrit1 = ConfWrit0
  BY <1>1, <1>2 DEF ConfWrit1, ConfWrit
<1>5. saving # <<>> => ConfBack(saving[1], view', edited', at', crossed')
  BY <1>1, <1>2, ConfFacts DEF ConfBack
<1>6. QED
  BY <1>1, <1>2, <1>3, <1>4, <1>5, ConfFacts, ConfGesture

LEMMA ConfNewLinkKeeps == ASSUME ConfInv, Co!NewLink PROVE ConfInv'
<1>1. PICK i \in ConfIds \ {edited[k].id : k \in DOMAIN edited} :
        view' = "link" /\ at' = 0 /\ draft' = Co!Link(i)
  BY DEF Co!NewLink, Co!Nowhere
<1>2. /\ view = "links"
      /\ UNCHANGED <<served, mode, edited, point, new, saving, loading, apart, since, crossed>>
  BY DEF Co!NewLink, Co!calls, Co!history
<1>3. ConfView1
  BY <1>1, <1>2, ConfFacts DEF ConfView1, ConfView, ConfDrafts
<1>4. ConfWrit1 = ConfWrit0
  BY <1>1, <1>2 DEF ConfWrit1, ConfWrit0, ConfWrit
<1>5. saving # <<>> => ConfBack(saving[1], view', edited', at', crossed')
  BY <1>1, <1>2, ConfFacts DEF ConfBack
<1>6. QED
  BY <1>1, <1>2, <1>3, <1>4, <1>5, ConfFacts, ConfGesture

LEMMA ConfVisitKeeps == ASSUME ConfInv, NEW v \in {"link", "points"}, Co!Visit(v) PROVE ConfInv'
<1>1. PICK i \in DOMAIN edited : view' = v /\ at' = i
  BY DEF Co!Visit
<1>2. /\ view = "links"
      /\ UNCHANGED <<served, mode, edited, draft, point, new, saving, loading, apart, since, crossed>>
  BY DEF Co!Visit, Co!calls, Co!history
<1>3. i \in 1..Len(edited)
  BY ConfFacts DEF ConfLists
<1>4. ConfView1
  BY <1>1, <1>2, <1>3, ConfFacts DEF ConfView1, ConfView
<1>5. ConfWrit1 = ConfWrit0
  BY <1>1, <1>2 DEF ConfWrit1, ConfWrit0, ConfWrit
<1>6. saving # <<>> => ConfBack(saving[1], view', edited', at', crossed')
  BY <1>1, <1>2, ConfFacts DEF ConfBack
<1>7. QED
  BY <1>1, <1>2, <1>4, <1>5, <1>6, ConfFacts, ConfGesture

LEMMA ConfBackKeeps == ASSUME ConfInv, Co!Back PROVE ConfInv'
<1>1. /\ view \in {"points", "astray"} /\ view' = "links" /\ at' = 0
      /\ UNCHANGED <<served, mode, edited, draft, point, new, saving, loading, apart, since, crossed>>
  BY DEF Co!Back, Co!calls, Co!history, Co!Nowhere
<1>2. ConfView1
  BY <1>1, ConfFacts DEF ConfView1, ConfView
<1>3. ConfWrit1 = ConfWrit0
  BY <1>1 DEF ConfWrit1, ConfWrit0, ConfWrit
<1>4. saving # <<>> => ConfBack(saving[1], view', edited', at', crossed')
  BY <1>1, ConfFacts DEF ConfBack
<1>5. QED
  BY <1>1, <1>2, <1>3, <1>4, ConfFacts, ConfGesture

LEMMA ConfTypeIdKeeps == ASSUME ConfInv, Co!TypeId PROVE ConfInv'
<1>1. PICK v \in ConfIds \cup {Bad} :
        IF at = 0
        THEN draft' = Co!Link(v) /\ UNCHANGED <<edited, apart, since, crossed>>
        ELSE /\ edited' = [edited EXCEPT ![at].id = v] /\ apart' = TRUE /\ since' = TRUE
             /\ UNCHANGED <<draft, crossed>>
  BY DEF Co!TypeId, Co!Nowhere, Co!history, Co!Typed
<1>2. /\ view = "link" /\ UNCHANGED <<served, mode, view, at, point, new, saving, loading>>
  BY DEF Co!TypeId, Co!calls, Co!Still
<1>3. edited' \in ConfLists /\ Len(edited') = Len(edited)
  <2>1. CASE at = 0
    BY <1>1, <2>1, ConfFacts
  <2>2. CASE at # 0
    <3>1. at \in 1..Len(edited) /\ edited \in Seq(ConfLink) /\ Len(edited) <= MaxLinks /\ edited[at] \in ConfLink
      BY <2>2, ConfFacts DEF ConfLists
    <3>2. PICK x : x = edited[at]
      OBVIOUS
    <3>3. PICK d \in ConfIds \cup {Bad}, p \in SUBSET (ConfPoints \cup {Bad}) : x = [id |-> d, points |-> p]
      BY <3>1, <3>2 DEF ConfLink
    <3>4. PICK e : e = [x EXCEPT !.id = v]
      OBVIOUS
    <3>5. e = [id |-> v, points |-> p]
      BY ONLY <3>3, <3>4
    <3>6. e \in ConfLink
      BY <3>5 DEF ConfLink
    <3>7. PICK s : s = edited
      OBVIOUS
    <3>8. PICK k : k = at
      OBVIOUS
    <3>9. PICK r : r = [s EXCEPT ![k] = e]
      OBVIOUS
    <3>10. edited' = r
      BY <1>1, <2>2, <3>2, <3>4, <3>7, <3>8, <3>9
    <3>11. s \in Seq(ConfLink) /\ k \in 1..Len(s)
      BY <3>1, <3>7, <3>8
    <3>12. r \in Seq(ConfLink) /\ Len(r) = Len(s)
      BY ONLY <3>6, <3>9, <3>11
    <3>13. QED
      BY <3>1, <3>7, <3>10, <3>12 DEF ConfLists
  <2>3. QED
    BY <2>1, <2>2
<1>4. ConfView1
  <2>1. draft' \in ConfDrafts /\ (draft' # Co!NoLink => at = 0)
    BY <1>1, ConfFacts DEF ConfDrafts
  <2>2. QED
    BY <1>2, <1>3, <2>1, ConfFacts DEF ConfView1, ConfView
<1>5. \/ ConfWrit1 = ConfWrit0 /\ UNCHANGED <<apart, since>>
      \/ apart' = TRUE /\ since' = TRUE
  BY <1>1, <1>2 DEF ConfWrit1, ConfWrit0, ConfWrit
<1>6. crossed' = crossed
  BY <1>1
<1>7. saving # <<>> => ConfBack(saving[1], view', edited', at', crossed')
  BY <1>2, <1>3, <1>6, ConfFacts DEF ConfBack
<1>8. QED
  BY <1>2, <1>3, <1>4, <1>5, <1>6, <1>7, ConfFacts, ConfGesture

LEMMA ConfNewPointKeeps == ASSUME ConfInv, Co!NewPoint PROVE ConfInv'
<1>1. PICK p \in ConfPoints : view' = "point" /\ point' = p /\ new' = TRUE
  BY DEF Co!NewPoint
<1>2. /\ view = "points"
      /\ UNCHANGED <<served, mode, edited, at, draft, saving, loading, apart, since, crossed>>
  BY DEF Co!NewPoint, Co!calls, Co!history
<1>3. ConfView1
  BY <1>1, <1>2, ConfFacts DEF ConfView1, ConfView
<1>4. ConfWrit1 = ConfWrit0
  BY <1>1, <1>2 DEF ConfWrit1, ConfWrit0, ConfWrit
<1>5. saving # <<>> => ConfBack(saving[1], view', edited', at', crossed')
  BY <1>1, <1>2, ConfFacts DEF ConfBack
<1>6. QED
  BY <1>1, <1>2, <1>3, <1>4, <1>5, ConfFacts, ConfGesture

\* The point taken out of the list comes back in what is sent.
LEMMA ConfEditPointKeeps == ASSUME ConfInv, Co!EditPoint PROVE ConfInv'
<1>1. PICK p \in edited[at].points :
        /\ view' = "point" /\ point' = p /\ new' = FALSE
        /\ edited' = ConfWith(edited, at, edited[at].points \ {p})
  BY DEF Co!EditPoint, Co!PointsHere, Co!WithPoints, ConfWith
<1>2. /\ view = "points"
      /\ UNCHANGED <<served, mode, at, draft, saving, loading, apart, since, crossed>>
  BY DEF Co!EditPoint, Co!calls, Co!history
<1>3. at \in 1..Len(edited)
  BY <1>2, ConfFacts
<1>4. edited[at].points \in SUBSET (ConfPoints \cup {Bad}) /\ ConfWith(edited, at, edited[at].points) = edited
  BY <1>3, ConfFacts, ConfWithOwn
<1> DEFINE P == edited[at].points
<1>5. /\ edited' \in ConfLists /\ Len(edited') = Len(edited) /\ edited'[at].points = P \ {p}
      /\ ConfWith(edited', at, P) = ConfWith(edited, at, P)
  <2>1. P \ {p} \in SUBSET (ConfPoints \cup {Bad}) /\ P \in SUBSET (ConfPoints \cup {Bad})
    BY <1>4
  <2> HIDE DEF P
  <2>2. edited' = ConfWith(edited, at, P \ {p})
    BY <1>1 DEF P
  <2>3. /\ ConfWith(edited, at, P \ {p}) \in ConfLists
        /\ Len(ConfWith(edited, at, P \ {p})) = Len(edited)
        /\ ConfWith(edited, at, P \ {p})[at] = [id |-> edited[at].id, points |-> P \ {p}]
    <3>1. edited \in ConfLists
      BY ConfFacts
    <3>2. PICK Q : Q = P \ {p}
      OBVIOUS
    <3>3. QED
      BY <1>3, <2>1, <3>1, <3>2, ConfWithIs
  <2>4. ConfWith(ConfWith(edited, at, P \ {p}), at, P) = ConfWith(edited, at, P)
    BY <1>3, <2>1, ConfFacts, ConfWithTwice
  <2>5. PICK r : r = edited'
    OBVIOUS
  <2>6. /\ r \in ConfLists /\ Len(r) = Len(edited) /\ r[at] = [id |-> edited[at].id, points |-> P \ {p}]
        /\ ConfWith(r, at, P) = ConfWith(edited, at, P)
    BY <2>2, <2>3, <2>4, <2>5
  <2>7. r[at].points = P \ {p}
    BY <2>6
  <2>8. QED
    BY <2>5, <2>6, <2>7
<1>6. ConfView1
  <2>1. p \in ConfPoints \cup {Bad}
    BY <1>1, <1>4
  <2>2. QED
    BY <1>1, <1>2, <1>5, <2>1, ConfFacts DEF ConfView1, ConfView
<1>7. ConfWrit1 = ConfWrit0
  <2>1. (P \ {p}) \cup {p} = P
    BY <1>1
  <2>2. ConfWrit1 = ConfWith(edited', at, edited'[at].points \cup {p})
    BY <1>1, <1>2 DEF ConfWrit1, ConfWrit
  <2>3. ConfWrit1 = edited
    BY <1>4, <1>5, <2>1, <2>2
  <2>4. QED
    BY <1>2, <2>3 DEF ConfWrit0, ConfWrit
<1>8. saving # <<>> => ConfBack(saving[1], view', edited', at', crossed')
  BY <1>1, <1>2, <1>5, ConfFacts DEF ConfBack
<1>9. QED
  BY <1>1, <1>2, <1>5, <1>6, <1>7, <1>8, ConfFacts, ConfGesture

LEMMA ConfTypePointKeeps == ASSUME ConfInv, Co!TypePoint PROVE ConfInv'
<1>1. /\ view = "point" /\ point' \in ConfPoints \cup {Bad}
      /\ IF new THEN UNCHANGED <<apart, since, crossed>>
         ELSE apart' = TRUE /\ since' = TRUE /\ UNCHANGED crossed
      /\ UNCHANGED <<served, mode, edited, view, at, draft, new, saving, loading>>
  BY DEF Co!TypePoint, Co!calls, Co!history, Co!Typed, Co!Still
<1>2. ConfView1
  BY <1>1, ConfFacts DEF ConfView1, ConfView
<1>3. \/ ConfWrit1 = ConfWrit0 /\ UNCHANGED <<apart, since>>
      \/ apart' = TRUE /\ since' = TRUE
  BY <1>1 DEF ConfWrit1, ConfWrit0, ConfWrit
<1>4. saving # <<>> => ConfBack(saving[1], view', edited', at', crossed')
  BY <1>1, ConfFacts DEF ConfBack
<1>5. QED
  BY <1>1, <1>2, <1>3, <1>4, ConfFacts, ConfGesture

(* A save leaves with the list as it is now.                               *)
LEMMA ConfSends ==
  ASSUME ConfInv, ConfView1, UNCHANGED <<served, mode, loading, crossed>>,
         saving = <<>>, loading = <<>>, since' = FALSE, apart' = TRUE,
         view' = "astray" => crossed,
         NEW then \in {"links", "points", "list"}, NEW link \in 0..(MaxLinks + 1),
         saving' = <<[to |-> mode, config |-> Co!normalize(ConfWrit1), then |-> then, link |-> link]>>,
         link <= Len(edited') \/ link = MaxLinks + 1,
         then = "points" /\ ~crossed =>
           IF link = MaxLinks + 1 THEN view' = "link" /\ at' # 0 ELSE link # 0
  PROVE  ConfInv'
<1>1. ConfPage'
  BY DEF ConfInv, ConfPage, ConfView1
<1>2. ConfWrit1 \in ConfLists
  BY ConfWritIs DEF ConfView1, ConfWrit1
<1>3. PICK f : f = Co!normalize(ConfWrit1)
  OBVIOUS
<1>4. f \in ConfLists /\ ConfClean(f)
  BY <1>2, <1>3, ConfNormalIs
<1>5. PICK c : c = [to |-> mode, config |-> f, then |-> then, link |-> link]
  OBVIOUS
<1>6. c \in ConfSaves /\ c.to = mode /\ c.config = f /\ c.then = then /\ c.link = link
  BY <1>4, <1>5 DEF ConfSaves, ConfInv, ConfPage
<1>7. saving' = <<c>>
  BY <1>3, <1>5
<1>8. saving' \in Seq(ConfSaves) /\ Len(saving') = 1 /\ saving'[1] = c /\ saving' # <<>>
  BY <1>6, <1>7, ConfSingle
<1>9. ConfWorld'
  BY <1>8 DEF ConfInv, ConfWorld
<1>10. ConfCalls'
  <2>1. ConfBack(c, view', edited', at', crossed')
    BY <1>6 DEF ConfBack
  <2>2. ConfBears(c, ConfWrit1, since')
    BY <1>3, <1>4, <1>6 DEF ConfBears
  <2>3. mode' = mode /\ loading' = <<>>
    OBVIOUS
  <2>4. QED
    BY <1>6, <1>8, <2>1, <2>2, <2>3 DEF ConfCalls, ConfWrit1
<1>11. ConfAgrees'
  BY <1>8 DEF ConfAgrees
<1>12. QED
  BY <1>1, <1>9, <1>10, <1>11 DEF ConfInv

LEMMA ConfIdle ==
  ASSUME Co!calls = <<<<>>, <<>>>>
  PROVE  saving = <<>> /\ loading = <<>>
BY DEF Co!calls

LEMMA ConfSaveLinkKeeps ==
  ASSUME ConfInv, NEW then \in {"links", "points"}, Co!SaveLink(then) PROVE ConfInv'
<1>1. /\ view = "link" /\ Len(edited) + (IF at = 0 THEN 1 ELSE 0) <= MaxLinks
      /\ IF at # 0 THEN UNCHANGED <<edited, at>>
         ELSE edited' = Append(edited, draft) /\ at' = Len(edited) + 1
      /\ draft' = Co!NoLink /\ apart' = TRUE
      /\ UNCHANGED <<served, mode, view, point, new, loading, crossed>>
  BY DEF Co!SaveLink, Co!Joined, Co!Nowhere
<1>2. /\ saving = <<>> /\ loading = <<>> /\ since' = FALSE
      /\ saving' = <<[to |-> mode, config |-> Co!normalize(edited'), then |-> then,
                      link |-> MaxLinks + 1]>>
  BY ConfIdle DEF Co!SaveLink, Co!Send, Co!Here
<1>3. edited' \in ConfLists /\ at' \in 1..Len(edited')
  <2>1. CASE at # 0
    BY <1>1, <2>1, ConfFacts
  <2>2. CASE at = 0
    <3>1. draft \in ConfLink
      BY ConfFacts DEF ConfDrafts, Co!Link, ConfLink
    <3>2. edited \in Seq(ConfLink) /\ Len(edited) + 1 <= MaxLinks /\ Len(edited) \in Nat
      BY <1>1, <2>2 , ConfFacts DEF ConfLists
    <3>3. edited' = Append(edited, draft) /\ at' = Len(edited) + 1
      BY <1>1, <2>2
    <3>4. QED
      BY <3>1, <3>2, <3>3 DEF ConfLists
  <2>3. QED
    BY <2>1, <2>2
<1>4. ConfView1
  <2>1. at' \in 0..Len(edited') /\ at' # 0
    BY <1>3 DEF ConfLists
  <2>2. QED
    BY <1>1, <1>3, <2>1, ConfFacts DEF ConfView1, ConfView
<1>5. ConfWrit1 = edited'
  BY <1>1 DEF ConfWrit1, ConfWrit
<1>6. MaxLinks + 1 \in 0..(MaxLinks + 1) /\ at' # 0
  BY <1>3, ConfFacts
<1>7. QED
  BY <1>1, <1>2, <1>4, <1>5, <1>6, ConfSends

LEMMA ConfChanges ==
  ASSUME ConfInv, NEW list \in ConfLists, Co!Change(list), view \in {"links", "points"},
         at <= Len(list)
  PROVE  ConfInv'
<1>1. /\ edited' = list /\ apart' = TRUE
      /\ UNCHANGED <<served, mode, view, at, draft, point, new, loading, crossed>>
  BY DEF Co!Change, Co!form
<1>2. /\ saving = <<>> /\ loading = <<>> /\ since' = FALSE
      /\ saving' = <<[to |-> mode, config |-> Co!normalize(list), then |-> "list",
                      link |-> MaxLinks + 1]>>
  BY ConfIdle DEF Co!Change, Co!Send, Co!Here
<1>3. ConfView1
  <2>1. at \in 0..Len(list) /\ Len(list) \in Nat
    BY ConfFacts DEF ConfLists
  <2>2. QED
    BY <1>1, <2>1, ConfFacts DEF ConfView1, ConfView
<1>4. ConfWrit1 = list
  BY <1>1 DEF ConfWrit1, ConfWrit
<1>5. MaxLinks + 1 \in 0..(MaxLinks + 1) /\ view' # "astray"
  BY <1>1, ConfFacts
<1>6. QED
  BY <1>1, <1>2, <1>3, <1>4, <1>5, ConfSends

LEMMA ConfFile == ASSUME NEW f \in ConfFiles PROVE f \in ConfLists
  BY ConfigAssumption DEF ConfLists

LEMMA ConfListKeeps ==
  ASSUME ConfInv, Co!Toggle \/ Co!Delete \/ Co!importConfig
  PROVE  ConfInv'
<1>1. view = "links" /\ at = 0 /\ edited \in ConfLists
  BY ConfFacts DEF Co!Toggle, Co!Delete, Co!importConfig
<1>2. \A list \in ConfLists : at <= Len(list)
  BY <1>1 DEF ConfLists
<1>3. CASE Co!Toggle
  BY <1>1, <1>2, <1>3, ConfChanges DEF Co!Toggle
<1>4. CASE Co!Delete
  <2>1. PICK i \in DOMAIN edited : Co!Change(Co!RemoveAt(edited, i))
    BY <1>4 DEF Co!Delete
  <2>2. edited \in Seq(ConfLink) /\ i \in 1..Len(edited) /\ Len(edited) <= MaxLinks
        /\ Len(edited) \in Nat /\ MaxLinks \in Nat
    BY <1>1, ConfigAssumption DEF ConfLists
  <2>3. Co!RemoveAt(edited, i) = SubSeq(edited, 1, i - 1) \o SubSeq(edited, i + 1, Len(edited))
    BY DEF Co!RemoveAt
  <2>4. /\ SubSeq(edited, 1, i - 1) \in Seq(ConfLink) /\ Len(SubSeq(edited, 1, i - 1)) = i - 1
        /\ SubSeq(edited, i + 1, Len(edited)) \in Seq(ConfLink)
        /\ Len(SubSeq(edited, i + 1, Len(edited))) = Len(edited) - i
    BY <2>2
  <2>5. Co!RemoveAt(edited, i) \in ConfLists
    <3>1. PICK x, y : x = SubSeq(edited, 1, i - 1) /\ y = SubSeq(edited, i + 1, Len(edited))
      OBVIOUS
    <3>2. x \in Seq(ConfLink) /\ y \in Seq(ConfLink) /\ Len(x) + Len(y) <= MaxLinks
      <4>1. x \in Seq(ConfLink) /\ y \in Seq(ConfLink) /\ Len(x) = i - 1 /\ Len(y) = Len(edited) - i
        BY <2>4, <3>1
      <4>2. PICK n : n = Len(edited)
        OBVIOUS
      <4>3. n \in Nat /\ i \in 1..n /\ n <= MaxLinks
        BY <2>2, <4>2
      <4>4. (i - 1) + (n - i) <= MaxLinks
        BY <4>3, ConfigAssumption
      <4>5. QED
        BY <4>1, <4>2, <4>4
    <3>3. x \o y \in Seq(ConfLink) /\ Len(x \o y) = Len(x) + Len(y)
      BY <3>2
    <3>4. QED
      BY <2>3, <3>1, <3>2, <3>3 DEF ConfLists
  <2>6. QED
    BY <1>1, <1>2, <2>1, <2>5, ConfChanges
<1>5. CASE Co!importConfig
  <2>1. PICK f \in ConfFiles : Co!Change(Co!normalize(f))
    BY <1>5 DEF Co!importConfig
  <2>2. Co!normalize(f) \in ConfLists
    BY ConfFile, ConfNormalIs
  <2>3. QED
    BY <1>1, <1>2, <2>1, <2>2, ConfChanges
<1>6. QED
  BY <1>3, <1>4, <1>5

LEMMA ConfChangePointsKeeps == ASSUME ConfInv, Co!ChangePoints PROVE ConfInv'
<1>1. view = "points" /\ at \in 1..Len(edited) /\ edited \in ConfLists
  BY ConfFacts DEF Co!ChangePoints
<1>2. edited[at].points \in SUBSET (ConfPoints \cup {Bad})
  BY <1>1, ConfWithOwn
<1>3. ASSUME NEW S \in SUBSET (ConfPoints \cup {Bad}), Co!Change(Co!WithPoints(S)) PROVE ConfInv'
  <2>1. Co!WithPoints(S) = ConfWith(edited, at, S)
    BY DEF Co!WithPoints, ConfWith
  <2>2. ConfWith(edited, at, S) \in ConfLists /\ Len(ConfWith(edited, at, S)) = Len(edited)
    BY <1>1, ConfWithIs
  <2>3. at <= Len(edited)
    BY ConfFacts
  <2>4. QED
    BY <1>1, <1>3, <2>1, <2>2, <2>3, ConfChanges
<1>4. CASE \E p \in Co!PointsHere, q \in ConfPoints \ Co!PointsHere :
             Co!Change(Co!WithPoints(Co!PointsHere \cup {q}))
  <2>1. PICK q \in ConfPoints : Co!Change(Co!WithPoints(Co!PointsHere \cup {q}))
    BY <1>4
  <2>2. Co!PointsHere \cup {q} \in SUBSET (ConfPoints \cup {Bad})
    BY <1>2 DEF Co!PointsHere
  <2>3. QED
    BY <1>3, <2>1, <2>2
<1>5. CASE \E p \in Co!PointsHere : Co!Change(Co!WithPoints(Co!PointsHere \ {p}))
  <2>1. PICK p : Co!Change(Co!WithPoints(Co!PointsHere \ {p}))
    BY <1>5
  <2>2. Co!PointsHere \ {p} \in SUBSET (ConfPoints \cup {Bad})
    BY <1>2 DEF Co!PointsHere
  <2>3. QED
    BY <1>3, <2>1, <2>2
<1>6. QED
  BY <1>4, <1>5 DEF Co!ChangePoints

LEMMA ConfSavePointKeeps == ASSUME ConfInv, Co!SavePoint PROVE ConfInv'
<1> DEFINE S == edited[at].points \cup {point}
<1>1. /\ view = "point" /\ new' = FALSE /\ apart' = TRUE
      /\ UNCHANGED <<served, mode, edited, view, at, draft, point, loading, crossed>>
  BY DEF Co!SavePoint
<1>2. /\ saving = <<>> /\ loading = <<>> /\ since' = FALSE
      /\ saving' = <<[to |-> mode, config |-> Co!normalize(ConfWith(edited, at, S)),
                      then |-> "points", link |-> at]>>
  BY ConfIdle DEF Co!SavePoint, Co!Send, Co!WithPoints, Co!PointsHere, ConfWith
<1>3. at \in 1..Len(edited) /\ S \in SUBSET (ConfPoints \cup {Bad})
  BY <1>1, ConfFacts, ConfWithOwn
<1> HIDE DEF S
<1>4. ConfWith(edited, at, S) \in ConfLists /\ Len(ConfWith(edited, at, S)) = Len(edited)
  BY <1>3, ConfFacts, ConfWithIs
<1>5. edited' \in ConfLists /\ Len(edited') = Len(edited)
  BY <1>1, ConfFacts
<1>6. ConfView1
  BY <1>1, <1>5, ConfFacts DEF ConfView1, ConfView
<1>7. ConfWrit1 = ConfWith(edited, at, S)
  BY <1>1, <1>3 DEF ConfWrit1, ConfWrit, S
<1>8. at \in 0..(MaxLinks + 1) /\ at # 0 /\ at <= Len(edited') /\ at # MaxLinks + 1 /\ view' # "astray"
  BY <1>1, <1>3, <1>5, ConfFacts
<1>9. QED
  BY <1>1, <1>2, <1>6, <1>7, <1>8, ConfSends

LEMMA ConfReadKeeps == ASSUME ConfInv, Co!CancelLink \/ Co!CancelPoint PROVE ConfInv'
<1>1. PICK c : /\ loading' = <<c>> /\ c \in ConfLoads /\ c.answer = <<>>
               /\ UNCHANGED <<served, mode, edited, view, at, draft, point, new, saving, apart, since, crossed>>
               /\ saving = <<>>
  <2>1. CASE Co!CancelLink
    <3>1. Co!Read("links", Bad) /\ UNCHANGED <<served, mode, edited, view, at, draft, point, new, saving, apart, since, crossed>>
      BY <2>1 DEF Co!CancelLink, Co!form, Co!history
    <3>2. PICK c : c = [answer |-> <<>>, stale |-> FALSE, then |-> "links", link |-> Bad]
      OBVIOUS
    <3>3. loading' = <<c>> /\ saving = <<>>
      BY <3>1, <3>2, ConfIdle DEF Co!Read
    <3>4. c \in ConfLoads /\ c.answer = <<>>
      BY <3>2, ConfNothing DEF ConfLoads
    <3>5. QED
      BY <3>1, <3>3, <3>4
  <2>2. CASE Co!CancelPoint
    <3>1. /\ view = "point" /\ Co!Read("points", edited[at].id)
          /\ UNCHANGED <<served, mode, edited, view, at, draft, point, new, saving, apart, since, crossed>>
      BY <2>2 DEF Co!CancelPoint, Co!form, Co!history
    <3>2. PICK c : c = [answer |-> <<>>, stale |-> FALSE, then |-> "points", link |-> edited[at].id]
      OBVIOUS
    <3>3. loading' = <<c>> /\ saving = <<>>
      BY <3>1, <3>2, ConfIdle DEF Co!Read
    <3>4. edited[at] \in ConfLink
      BY <3>1, ConfFacts, ConfWithOwn
    <3>5. edited[at].id \in ConfIds \cup {Bad}
      BY <3>4 DEF ConfLink
    <3>6. c \in ConfLoads /\ c.answer = <<>>
      BY <3>2, <3>5, ConfNothing DEF ConfLoads
    <3>7. QED
      BY <3>1, <3>3, <3>6
  <2>3. QED
    BY <2>1, <2>2
<1>2. loading' \in Seq(ConfLoads) /\ Len(loading') = 1 /\ loading'[1] = c
  BY <1>1, ConfSingle
<1>3. ConfPage'
  BY <1>1 DEF ConfInv, ConfPage
<1>4. ConfWorld'
  BY <1>1, <1>2 DEF ConfInv, ConfWorld
<1>5. ConfHeard(c, served')
  BY <1>1 DEF ConfHeard
<1>6. ConfCalls'
  BY <1>1, <1>2, <1>5 DEF ConfInv, ConfCalls
<1>7. ConfAgrees'
  BY <1>1 DEF ConfInv, ConfAgrees, Co!normalize, Co!Kept, Co!FirstOfItsId
<1>8. QED
  BY <1>3, <1>4, <1>6, <1>7 DEF ConfInv

(* The calls end.                                                          *)
LEMMA ConfSaveIs ==
  ASSUME ConfInv, saving # <<>>
  PROVE  /\ saving[1] \in ConfSaves /\ saving[1].config \in ConfLists /\ ConfClean(saving[1].config)
         /\ saving[1].to = mode /\ saving[1].link \in 0..(MaxLinks + 1)
         /\ saving[1].then \in {"links", "points", "list"}
         /\ ConfBack(saving[1], view, edited, at, crossed)
         /\ (~since => saving[1].config = Co!normalize(ConfWrit0))
         /\ loading = <<>>
<1>1. saving[1] \in ConfSaves
  BY ConfOne DEF ConfInv, ConfWorld
<1>2. QED
  BY <1>1 DEF ConfSaves, ConfInv, ConfWorld, ConfCalls, ConfBears, ConfWrit0

\* What the window shows then: what it held is written, whichever way.
LEMMA ConfSavedIs ==
  ASSUME ConfInv, saving # <<>>, Co!Saved(saving[1]), UNCHANGED crossed
  PROVE  ConfView1 /\ ConfWrit1 = ConfWrit0 /\ (view' = "astray" => crossed')
<1> DEFINE c == saving[1]
<1>1. /\ c.link \in 0..(MaxLinks + 1) /\ c.then \in {"links", "points", "list"}
      /\ c.link <= Len(edited) \/ c.link = MaxLinks + 1
      /\ c.then = "points" /\ ~crossed =>
           IF c.link = MaxLinks + 1 THEN view = "closed" \/ (view = "link" /\ at # 0)
           ELSE c.link # 0
  BY ConfSaveIs DEF ConfBack
<1>2. CASE view = "closed" \/ c.then = "list"
  <2>1. UNCHANGED <<edited, view, at, draft, point, new>>
    BY <1>2 DEF Co!Saved, Co!form
  <2>2. QED
    BY <2>1, ConfFacts DEF ConfView1, ConfWrit1, ConfWrit0
<1>3. CASE view # "closed" /\ c.then # "list"
  <2> DEFINE place == IF c.link = MaxLinks + 1 THEN at ELSE c.link
  <2>1. /\ edited' = Co!Written /\ draft' = Co!NoLink /\ point' = Bad /\ new' = FALSE
        /\ at' = IF c.then = "points" THEN place ELSE 0
        /\ view' = IF c.then = "points" /\ place = 0 THEN "astray" ELSE c.then
    BY <1>3 DEF Co!Saved, Co!NoForm, Co!Shown, Co!Here, Co!Nowhere
  <2>2. edited' = ConfWrit0 /\ edited' \in ConfLists /\ Len(edited') = Len(edited)
    BY <2>1, ConfFacts, ConfWritIs, ConfWrittenIs DEF ConfWrit0, ConfInv
  <2>3. place \in 0..Len(edited)
    BY <1>1, ConfFacts
  <2> HIDE DEF place
  <2>4. ConfView1
    <3>1. at' \in 0..Len(edited') /\ Bad \in ConfPoints \cup {Bad}
      BY <2>1, <2>2, <2>3, ConfFacts
    <3>2. view' \in {"astray", "links", "points"} /\ (view' = "points" => at' # 0) /\ (view' = "links" => at' = 0)
      BY <1>1, <1>3, <2>1
    <3>3. QED
      BY <2>1, <2>2, <3>1, <3>2, ConfFacts DEF ConfView1, ConfView
  <2>5. ConfWrit1 = ConfWrit0
    <3>1. view' # "point"
      BY <1>1, <1>3, <2>1
    <3>2. QED
      BY <2>1, <2>2, <3>1 DEF ConfWrit1, ConfWrit
  <2>6. view' = "astray" => crossed'
    <3>1. ASSUME view' = "astray", ~crossed PROVE FALSE
      <4>1. c.then = "points" /\ place = 0
        BY <1>1, <1>3, <2>1, <3>1
      <4>2. QED
        BY <1>1, <1>3, <3>1, <4>1, ConfFacts DEF place
    <3>2. QED
      BY <3>1, ConfFacts
  <2>7. QED
    BY <2>4, <2>5, <2>6
<1>4. QED
  BY <1>2, <1>3

LEMMA ConfSaveDoneKeeps == ASSUME ConfInv, Co!SaveDone PROVE ConfInv'
<1>1. /\ saving # <<>> /\ Co!Saved(saving[1]) /\ saving' = <<>>
      /\ served' = (IF saving[1].to = "server" THEN saving[1].config ELSE served)
      /\ apart' = since /\ UNCHANGED <<mode, loading, since, crossed>>
  BY DEF Co!SaveDone, Co!Saved
<1>2. ConfView1 /\ ConfWrit1 = ConfWrit0 /\ (view' = "astray" => crossed')
  BY <1>1, ConfSavedIs
<1>3. served' \in ConfLists /\ ConfClean(served')
  BY <1>1, ConfSaveIs DEF ConfInv, ConfWorld
<1>4. ConfPage'
  BY <1>1, <1>2 DEF ConfInv, ConfPage, ConfView1
<1>5. ConfWorld' /\ loading' = <<>>
  <2>1. loading' = <<>>
    BY <1>1, ConfSaveIs
  <2>2. QED
    BY <1>1, <1>3, <2>1, ConfNothing DEF ConfWorld
<1>6. ConfCalls'
  BY <1>1, <1>5 DEF ConfCalls
<1>7. ConfAgrees'
  <2>1. mode = "server" /\ ~since => Co!normalize(ConfWrit1) = served'
    BY <1>1, <1>2, ConfSaveIs
  <2>2. QED
    BY <1>1, <2>1 DEF ConfAgrees, ConfWrit1, Co!normalize, Co!Kept, Co!FirstOfItsId
<1>8. QED
  BY <1>4, <1>5, <1>6, <1>7 DEF ConfInv

LEMMA ConfSaveFailedKeeps == ASSUME ConfInv, Co!SaveFailed PROVE ConfInv'
<1>1. /\ saving # <<>> /\ Co!Saved(saving[1]) /\ saving' = <<>>
      /\ served' \in {served, saving[1].config}
      /\ apart' = TRUE /\ since' = TRUE /\ UNCHANGED <<mode, loading, crossed>>
  BY DEF Co!SaveFailed, Co!Saved
<1>2. ConfView1 /\ ConfWrit1 = ConfWrit0 /\ (view' = "astray" => crossed')
  BY <1>1, ConfSavedIs
<1>3. served' \in ConfLists /\ ConfClean(served')
  BY <1>1, ConfSaveIs DEF ConfInv, ConfWorld
<1>4. ConfPage'
  BY <1>1, <1>2 DEF ConfInv, ConfPage, ConfView1
<1>5. ConfWorld' /\ loading' = <<>>
  <2>1. loading' = <<>>
    BY <1>1, ConfSaveIs
  <2>2. QED
    BY <1>1, <1>3, <2>1, ConfNothing DEF ConfWorld
<1>6. ConfCalls'
  BY <1>1, <1>5 DEF ConfCalls
<1>7. ConfAgrees'
  BY <1>1 DEF ConfAgrees
<1>8. QED
  BY <1>4, <1>5, <1>6, <1>7 DEF ConfInv

LEMMA ConfAlone ==
  ASSUME NEW S, NEW q \in Seq(S), Len(q) <= 1, q # <<>>
  PROVE  Len(q) = 1 /\ DOMAIN q = {1}
<1>1. Len(q) \in Nat /\ DOMAIN q = 1..Len(q)
  OBVIOUS
<1>2. Len(q) # 0
  BY EmptySeq
<1>3. Len(q) = 1
  BY <1>1, <1>2
<1>4. QED
  BY <1>1, <1>3

LEMMA ConfLoadIs ==
  ASSUME ConfInv, loading # <<>>
  PROVE  /\ loading[1] \in ConfLoads /\ ConfHeard(loading[1], served) /\ saving = <<>>
         /\ loading[1].answer # <<>> =>
              loading[1].answer[1] \in ConfLists /\ ConfClean(loading[1].answer[1])
         /\ DOMAIN loading = {1}
<1>1. loading[1] \in ConfLoads /\ saving = <<>> /\ DOMAIN loading = {1}
  <2>1. loading \in Seq(ConfLoads) /\ Len(loading) <= 1 /\ saving = <<>>
    BY DEF ConfInv, ConfWorld
  <2>2. Len(loading) = 1 /\ DOMAIN loading = {1}
    BY <2>1, ConfAlone
  <2>3. QED
    BY <2>1, <2>2, ConfOne
<1>2. ConfHeard(loading[1], served)
  BY DEF ConfInv, ConfCalls
<1>3. loading[1].answer \in Seq(ConfLists)
  BY <1>1 DEF ConfLoads
<1>4. loading[1].answer # <<>> => loading[1].answer[1] \in ConfLists
  BY <1>3, ConfOne
<1>5. QED
  BY <1>1, <1>2, <1>4 DEF ConfHeard

\* The reading that came back, or that another station's save makes old.
LEMMA ConfReadingKeeps ==
  ASSUME ConfInv, loading # <<>>, NEW c \in ConfLoads, loading' = <<c>>,
         served' \in ConfLists, ConfClean(served'), ConfHeard(c, served'),
         UNCHANGED <<mode, edited, view, at, draft, point, new, saving, crossed>>,
         UNCHANGED <<served, apart, since>> \/ (apart' = TRUE /\ since' = TRUE)
  PROVE  ConfInv'
<1>1. saving = <<>> /\ saving' = <<>>
  BY ConfLoadIs
<1>2. loading' \in Seq(ConfLoads) /\ Len(loading') = 1 /\ loading'[1] = c
  BY ConfSingle
<1>3. ConfPage'
  BY DEF ConfInv, ConfPage
<1>4. ConfWorld'
  BY <1>1, <1>2, ConfNothing DEF ConfInv, ConfWorld
<1>5. ConfCalls'
  BY <1>1, <1>2 DEF ConfCalls
<1>6. ConfAgrees'
  <2>1. CASE apart' = TRUE
    BY <2>1 DEF ConfAgrees
  <2>2. CASE UNCHANGED <<served, apart, since>>
    BY <2>2 DEF ConfInv, ConfAgrees, Co!normalize, Co!Kept, Co!FirstOfItsId
  <2>3. QED
    BY <2>1, <2>2
<1>7. QED
  BY <1>3, <1>4, <1>5, <1>6 DEF ConfInv

LEMMA ConfLoadServedKeeps == ASSUME ConfInv, Co!LoadServed PROVE ConfInv'
<1>1. /\ loading # <<>> /\ loading' = <<[loading[1] EXCEPT !.answer = <<served>>]>>
      /\ UNCHANGED <<served, mode, edited, view, at, draft, point, new, saving, apart, since, crossed>>
  BY DEF Co!LoadServed, Co!form, Co!history
<1>2. PICK l : l = loading[1]
  OBVIOUS
<1>3. PICK a \in Seq(ConfLists), s \in BOOLEAN, t \in {"links", "points"}, k \in ConfIds \cup {Bad} :
        l = [answer |-> a, stale |-> s, then |-> t, link |-> k]
  BY <1>1, <1>2, ConfLoadIs DEF ConfLoads
<1>4. PICK f : f = <<served>>
  OBVIOUS
<1>5. PICK c : c = [l EXCEPT !.answer = f]
  OBVIOUS
<1>6. c = [answer |-> f, stale |-> s, then |-> t, link |-> k]
  BY ONLY <1>3, <1>5
<1>7. served \in ConfLists /\ ConfClean(served)
  BY DEF ConfInv, ConfWorld
<1>8. f \in Seq(ConfLists) /\ Len(f) = 1 /\ f[1] = served
  BY <1>4, <1>7, ConfSingle
<1>9. c \in ConfLoads /\ c.answer = f
  BY <1>6, <1>8 DEF ConfLoads
<1>10. ConfHeard(c, served)
  <2>1. Len(c.answer) = 1 /\ c.answer[1] = served
    BY <1>8, <1>9
  <2>2. QED
    BY <1>7, <2>1 DEF ConfHeard
<1>11. loading' = <<c>>
  BY <1>1, <1>2, <1>4, <1>5
<1>12. QED
  BY <1>1, <1>7, <1>9, <1>10, <1>11, ConfReadingKeeps

LEMMA ConfElsewhereKeeps == ASSUME ConfInv, Co!Elsewhere PROVE ConfInv'
<1>1. /\ served' \in {Co!normalize(f) : f \in ConfFiles}
      /\ loading' = [i \in DOMAIN loading |->
           [loading[i] EXCEPT !.stale = loading[i].answer # <<>>]]
      /\ apart' = TRUE /\ since' = TRUE
      /\ UNCHANGED <<mode, edited, view, at, draft, point, new, saving, crossed>>
  BY DEF Co!Elsewhere, Co!form
<1>2. served' \in ConfLists /\ ConfClean(served')
  <2>1. PICK f \in ConfFiles : served' = Co!normalize(f)
    BY <1>1
  <2>2. QED
    BY <2>1, ConfFile, ConfNormalIs
<1>3. CASE loading = <<>>
  <2>1. loading' = <<>>
    BY <1>1, <1>3
  <2>2. ConfPage'
    BY <1>1 DEF ConfInv, ConfPage
  <2>3. ConfWorld'
    BY <1>1, <1>2, <2>1, ConfNothing DEF ConfInv, ConfWorld
  <2>4. ConfCalls'
    <3>1. saving # <<>> => ConfBears(saving[1], ConfWrit(view, edited, at, point, new), since')
      BY <1>1 DEF ConfInv, ConfCalls, ConfBears
    <3>2. QED
      BY <1>1, <2>1, <3>1 DEF ConfInv, ConfCalls
  <2>5. ConfAgrees'
    BY <1>1 DEF ConfAgrees
  <2>6. QED
    BY <2>2, <2>3, <2>4, <2>5 DEF ConfInv
<1>4. CASE loading # <<>>
  <2>1. PICK l : l = loading[1]
    OBVIOUS
  <2>2. PICK a \in Seq(ConfLists), s \in BOOLEAN, t \in {"links", "points"}, k \in ConfIds \cup {Bad} :
          l = [answer |-> a, stale |-> s, then |-> t, link |-> k]
    BY <1>4, <2>1, ConfLoadIs DEF ConfLoads
  <2>3. PICK b : b = (a # <<>>)
    OBVIOUS
  <2>4. PICK c : c = [l EXCEPT !.stale = b]
    OBVIOUS
  <2>5. c = [answer |-> a, stale |-> b, then |-> t, link |-> k]
    BY ONLY <2>2, <2>4
  <2>6. b \in BOOLEAN /\ (b <=> a # <<>>)
    BY <2>3
  <2>7. c \in ConfLoads /\ c.answer = a /\ c.stale = b
    BY <2>2, <2>5, <2>6 DEF ConfLoads
  <2>8. ConfHeard(l, served) /\ l.answer = a
    BY <1>4, <2>1, <2>2, ConfLoadIs
  <2>9. ConfHeard(c, served')
    BY <2>6, <2>7, <2>8 DEF ConfHeard
  <2>10. loading' = <<c>>
    <3>1. [l EXCEPT !.stale = l.answer # <<>>] = c
      BY <2>3, <2>4, <2>8
    <3>2. loading' = [i \in {1} |-> c]
      BY <1>1, <1>4, <2>1, <3>1, ConfLoadIs
    <3>3. [i \in {1} |-> c] = <<c>>
      OBVIOUS
    <3>4. QED
      BY <3>2, <3>3
  <2>11. QED
    BY <1>1, <1>2, <1>4, <2>7, <2>9, <2>10, ConfReadingKeeps
<1>5. QED
  BY <1>3, <1>4

(* A list read replaces the one of the page.                               *)
LEMMA ConfLoadedIs ==
  ASSUME ConfInv, loading # <<>>, NEW list \in ConfLists, Co!Loaded(list), crossed' = TRUE
  PROVE  /\ ConfView1 /\ ConfWrit1 = list
         /\ UNCHANGED <<served, saving>> /\ loading' = <<>>
<1> DEFINE call == loading[1]
           place == Co!SelectInSeq(list, LAMBDA l : l.id = call.link)
<1>1. call.then \in {"links", "points"}
  BY ConfLoadIs DEF ConfLoads
<1>2. /\ loading' = <<>> /\ edited' = list
      /\ draft' = Co!NoLink /\ point' = Bad /\ new' = FALSE /\ UNCHANGED <<served, saving>>
      /\ IF view = "closed" THEN view' = view /\ at' = 0
         ELSE /\ at' = IF call.then = "points" THEN place ELSE 0
              /\ view' = IF call.then = "points" /\ place = 0 THEN "astray" ELSE call.then
  BY DEF Co!Loaded, Co!NoForm, Co!Shown, Co!Nowhere
<1>3. place \in 0..Len(list)
  <2> DEFINE I == {i \in 1..Len(list) : list[i].id = call.link}
  <2>1. place = IF I # {} THEN Co!Min(I) ELSE 0
    BY DEF Co!SelectInSeq
  <2>2. I # {} => Co!Min(I) \in I
    <3>1. I \subseteq Nat
      OBVIOUS
    <3> HIDE DEF I
    <3>2. ASSUME I # {} PROVE \E x \in I : \A y \in I : x <= y
      BY <3>1, <3>2, ConfLeast
    <3>3. QED
      BY <3>2 DEF Co!Min
  <2>3. Len(list) \in Nat
    BY DEF ConfLists
  <2> HIDE DEF place
  <2>4. CASE I = {}
    BY <2>1, <2>3, <2>4
  <2>5. CASE I # {}
    BY <2>1, <2>2, <2>3, <2>5
  <2>6. QED
    BY <2>4, <2>5
<1> HIDE DEF place
<1>4. at' \in 0..Len(edited') /\ Bad \in ConfPoints \cup {Bad}
  <2>1. Len(list) \in Nat
    BY DEF ConfLists
  <2>2. QED
    BY <1>2, <1>3, <2>1
<1>5. view' \in {"closed", "astray", "links", "points"} /\ (view' = "points" => at' # 0)
      /\ (view' \in {"links", "closed"} => at' = 0)
  BY <1>1, <1>2
<1>6. ConfView1
  BY <1>2, <1>4, <1>5, ConfFacts DEF ConfView1, ConfView
<1>7. ConfWrit1 = list
  BY <1>2, <1>5 DEF ConfWrit1, ConfWrit
<1>8. QED
  BY <1>2, <1>6, <1>7

LEMMA ConfLoadDoneKeeps == ASSUME ConfInv, Co!LoadDone PROVE ConfInv'
<1> DEFINE f == loading[1].answer[1]
<1>1. /\ loading # <<>> /\ loading[1].answer # <<>> /\ Co!Loaded(Co!normalize(f))
      /\ mode' = "server" /\ apart' = loading[1].stale /\ since' = apart' /\ crossed' = TRUE
  BY DEF Co!LoadDone
<1>2. f \in ConfLists /\ ConfClean(f) /\ (~loading[1].stale => f = served) /\ saving = <<>>
  BY <1>1, ConfLoadIs DEF ConfHeard
<1>3. Co!normalize(f) = f
  BY <1>2, ConfNormalIs
<1> HIDE DEF f
<1>4. /\ ConfView1 /\ ConfWrit1 = f
      /\ UNCHANGED <<served, saving>> /\ loading' = <<>>
  BY <1>1, <1>2, <1>3, ConfLoadedIs
<1>5. apart' \in BOOLEAN /\ since' \in BOOLEAN
  BY <1>1, ConfLoadIs DEF ConfLoads
<1>6. ConfPage'
  BY <1>1, <1>4, <1>5 DEF ConfPage, ConfView1
<1>7. ConfWorld'
  BY <1>2, <1>4, ConfNothing DEF ConfInv, ConfWorld
<1>8. ConfCalls'
  BY <1>2, <1>4 DEF ConfCalls
<1>9. ConfAgrees'
  <2>1. ~apart' => Co!normalize(ConfWrit1) = served'
    BY <1>1, <1>2, <1>3, <1>4
  <2>2. QED
    BY <2>1 DEF ConfAgrees, ConfWrit1, Co!normalize, Co!Kept, Co!FirstOfItsId
<1>10. QED
  BY <1>6, <1>7, <1>8, <1>9 DEF ConfInv

LEMMA ConfLoadFailedKeeps == ASSUME ConfInv, Co!LoadFailed PROVE ConfInv'
<1>1. /\ loading # <<>> /\ mode' = "local"
      /\ apart' = TRUE /\ since' = TRUE /\ crossed' = TRUE
      /\ \E kept \in {Co!normalize(f) : f \in ConfFiles} \cup {Co!Written} :
           Co!Loaded(IF kept = <<>> THEN DemoList ELSE kept)
  BY DEF Co!LoadFailed
<1>2. PICK kept \in {Co!normalize(f) : f \in ConfFiles} \cup {Co!Written} :
           Co!Loaded(IF kept = <<>> THEN DemoList ELSE kept)
  BY <1>1
<1>3. kept \in ConfLists
  <2>1. CASE kept = Co!Written
    BY <2>1, ConfFacts, ConfWritIs, ConfWrittenIs DEF ConfInv
  <2>2. ASSUME NEW f \in ConfFiles, kept = Co!normalize(f) PROVE kept \in ConfLists
    BY <2>2, ConfFile, ConfNormalIs
  <2>3. QED
    BY <2>1, <2>2
<1>4. DemoList \in ConfLists
  BY ConfigAssumption DEF ConfLists
<1>5. PICK list \in ConfLists : Co!Loaded(list)
  BY <1>2, <1>3, <1>4
<1>6. /\ ConfView1 /\ ConfWrit1 = list
      /\ UNCHANGED <<served, saving>> /\ loading' = <<>> /\ saving = <<>>
  BY <1>1, <1>5, ConfLoadedIs, ConfLoadIs
<1>7. ConfPage'
  BY <1>1, <1>6 DEF ConfPage, ConfView1
<1>8. ConfWorld'
  BY <1>6, ConfNothing DEF ConfInv, ConfWorld
<1>9. ConfCalls'
  BY <1>6 DEF ConfCalls
<1>10. ConfAgrees'
  BY <1>1 DEF ConfAgrees
<1>11. QED
  BY <1>7, <1>8, <1>9, <1>10 DEF ConfInv

LEMMA ConfInitInv == Co!Init => ConfInv
<1>1. SUFFICES ASSUME Co!Init PROVE ConfInv
  OBVIOUS
<1>2. PICK f \in ConfFiles : served = Co!normalize(f)
  BY <1>1 DEF Co!Init
<1>3. served \in ConfLists /\ ConfClean(served)
  BY <1>2, ConfFile, ConfNormalIs
<1>4. /\ mode = "server" /\ edited = served /\ view = "closed" /\ at = 0
      /\ draft = Co!NoLink /\ point = Bad /\ new = FALSE /\ saving = <<>> /\ loading = <<>>
      /\ apart = FALSE /\ since = FALSE /\ crossed = FALSE
  BY <1>1 DEF Co!Init, Co!Nowhere
<1>5. ConfPage
  <2>1. 0 \in 0..Len(edited)
    BY <1>3, <1>4 DEF ConfLists
  <2>2. Co!NoLink \in ConfDrafts
    BY DEF ConfDrafts, Co!NoLink
  <2>3. QED
    BY <1>3, <1>4, <2>1, <2>2 DEF ConfPage, ConfView
<1>6. ConfWorld
  BY <1>3, <1>4, ConfNothing DEF ConfWorld
<1>7. ConfCalls
  BY <1>4 DEF ConfCalls
<1>8. ConfAgrees
  <2>1. ConfWrit(view, edited, at, point, new) = served
    BY <1>4 DEF ConfWrit
  <2>2. Co!normalize(served) = served
    BY <1>3, ConfNormalIs
  <2>3. QED
    BY <2>1, <2>2 DEF ConfAgrees
<1>9. QED
  BY <1>5, <1>6, <1>7, <1>8 DEF ConfInv

LEMMA ConfStep == ConfInv /\ [Co!Next]_configVars => ConfInv'
<1>1. SUFFICES ASSUME ConfInv, [Co!Next]_configVars PROVE ConfInv'
  OBVIOUS
<1>2. CASE UNCHANGED configVars
  <2>1. UNCHANGED <<served, mode, edited, view, at, draft, point, new, saving, loading, apart, since, crossed>>
    BY <1>2 DEF configVars
  <2>2. ConfView1 /\ ConfWrit1 = ConfWrit0
    BY <1>1, <2>1, ConfFacts DEF ConfView1, ConfWrit1, ConfWrit0
  <2>3. saving # <<>> => ConfBack(saving[1], view', edited', at', crossed')
    BY <1>1, <2>1, ConfFacts
  <2>4. QED
    BY <1>1, <2>1, <2>2, <2>3, ConfFacts, ConfGesture
<1>3. CASE Co!Calls
  BY <1>1, <1>3, ConfSaveDoneKeeps, ConfSaveFailedKeeps, ConfLoadServedKeeps, ConfLoadDoneKeeps,
     ConfLoadFailedKeeps DEF Co!Calls
<1>4. CASE Co!Elsewhere
  BY <1>1, <1>4, ConfElsewhereKeeps
<1>5. CASE Co!Window
  <2>1. CASE \/ Co!Open \/ Co!Close \/ Co!NewLink \/ Co!Visit("link") \/ Co!Visit("points")
             \/ Co!TypeId \/ Co!Back \/ Co!NewPoint \/ Co!EditPoint \/ Co!TypePoint
    BY <1>1, <2>1, ConfOpenKeeps, ConfCloseKeeps, ConfNewLinkKeeps, ConfVisitKeeps, ConfTypeIdKeeps,
       ConfBackKeeps, ConfNewPointKeeps, ConfEditPointKeeps, ConfTypePointKeeps
  <2>2. CASE \/ Co!SaveLink("links") \/ Co!SaveLink("points") \/ Co!Toggle \/ Co!Delete
             \/ Co!importConfig \/ Co!ChangePoints \/ Co!SavePoint
    BY <1>1, <2>2, ConfSaveLinkKeeps, ConfListKeeps, ConfChangePointsKeeps, ConfSavePointKeeps
  <2>3. CASE Co!CancelLink \/ Co!CancelPoint
    BY <1>1, <2>3, ConfReadKeeps
  <2>4. QED
    BY <1>5, <2>1, <2>2, <2>3 DEF Co!Window
<1>6. QED
  BY <1>1, <1>2, <1>3, <1>4, <1>5 DEF Co!Next

\* The inductive invariant of the window of the links.
THEOREM WindowInvariant == Co!Spec => []ConfInv
<1>1. QED
  BY ConfInitInv, ConfStep, PTL DEF Co!Spec, Co!vars, configVars

LEMMA ConfHolds ==
  ASSUME ConfInv
  PROVE  Co!TypeOK /\ Co!Unambiguous /\ Co!ListIsLive
<1>1. Co!TypeOK
  BY ConfFacts DEF Co!TypeOK, Co!Nowhere, ConfInv, ConfWorld, ConfPage
<1>2. Co!Unambiguous
  <2>1. \A c \in ConfLists : ConfClean(c) => \A i \in DOMAIN c :
          /\ c[i].id # Bad /\ Bad \notin c[i].points
          /\ \A j \in DOMAIN c : c[i].id = c[j].id => i = j
    BY DEF ConfLists, ConfClean
  <2>2. served \in ConfLists /\ ConfClean(served)
    BY DEF ConfInv, ConfWorld
  <2>3. ASSUME NEW i \in DOMAIN saving
        PROVE  saving[i].config \in ConfLists /\ ConfClean(saving[i].config)
    <3>1. saving \in Seq(ConfSaves) /\ Len(saving) <= 1
      BY DEF ConfInv, ConfWorld
    <3>2. saving # <<>>
      BY <2>3
    <3>3. i = 1
      BY <3>1, <3>2, ConfAlone
    <3>4. QED
      BY <3>2, <3>3, ConfSaveIs
  <2>4. QED
    BY <2>1, <2>2, <2>3 DEF Co!Unambiguous
<1>3. Co!Agrees
  BY ConfWrittenIs DEF ConfInv, ConfAgrees, Co!Agrees
<1>4. Co!FormIsLive
  BY ConfFacts DEF Co!FormIsLive, Co!Nowhere
<1>5. QED
  BY <1>1, <1>2, <1>3, <1>4 DEF Co!ListIsLive

\* A behaviour of the window is one of Config.
LEMMA ConfPart == MCSpec => Co!Spec
<1>1. MCInit => Co!Init
  BY DEF MCInit
<1>2. [MCNext]_<<part, vars, windowVars, driverVars>> => [Co!Next]_(Co!vars)
  BY DEF MCNext, windowVars, configVars, Co!vars
<1>3. QED
  BY <1>1, <1>2, PTL DEF MCSpec, Co!Spec

\* No configuration that the page sends, and none that the controller keeps,
\* names two links or two points alike or holds a name not validated
\* (normalize of protocols.js, whoever calls it).
THEOREM NamesAreUnambiguous ==
  MCSpec => []Unambiguous
<1>1. ConfInv => Unambiguous
  BY ConfHolds DEF Unambiguous
<1>2. QED
  BY <1>1, ConfPart, WindowInvariant, PTL

\* What the page shows is what the controller holds, once nothing is under
\* way and no station or failure came between, and the form on screen is of a
\* link that the list still holds (P.save, P.load and the forms).
THEOREM FormsAreLive ==
  MCSpec => []ListIsLive
<1>1. ConfInv => ListIsLive
  BY ConfHolds DEF ListIsLive
<1>2. QED
  BY <1>1, ConfPart, WindowInvariant, PTL

-----------------------------------------------------------------------------
(* A session of IEC 104. Sequence numbers are remainders of counts.        *)

IecRem(n, m) == n % m
IecTimes(n, m) == n * m

LEMMA IecTimesIs ==
  ASSUME NEW m \in Nat \ {0}, NEW p \in Int, NEW q \in Int
  PROVE  /\ IecTimes(m, p) \in Int
         /\ IecTimes(m, p + 1) = IecTimes(m, p) + m
         /\ IecTimes(m, p - q) = IecTimes(m, p) - IecTimes(m, q)
         /\ IecTimes(m, 0) = 0 /\ IecTimes(m, 1) = m
BY Z3 DEF IecTimes

LEMMA IecRest ==
  ASSUME NEW n \in Int, NEW m \in Nat \ {0}
  PROVE  \E q \in Int : n = IecTimes(m, q) + IecRem(n, m) /\ IecRem(n, m) \in 0..(m - 1)
<1>1. IecRem(n, m) = n - IecTimes(m, n \div m)
  BY Z3 DEF IecRem, IecTimes
<1>2. n \div m \in Int /\ IecRem(n, m) \in 0..(m - 1)
  BY DEF IecRem
<1>3. IecTimes(m, n \div m) \in Int
  BY <1>2, IecTimesIs
<1>4. n = IecTimes(m, n \div m) + IecRem(n, m)
  BY <1>1, <1>2, <1>3
<1>5. QED
  BY <1>2, <1>4

LEMMA IecUnique ==
  ASSUME NEW m \in Nat \ {0}, NEW p \in Int, NEW q \in Int,
         NEW r \in 0..(m - 1), NEW s \in 0..(m - 1), IecTimes(m, p) + r = IecTimes(m, q) + s
  PROVE  p = q /\ r = s
BY Z3 DEF IecTimes

LEMMA IecRestIs ==
  ASSUME NEW m \in Nat \ {0}, NEW p \in Int, NEW r \in 0..(m - 1)
  PROVE  IecRem(IecTimes(m, p) + r, m) = r
<1>1. IecTimes(m, p) \in Int /\ IecTimes(m, p) + r \in Int
  <2>1. IecTimes(m, p) \in Int
    BY IecTimesIs
  <2>2. QED
    BY <2>1
<1>2. PICK q \in Int : /\ IecTimes(m, p) + r = IecTimes(m, q) + IecRem(IecTimes(m, p) + r, m)
                       /\ IecRem(IecTimes(m, p) + r, m) \in 0..(m - 1)
  BY <1>1, IecRest
<1>3. QED
  BY <1>2, IecUnique

LEMMA IecNext ==
  ASSUME NEW n \in Nat, NEW m \in Nat \ {0}
  PROVE  IecRem(IecRem(n, m) + 1, m) = IecRem(n + 1, m)
<1>1. PICK q \in Int : n = IecTimes(m, q) + IecRem(n, m) /\ IecRem(n, m) \in 0..(m - 1)
  <2>1. n \in Int
    OBVIOUS
  <2>2. QED
    BY <2>1, IecRest
<1>2. PICK r \in 0..(m - 1) : r = IecRem(n, m)
  BY <1>1
<1>3. /\ IecTimes(m, q) \in Int /\ IecTimes(m, q + 1) = IecTimes(m, q) + m
      /\ IecTimes(m, 0) = 0 /\ IecTimes(m, 1) = m
  BY IecTimesIs
<1>4. CASE r + 1 < m
  <2>1. r + 1 \in 0..(m - 1)
    BY <1>4
  <2>2. IecRem(IecTimes(m, q) + (r + 1), m) = r + 1
    BY <2>1, IecRestIs
  <2>3. IecRem(IecTimes(m, 0) + (r + 1), m) = r + 1
    <3>1. 0 \in Int
      OBVIOUS
    <3>2. QED
      BY <2>1, <3>1, IecRestIs
  <2>4. IecTimes(m, 0) + (r + 1) = r + 1 /\ n + 1 = IecTimes(m, q) + (r + 1)
    BY <1>1, <1>2, <1>3
  <2>5. QED
    BY <1>2, <2>2, <2>3, <2>4
<1>5. CASE r + 1 = m
  <2>1. IecRem(IecTimes(m, q + 1) + 0, m) = 0 /\ IecRem(IecTimes(m, 1) + 0, m) = 0
    <3>1. q + 1 \in Int /\ 1 \in Int /\ 0 \in 0..(m - 1)
      OBVIOUS
    <3>2. \A p \in Int : IecRem(IecTimes(m, p) + 0, m) = 0
      BY <3>1, IecRestIs
    <3>3. QED
      BY <3>1, <3>2
  <2>2. n + 1 = IecTimes(m, q + 1) + 0 /\ IecTimes(m, 1) + 0 = r + 1
    BY <1>1, <1>2, <1>3, <1>5
  <2>3. QED
    BY <1>2, <2>1, <2>2
<1>6. QED
  BY <1>4, <1>5

LEMMA IecGap ==
  ASSUME NEW m \in Nat \ {0}, NEW b \in Nat, NEW c \in Nat, b <= c, c - b < m
  PROVE  IecRem(IecRem(c, m) - IecRem(b, m), m) = c - b
<1> b \in Int /\ c \in Int
  OBVIOUS
<1>1. PICK p \in Int : b = IecTimes(m, p) + IecRem(b, m) /\ IecRem(b, m) \in 0..(m - 1)
  BY IecRest
<1>2. PICK q \in Int : c = IecTimes(m, q) + IecRem(c, m) /\ IecRem(c, m) \in 0..(m - 1)
  BY IecRest
<1>3. /\ IecTimes(m, p) \in Int /\ IecTimes(m, q) \in Int
      /\ IecTimes(m, p - q) = IecTimes(m, p) - IecTimes(m, q)
  BY IecTimesIs
<1>4. IecRem(c, m) - IecRem(b, m) = IecTimes(m, p - q) + (c - b)
  BY <1>1, <1>2, <1>3
<1>5. p - q \in Int /\ c - b \in 0..(m - 1)
  OBVIOUS
<1>6. QED
  BY <1>4, <1>5, IecRestIs

LEMMA IecSame ==
  ASSUME NEW m \in Nat \ {0}, NEW b \in Nat, NEW c \in Nat, b <= c, c - b < m
  PROVE  IecRem(b, m) = IecRem(c, m) <=> b = c
<1>1. IecRem(IecRem(c, m) - IecRem(b, m), m) = c - b
  BY IecGap
<1>2. IecRem(b, m) \in Int
  BY IecRest
<1>3. ASSUME IecRem(b, m) = IecRem(c, m) PROVE b = c
  <2>1. IecRem(c, m) - IecRem(b, m) = 0
    BY <1>2, <1>3
  <2>2. IecTimes(m, 0) = 0
    BY IecTimesIs
  <2>3. IecRem(IecTimes(m, 0) + 0, m) = 0
    <3>1. 0 \in Int /\ 0 \in 0..(m - 1)
      OBVIOUS
    <3>2. QED
      BY <3>1, IecRestIs
  <2>4. QED
    BY <1>1, <2>1, <2>2, <2>3
<1>4. QED
  BY <1>3

IecNum(n) == IecRem(n, Modulus)

LEMMA IecNumIs ==
  /\ \A n \in Nat : IecNum(n) \in 0..(Modulus - 1) /\ Iec!Next1(IecNum(n)) = IecNum(n + 1)
  /\ \A b, c \in Nat : b <= c /\ c - b <= IecK =>
       /\ (IecNum(c) - IecNum(b)) % Modulus = c - b
       /\ IecNum(b) = IecNum(c) <=> b = c
  /\ IecNum(0) = 0
<1> Modulus \in Nat \ {0} /\ IecK < Modulus /\ IecK \in Nat
  BY SessionAssumption
<1>1. ASSUME NEW n \in Nat
      PROVE  IecNum(n) \in 0..(Modulus - 1) /\ Iec!Next1(IecNum(n)) = IecNum(n + 1)
  <2>1. n \in Int
    OBVIOUS
  <2>2. IecRem(n, Modulus) \in 0..(Modulus - 1)
    BY <2>1, IecRest
  <2>3. IecRem(IecRem(n, Modulus) + 1, Modulus) = IecRem(n + 1, Modulus)
    BY IecNext
  <2>4. Iec!Next1(IecNum(n)) = IecRem(IecRem(n, Modulus) + 1, Modulus)
    BY DEF Iec!Next1, IecNum, IecRem
  <2>5. QED
    BY <2>2, <2>3, <2>4 DEF IecNum
<1>2. ASSUME NEW b \in Nat, NEW c \in Nat, b <= c, c - b <= IecK
      PROVE  /\ (IecNum(c) - IecNum(b)) % Modulus = c - b
             /\ IecNum(b) = IecNum(c) <=> b = c
  <2>1. c - b < Modulus
    BY <1>2
  <2>2. IecRem(IecRem(c, Modulus) - IecRem(b, Modulus), Modulus) = c - b
    BY <1>2, <2>1, IecGap
  <2>3. IecRem(b, Modulus) = IecRem(c, Modulus) <=> b = c
    BY <1>2, <2>1, IecSame
  <2>4. (IecNum(c) - IecNum(b)) % Modulus = IecRem(IecRem(c, Modulus) - IecRem(b, Modulus), Modulus)
    BY DEF IecNum, IecRem
  <2>5. QED
    BY <2>2, <2>3, <2>4 DEF IecNum
<1>3. IecNum(0) = 0
  BY DEF IecNum, IecRem
<1>4. QED
  BY <1>1, <1>2, <1>3

(* What is under way: the frames of information, numbered from the one     *)
(* that the driver awaits to the one that the station sends next, and the  *)
(* acknowledgements, which never go back.                                  *)
IecFrames(kinds) == [kind : kinds, ssn : 0..(Modulus - 1), rsn : 0..(Modulus - 1)]
IecDownFrames == IecFrames({"I", "EI", "STARTDT con", "TESTFR act", "TESTFR con"})
IecUpFrames == IecFrames({"S", "I", "STARTDT act", "TESTFR act", "TESTFR con"})
IecIsInfo(f) == f.kind \in {"I", "EI"}
IecIsAck(f) == f.kind \in {"S", "I"}

IecRising(e, n) == e \in [0..n -> Nat] /\ \A i, j \in 0..n : i <= j => e[i] <= e[j]
IecDown(e, q, b, c) ==
  /\ IecRising(e, Len(q)) /\ e[0] = b /\ e[Len(q)] = c
  /\ \A i \in 1..Len(q) :
       IF IecIsInfo(q[i]) THEN q[i].ssn = IecNum(e[i - 1]) /\ e[i] = e[i - 1] + 1
       ELSE e[i] = e[i - 1]
IecUp(e, q, b, c) ==
  /\ IecRising(e, Len(q)) /\ e[0] = b /\ e[Len(q)] = c
  /\ \A i \in 1..Len(q) : IF IecIsAck(q[i]) THEN q[i].rsn = IecNum(e[i]) ELSE e[i] = e[i - 1]
IecSpans(q, b, c) == \E e : IecDown(e, q, b, c)
IecAcks(q, b, c) == \E e : IecUp(e, q, b, c)

LEMMA IecRisingMore ==
  ASSUME NEW n \in Nat, NEW e, IecRising(e, n), NEW y \in Nat, e[n] <= y
  PROVE  \E g : IecRising(g, n + 1) /\ g[n + 1] = y /\ \A i \in 0..n : g[i] = e[i]
<1> DEFINE g == [i \in 0..(n + 1) |-> IF i = n + 1 THEN y ELSE e[i]]
<1>1. e \in [0..n -> Nat] /\ \A i, j \in 0..n : i <= j => e[i] <= e[j]
  BY DEF IecRising
<1>2. g[n + 1] = y /\ \A i \in 0..n : g[i] = e[i]
  OBVIOUS
<1>3. g \in [0..(n + 1) -> Nat]
  BY <1>1
<1> HIDE DEF g
<1>4. \A i \in 0..(n + 1) : i = n + 1 \/ i \in 0..n
  OBVIOUS
<1>5. \A i \in 0..n : e[i] \in Nat /\ e[i] <= e[n]
  BY <1>1
<1>6. ASSUME NEW i \in 0..(n + 1), NEW j \in 0..(n + 1), i <= j PROVE g[i] <= g[j]
  <2>1. CASE j = n + 1 /\ i = n + 1
    BY <1>2, <2>1
  <2>2. CASE j = n + 1 /\ i \in 0..n
    BY <1>2, <1>5, <2>2
  <2>3. CASE j \in 0..n
    <3>1. i \in 0..n
      BY <1>6, <2>3
    <3>2. QED
      BY <1>1, <1>2, <1>6, <2>3, <3>1
  <2>4. QED
    BY <1>4, <2>1, <2>2, <2>3
<1>7. QED
  BY <1>2, <1>3, <1>6 DEF IecRising

IecFrom(g, e, n, k) == IecRising(g, n - k) /\ \A i \in 0..(n - k) : g[i] = e[i + k]

LEMMA IecRisingRest ==
  ASSUME NEW n \in Nat, NEW e, IecRising(e, n), NEW k \in 0..n
  PROVE  \E g : IecFrom(g, e, n, k)
<1> DEFINE g == [i \in 0..(n - k) |-> e[i + k]]
<1>1. e \in [0..n -> Nat] /\ \A i, j \in 0..n : i <= j => e[i] <= e[j]
  BY DEF IecRising
<1>2. \A i \in 0..(n - k) : i + k \in 0..n
  OBVIOUS
<1>3. \A i \in 0..(n - k) : g[i] = e[i + k]
  OBVIOUS
<1>4. g \in [0..(n - k) -> Nat]
  BY <1>1, <1>2
<1>5. \A i, j \in 0..(n - k) : i <= j => g[i] <= g[j]
  BY <1>1, <1>2, <1>3
<1>6. QED
  BY <1>3, <1>4, <1>5 DEF IecRising, IecFrom

LEMMA IecDownMore ==
  ASSUME NEW S, NEW q \in Seq(S), NEW b, NEW c \in Nat, NEW f \in S, IecSpans(q, b, c)
  PROVE  /\ IecIsInfo(f) /\ f.ssn = IecNum(c) => IecSpans(Append(q, f), b, c + 1)
         /\ ~IecIsInfo(f) => IecSpans(Append(q, f), b, c)
<1>1. PICK e : IecDown(e, q, b, c)
  BY DEF IecSpans
<1>2. PICK n \in Nat : n = Len(q)
  OBVIOUS
<1>3. /\ IecRising(e, n) /\ e[0] = b /\ e[n] = c
      /\ \A i \in 1..n : IF IecIsInfo(q[i]) THEN q[i].ssn = IecNum(e[i - 1]) /\ e[i] = e[i - 1] + 1
                         ELSE e[i] = e[i - 1]
  BY <1>1, <1>2 DEF IecDown
<1> DEFINE p == Append(q, f)
<1>4. Len(p) = n + 1 /\ p[n + 1] = f /\ \A i \in 1..n : p[i] = q[i]
  BY <1>2
<1> HIDE DEF p
<1>5. ASSUME NEW y \in {c, c + 1},
             IF IecIsInfo(f) THEN f.ssn = IecNum(c) /\ y = c + 1 ELSE y = c
      PROVE  IecSpans(p, b, y)
  <2>1. y \in Nat /\ e[n] <= y
    BY <1>3
  <2>2. PICK g : IecRising(g, n + 1) /\ g[n + 1] = y /\ \A i \in 0..n : g[i] = e[i]
    BY <1>3, <2>1, IecRisingMore
  <2>3. g[0] = b /\ g[n] = c
    BY <1>3, <2>2
  <2>4. ASSUME NEW i \in 1..(n + 1)
        PROVE  IF IecIsInfo(p[i]) THEN p[i].ssn = IecNum(g[i - 1]) /\ g[i] = g[i - 1] + 1
               ELSE g[i] = g[i - 1]
    <3>1. CASE i = n + 1
      <4>1. i - 1 = n
        BY <3>1
      <4>2. p[i] = f /\ g[i - 1] = c /\ g[i] = y
        BY <1>4, <2>2, <2>3, <3>1, <4>1
      <4>3. QED
        BY <1>5, <4>2
    <3>2. CASE i \in 1..n
      <4>1. i - 1 \in 0..n /\ i \in 0..n
        BY <3>2
      <4>2. g[i] = e[i] /\ g[i - 1] = e[i - 1] /\ p[i] = q[i]
        BY <1>4, <2>2, <3>2, <4>1
      <4>3. QED
        BY <1>3, <3>2, <4>2
    <3>3. QED
      BY <3>1, <3>2
  <2>5. IecDown(g, p, b, y)
    BY <1>4, <2>2, <2>3, <2>4 DEF IecDown
  <2>6. QED
    BY <2>5 DEF IecSpans
<1>6. QED
  BY <1>5 DEF p

LEMMA IecDownRest ==
  ASSUME NEW S, NEW q \in Seq(S), NEW b, NEW c, NEW e, IecDown(e, q, b, c), NEW k \in 0..Len(q)
  PROVE  IecSpans(SubSeq(q, k + 1, Len(q)), e[k], c)
<1>1. PICK n \in Nat : n = Len(q)
  OBVIOUS
<1>2. /\ IecRising(e, n) /\ e[n] = c
      /\ \A i \in 1..n : IF IecIsInfo(q[i]) THEN q[i].ssn = IecNum(e[i - 1]) /\ e[i] = e[i - 1] + 1
                         ELSE e[i] = e[i - 1]
  BY <1>1 DEF IecDown
<1>3. PICK g : IecRising(g, n - k) /\ \A i \in 0..(n - k) : g[i] = e[i + k]
  <2>1. k \in 0..n
    BY <1>1
  <2>2. PICK g : IecFrom(g, e, n, k)
    BY <1>2, <2>1, IecRisingRest
  <2>3. QED
    BY <2>2 DEF IecFrom
<1> DEFINE p == SubSeq(q, k + 1, Len(q))
<1>4. Len(p) = n - k /\ \A i \in 1..(n - k) : p[i] = q[i + k]
  BY <1>1
<1> HIDE DEF p
<1>5. n - k \in Nat /\ 0 \in 0..(n - k) /\ n - k \in 0..(n - k) /\ (n - k) + k = n /\ 0 + k = k
  BY <1>1
<1>6. g[0] = e[k] /\ g[n - k] = c
  BY <1>2, <1>3, <1>5
<1>7. ASSUME NEW i \in 1..(n - k)
      PROVE  IF IecIsInfo(p[i]) THEN p[i].ssn = IecNum(g[i - 1]) /\ g[i] = g[i - 1] + 1
             ELSE g[i] = g[i - 1]
  <2>1. i + k \in 1..n /\ i \in 0..(n - k) /\ i - 1 \in 0..(n - k) /\ (i - 1) + k = (i + k) - 1
    BY <1>1
  <2>2. g[i] = e[i + k] /\ g[i - 1] = e[(i + k) - 1] /\ p[i] = q[i + k]
    BY <1>3, <1>4, <2>1
  <2>3. QED
    BY <1>2, <2>1, <2>2
<1>8. IecDown(g, p, e[k], c)
  BY <1>3, <1>4, <1>6, <1>7 DEF IecDown
<1>9. QED
  BY <1>8 DEF IecSpans, p

LEMMA IecUpMore ==
  ASSUME NEW S, NEW q \in Seq(S), NEW b, NEW c \in Nat, NEW f \in S, IecAcks(q, b, c),
         NEW y \in Nat, c <= y, IF IecIsAck(f) THEN f.rsn = IecNum(y) ELSE y = c
  PROVE  IecAcks(Append(q, f), b, y)
<1>1. PICK e : IecUp(e, q, b, c)
  BY DEF IecAcks
<1>2. PICK n \in Nat : n = Len(q)
  OBVIOUS
<1>3. /\ IecRising(e, n) /\ e[0] = b /\ e[n] = c
      /\ \A i \in 1..n : IF IecIsAck(q[i]) THEN q[i].rsn = IecNum(e[i]) ELSE e[i] = e[i - 1]
  BY <1>1, <1>2 DEF IecUp
<1> DEFINE p == Append(q, f)
<1>4. Len(p) = n + 1 /\ p[n + 1] = f /\ \A i \in 1..n : p[i] = q[i]
  BY <1>2
<1> HIDE DEF p
<1>5. PICK g : IecRising(g, n + 1) /\ g[n + 1] = y /\ \A i \in 0..n : g[i] = e[i]
  BY <1>3, IecRisingMore
<1>6. g[0] = b /\ g[n] = c
  BY <1>3, <1>5
<1>7. ASSUME NEW i \in 1..(n + 1)
      PROVE  IF IecIsAck(p[i]) THEN p[i].rsn = IecNum(g[i]) ELSE g[i] = g[i - 1]
  <2>1. CASE i = n + 1
    <3>1. i - 1 = n
      BY <2>1
    <3>2. p[i] = f /\ g[i - 1] = c /\ g[i] = y
      BY <1>4, <1>5, <1>6, <2>1, <3>1
    <3>3. QED
      BY <3>2
  <2>2. CASE i \in 1..n
    <3>1. i - 1 \in 0..n /\ i \in 0..n
      BY <2>2
    <3>2. g[i] = e[i] /\ g[i - 1] = e[i - 1] /\ p[i] = q[i]
      BY <1>4, <1>5, <2>2, <3>1
    <3>3. QED
      BY <1>3, <2>2, <3>2
  <2>3. QED
    BY <2>1, <2>2
<1>8. IecUp(g, p, b, y)
  BY <1>4, <1>5, <1>6, <1>7 DEF IecUp
<1>9. QED
  BY <1>8 DEF IecAcks, p

\* The station reads the oldest frame sent to it.
LEMMA IecUpRest ==
  ASSUME NEW S, NEW q \in Seq(S), q # <<>>, NEW b \in Nat, NEW c \in Nat, IecAcks(q, b, c)
  PROVE  \E y \in Nat : /\ b <= y /\ y <= c /\ IecAcks(Tail(q), y, c)
                        /\ IF IecIsAck(Head(q)) THEN Head(q).rsn = IecNum(y) ELSE y = b
<1>1. PICK e : IecUp(e, q, b, c)
  BY DEF IecAcks
<1>2. PICK n \in Nat : n = Len(q) /\ n # 0
  OBVIOUS
<1>3. /\ IecRising(e, n) /\ e[0] = b /\ e[n] = c
      /\ \A i \in 1..n : IF IecIsAck(q[i]) THEN q[i].rsn = IecNum(e[i]) ELSE e[i] = e[i - 1]
  BY <1>1, <1>2 DEF IecUp
<1>4. PICK g : IecRising(g, n - 1) /\ \A i \in 0..(n - 1) : g[i] = e[i + 1]
  <2>1. 1 \in 0..n
    BY <1>2
  <2>2. PICK g : IecFrom(g, e, n, 1)
    BY <1>2, <1>3, <2>1, IecRisingRest
  <2>3. QED
    BY <2>2 DEF IecFrom
<1> DEFINE p == Tail(q)
<1>5. Len(p) = n - 1 /\ \A i \in 1..(n - 1) : p[i] = q[i + 1]
  BY <1>2
<1> HIDE DEF p
<1>6. n - 1 \in Nat /\ 0 \in 0..(n - 1) /\ n - 1 \in 0..(n - 1) /\ (n - 1) + 1 = n /\ 0 + 1 = 1
  BY <1>2
<1>7. g[0] = e[1] /\ g[n - 1] = c
  BY <1>3, <1>4, <1>6
<1>8. ASSUME NEW i \in 1..(n - 1)
      PROVE  IF IecIsAck(p[i]) THEN p[i].rsn = IecNum(g[i]) ELSE g[i] = g[i - 1]
  <2>1. i + 1 \in 1..n /\ i \in 0..(n - 1) /\ i - 1 \in 0..(n - 1) /\ (i - 1) + 1 = (i + 1) - 1
    BY <1>2
  <2>2. g[i] = e[i + 1] /\ g[i - 1] = e[(i + 1) - 1] /\ p[i] = q[i + 1]
    BY <1>4, <1>5, <2>1
  <2>3. QED
    BY <1>3, <2>1, <2>2
<1>9. IecUp(g, p, e[1], c)
  BY <1>4, <1>5, <1>7, <1>8 DEF IecUp
<1>10. e[1] \in Nat /\ b <= e[1] /\ e[1] <= c
  BY <1>2, <1>3 DEF IecRising
<1>11. IF IecIsAck(Head(q)) THEN Head(q).rsn = IecNum(e[1]) ELSE e[1] = b
  <2>1. Head(q) = q[1] /\ 1 \in 1..n /\ 1 - 1 = 0
    BY <1>2
  <2>2. QED
    BY <1>3, <2>1
<1>12. QED
  BY <1>9, <1>10, <1>11 DEF IecAcks, p

LEMMA IecAcksRise ==
  ASSUME NEW S, NEW q \in Seq(S), NEW b, NEW c, IecAcks(q, b, c)
  PROVE  b \in Nat /\ c \in Nat /\ b <= c /\ (q = <<>> => b = c)
<1>1. PICK e : IecUp(e, q, b, c)
  BY DEF IecAcks
<1>2. Len(q) \in Nat
  OBVIOUS
<1>3. QED
  BY <1>1, <1>2 DEF IecUp, IecRising

LEMMA IecSpansRise ==
  ASSUME NEW S, NEW q \in Seq(S), NEW b, NEW c, IecSpans(q, b, c)
  PROVE  b \in Nat /\ c \in Nat /\ b <= c /\ (q = <<>> => b = c)
<1>1. PICK e : IecDown(e, q, b, c)
  BY DEF IecSpans
<1>2. Len(q) \in Nat
  OBVIOUS
<1>3. QED
  BY <1>1, <1>2 DEF IecDown, IecRising

LEMMA IecNothing == IecAcks(<<>>, 0, 0) /\ IecSpans(<<>>, 0, 0)
<1> DEFINE e == [i \in 0..0 |-> 0]
<1>1. IecRising(e, 0) /\ e[0] = 0
  BY DEF IecRising
<1> HIDE DEF e
<1>2. Len(<<>>) = 0 /\ 1..0 = {}
  OBVIOUS
<1>3. IecUp(e, <<>>, 0, 0) /\ IecDown(e, <<>>, 0, 0)
  BY <1>1, <1>2 DEF IecUp, IecDown
<1>4. QED
  BY <1>3 DEF IecAcks, IecSpans

-----------------------------------------------------------------------------
(* A reading in progress: u, f, o are what the driver owes, since when, and *)
(* what it has sent, y the frames that it has counted; w is what was under  *)
(* way to the station, b what this one knows to be acknowledged and c the   *)
(* age of what is not; h says that the driver forgot frames when it opened. *)

IecAge == {None} \cup Nat
IecTold(o) == \E k \in 1..Len(o) : o[k].kind \in {"S", "I"}
IecTimed(u, f, x, y, b, c, h) ==
  /\ f # None => u # 0
  /\ ~h /\ f = None => x = y
  /\ ~h /\ b = x /\ f # None /\ c # None => c <= f
IecFresh(y, b, c) == b = y /\ c # None => c = 0
IecHalf(u, f, o, y, w, b, c, h) ==
  /\ o \in Seq(IecUpFrames)
  /\ \E x \in Nat : /\ b <= x /\ x <= y /\ IecAcks(w \o o, b, x)
                    /\ IecTimed(u, f, x, y, b, c, h /\ ~IecTold(o))
IecReading(x, u, f, s, t, b, o) ==
  [drv |-> [rx |-> x, unacked |-> u, first |-> f, silent |-> s, test |-> t, started |-> b],
   out |-> o, wrong |-> FALSE]

LEMMA IecToldMore ==
  ASSUME NEW o \in Seq(IecUpFrames), NEW f \in IecUpFrames
  PROVE  /\ Append(o, f) \in Seq(IecUpFrames)
         /\ IecTold(Append(o, f)) <=> IecTold(o) \/ IecIsAck(f)
<1>1. PICK n \in Nat : n = Len(o)
  OBVIOUS
<1> DEFINE p == Append(o, f)
<1>2. p \in Seq(IecUpFrames) /\ Len(p) = n + 1 /\ p[n + 1] = f /\ \A i \in 1..n : p[i] = o[i]
  BY <1>1
<1> HIDE DEF p
<1>3. \A i \in 1..(n + 1) : i = n + 1 \/ i \in 1..n
  OBVIOUS
<1>4. IecTold(p) <=> IecTold(o) \/ IecIsAck(f)
  BY <1>1, <1>2, <1>3 DEF IecTold, IecIsAck
<1>5. QED
  BY <1>2, <1>4 DEF p

LEMMA IecSend ==
  ASSUME NEW o \in Seq(IecUpFrames), NEW w \in Seq(IecUpFrames), NEW f \in IecUpFrames,
         NEW b \in Nat, NEW x \in Nat, NEW y \in Nat, IecAcks(w \o o, b, x), x < y \/ x = y,
         IF IecIsAck(f) THEN f.rsn = IecNum(y) ELSE y = x
  PROVE  IecAcks(w \o Append(o, f), b, y)
<1>1. w \o o \in Seq(IecUpFrames)
  OBVIOUS
<1>2. w \o Append(o, f) = Append(w \o o, f)
  OBVIOUS
<1>3. x <= y
  BY <1>1
<1>4. IecAcks(Append(w \o o, f), b, y)
  BY <1>1, <1>3, IecUpMore
<1>5. QED
  BY <1>2, <1>4

LEMMA IecUpFrame ==
  ASSUME NEW y \in Nat
  PROVE  /\ \A k \in {"S", "I"} : /\ Iec!Frame(k, 0, IecNum(y)) \in IecUpFrames
                                  /\ IecIsAck(Iec!Frame(k, 0, IecNum(y)))
                                  /\ Iec!Frame(k, 0, IecNum(y)).rsn = IecNum(y)
         /\ \A k \in {"STARTDT act", "TESTFR act", "TESTFR con"} :
              Iec!U(k) \in IecUpFrames /\ ~IecIsAck(Iec!U(k))
<1>1. IecNum(y) \in 0..(Modulus - 1) /\ 0 \in 0..(Modulus - 1)
  BY SessionAssumption, IecNumIs
<1>2. PICK n \in 0..(Modulus - 1) : n = IecNum(y)
  BY <1>1
<1>3. ASSUME NEW k \in {"S", "I"}
      PROVE  /\ Iec!Frame(k, 0, n) \in IecUpFrames /\ IecIsAck(Iec!Frame(k, 0, n))
             /\ Iec!Frame(k, 0, n).rsn = n
  BY <1>1 DEF Iec!Frame, IecUpFrames, IecFrames, IecIsAck
<1>4. ASSUME NEW k \in {"STARTDT act", "TESTFR act", "TESTFR con"}
      PROVE  Iec!U(k) \in IecUpFrames /\ ~IecIsAck(Iec!U(k))
  BY <1>1 DEF Iec!U, Iec!Frame, IecUpFrames, IecFrames, IecIsAck
<1>5. QED
  BY <1>2, <1>3, <1>4

LEMMA IecHalfTake ==
  ASSUME NEW u \in Nat, NEW f \in IecAge, NEW o, NEW y \in Nat, NEW w, NEW b \in Nat, NEW c \in IecAge, NEW h \in BOOLEAN,
         IecHalf(u, f, o, y, w, b, c, h), IecFresh(y, b, c)
  PROVE  IecHalf(u + 1, IF f = None THEN 0 ELSE f, o, y + 1, w, b, c, h)
<1> DEFINE g == IF f = None THEN 0 ELSE f
<1> None \notin Nat
  BY SessionAssumption
<1>1. PICK x \in Nat : /\ b <= x /\ x <= y /\ IecAcks(w \o o, b, x)
                       /\ IecTimed(u, f, x, y, b, c, h /\ ~IecTold(o))
  BY DEF IecHalf
<1>2. g # None /\ (f # None => g = f) /\ (f = None => g = 0)
  BY DEF IecAge
<1> HIDE DEF g
<1>3. u + 1 # 0 /\ x <= y + 1
  BY <1>1
<1>4. IecTimed(u + 1, g, x, y + 1, b, c, h /\ ~IecTold(o))
  BY <1>1, <1>2, <1>3 DEF IecTimed, IecFresh
<1>5. QED
  BY <1>1, <1>3, <1>4 DEF IecHalf, g

LEMMA IecHalfI ==
  ASSUME NEW u \in Nat, NEW f \in IecAge, NEW o, NEW y \in Nat, NEW w \in Seq(IecUpFrames),
         NEW b \in Nat, NEW c \in IecAge, NEW h \in BOOLEAN,
         IecHalf(u, f, o, y, w, b, c, h), IecFresh(y, b, c)
  PROVE  /\ IecHalf(u, f, Append(o, Iec!Frame("I", 0, IecNum(y))), y, w, b, c, h)
         /\ IecHalf(u, f, Append(o, Iec!Frame("I", 0, IecNum(y))), y, w, b, c, FALSE)
<1>1. PICK x \in Nat : /\ b <= x /\ x <= y /\ IecAcks(w \o o, b, x)
                       /\ IecTimed(u, f, x, y, b, c, h /\ ~IecTold(o))
  BY DEF IecHalf
<1>2. PICK g \in IecUpFrames : /\ g = Iec!Frame("I", 0, IecNum(y))
                               /\ IecIsAck(g) /\ g.rsn = IecNum(y)
  BY IecUpFrame
<1>3. o \in Seq(IecUpFrames)
  BY DEF IecHalf
<1>4. Append(o, g) \in Seq(IecUpFrames) /\ IecTold(Append(o, g))
  BY <1>2, <1>3, IecToldMore
<1>5. IecAcks(w \o Append(o, g), b, y)
  <2>1. x < y \/ x = y
    BY <1>1
  <2>2. QED
    BY <1>1, <1>2, <1>3, <2>1, IecSend
<1>6. \A k : IecTimed(u, f, y, y, b, c, k)
  BY <1>1, SessionAssumption DEF IecTimed, IecFresh, IecAge
<1>7. b <= y /\ y <= y
  BY <1>1
<1>8. QED
  BY <1>2, <1>4, <1>5, <1>6, <1>7 DEF IecHalf

LEMMA IecHalfS ==
  ASSUME NEW u \in Nat, NEW f \in IecAge, NEW o, NEW y \in Nat, NEW w \in Seq(IecUpFrames),
         NEW b \in Nat, NEW c \in IecAge, NEW h \in BOOLEAN,
         IecHalf(u, f, o, y, w, b, c, h)
  PROVE  IecHalf(0, None, Append(o, Iec!Frame("S", 0, IecNum(y))), y, w, b, c, h)
<1>1. PICK x \in Nat : b <= x /\ x <= y /\ IecAcks(w \o o, b, x)
  BY DEF IecHalf
<1>2. PICK g \in IecUpFrames : /\ g = Iec!Frame("S", 0, IecNum(y))
                               /\ IecIsAck(g) /\ g.rsn = IecNum(y)
  BY IecUpFrame
<1>3. o \in Seq(IecUpFrames)
  BY DEF IecHalf
<1>4. Append(o, g) \in Seq(IecUpFrames)
  BY <1>2, <1>3, IecToldMore
<1>5. IecAcks(w \o Append(o, g), b, y)
  <2>1. x < y \/ x = y
    BY <1>1
  <2>2. QED
    BY <1>1, <1>2, <1>3, <2>1, IecSend
<1>6. IecTimed(0, None, y, y, b, c, h /\ ~IecTold(Append(o, g)))
  BY DEF IecTimed
<1>7. b <= y /\ y <= y
  BY <1>1
<1>8. QED
  BY <1>2, <1>4, <1>5, <1>6, <1>7 DEF IecHalf

LEMMA IecHalfU ==
  ASSUME NEW u \in Nat, NEW f \in IecAge, NEW o, NEW y \in Nat, NEW w \in Seq(IecUpFrames),
         NEW b \in Nat, NEW c \in IecAge, NEW h \in BOOLEAN,
         IecHalf(u, f, o, y, w, b, c, h), NEW k \in {"TESTFR act", "TESTFR con"}
  PROVE  /\ IecHalf(u, f, Append(o, Iec!U(k)), y, w, b, c, h)
         /\ IecTold(Append(o, Iec!U(k))) <=> IecTold(o)
<1>1. PICK x \in Nat : /\ b <= x /\ x <= y /\ IecAcks(w \o o, b, x)
                       /\ IecTimed(u, f, x, y, b, c, h /\ ~IecTold(o))
  BY DEF IecHalf
<1>2. PICK g \in IecUpFrames : g = Iec!U(k) /\ ~IecIsAck(g)
  BY IecUpFrame
<1>3. o \in Seq(IecUpFrames)
  BY DEF IecHalf
<1>4. Append(o, g) \in Seq(IecUpFrames) /\ (IecTold(Append(o, g)) <=> IecTold(o))
  BY <1>2, <1>3, IecToldMore
<1>5. IecAcks(w \o Append(o, g), b, x)
  <2>1. x = x
    OBVIOUS
  <2>2. QED
    BY <1>1, <1>2, <1>3, <2>1, IecSend
<1>6. IecTimed(u, f, x, y, b, c, h /\ ~IecTold(Append(o, g)))
  BY <1>1, <1>4 DEF IecTimed
<1>7. QED
  BY <1>1, <1>2, <1>4, <1>5, <1>6 DEF IecHalf

(* What the driver does of a frame, part by part.                          *)
LEMMA IecReadingHas ==
  ASSUME NEW x, NEW u, NEW f, NEW s, NEW t, NEW b, NEW o
  PROVE  /\ IecReading(x, u, f, s, t, b, o).out = o
         /\ IecReading(x, u, f, s, t, b, o).drv.rx = x
         /\ IecReading(x, u, f, s, t, b, o).drv.unacked = u
         /\ IecReading(x, u, f, s, t, b, o).drv.first = f
         /\ IecReading(x, u, f, s, t, b, o).drv.silent = s
         /\ IecReading(x, u, f, s, t, b, o).drv.test = t
         /\ IecReading(x, u, f, s, t, b, o).drv.started = b
<1>1. PICK r : r = IecReading(x, u, f, s, t, b, o)
  OBVIOUS
<1>2. PICK d : d = [rx |-> x, unacked |-> u, first |-> f, silent |-> s, test |-> t, started |-> b]
  OBVIOUS
<1>3. r.out = o /\ r.drv = d
  BY <1>1, <1>2 DEF IecReading
<1>4. d.rx = x /\ d.unacked = u /\ d.first = f /\ d.silent = s /\ d.test = t /\ d.started = b
  BY <1>2
<1>5. QED
  BY <1>1, <1>3, <1>4

LEMMA IecReadingDrv ==
  ASSUME NEW x, NEW u, NEW f, NEW s, NEW t, NEW b, NEW o
  PROVE  /\ IecReading(x, u, f, s, t, b, o).drv =
              [rx |-> x, unacked |-> u, first |-> f, silent |-> s, test |-> t, started |-> b]
         /\ ~IecReading(x, u, f, s, t, b, o).wrong
BY DEF IecReading

IecSetRx(r, v) == [r EXCEPT !.drv.rx = v]
IecSetUnacked(r, v) == [r EXCEPT !.drv.unacked = v]
IecSetFirst(r, v) == [r EXCEPT !.drv.first = v]
IecSetSilent(r, v) == [r EXCEPT !.drv.silent = v]
IecSetTest(r, v) == [r EXCEPT !.drv.test = v]
IecSetStarted(r, v) == [r EXCEPT !.drv.started = v]
IecSetOut(r, v) == [r EXCEPT !.out = v]

LEMMA IecField ==
  ASSUME NEW x, NEW u, NEW f, NEW s, NEW t, NEW b, NEW o, NEW r, NEW v,
         r = IecReading(x, u, f, s, t, b, o)
  PROVE  /\ IecSetRx(r, v) = IecReading(v, u, f, s, t, b, o)
         /\ IecSetUnacked(r, v) = IecReading(x, v, f, s, t, b, o)
         /\ IecSetFirst(r, v) = IecReading(x, u, v, s, t, b, o)
         /\ IecSetSilent(r, v) = IecReading(x, u, f, v, t, b, o)
         /\ IecSetTest(r, v) = IecReading(x, u, f, s, v, b, o)
         /\ IecSetStarted(r, v) = IecReading(x, u, f, s, t, v, o)
         /\ IecSetOut(r, v) = IecReading(x, u, f, s, t, b, v)
<1>1. PICK d : d = [rx |-> x, unacked |-> u, first |-> f, silent |-> s, test |-> t, started |-> b]
  OBVIOUS
<1>2. PICK z : z = FALSE
  OBVIOUS
<1>3. r = [drv |-> d, out |-> o, wrong |-> z]
  BY <1>1, <1>2 DEF IecReading
<1>4. IecSetRx(r, v) = IecReading(v, u, f, s, t, b, o)
  <2>1. [r EXCEPT !.drv.rx = v] = [drv |-> [d EXCEPT !.rx = v], out |-> o, wrong |-> z]
    BY ONLY <1>3
  <2>2. [d EXCEPT !.rx = v] = [rx |-> v, unacked |-> u, first |-> f, silent |-> s, test |-> t, started |-> b]
    BY ONLY <1>1
  <2>3. QED
    BY <1>2, <2>1, <2>2 DEF IecReading, IecSetRx
<1>5. IecSetUnacked(r, v) = IecReading(x, v, f, s, t, b, o)
  <2>1. [r EXCEPT !.drv.unacked = v] = [drv |-> [d EXCEPT !.unacked = v], out |-> o, wrong |-> z]
    BY ONLY <1>3
  <2>2. [d EXCEPT !.unacked = v] = [rx |-> x, unacked |-> v, first |-> f, silent |-> s, test |-> t, started |-> b]
    BY ONLY <1>1
  <2>3. QED
    BY <1>2, <2>1, <2>2 DEF IecReading, IecSetUnacked
<1>6. IecSetFirst(r, v) = IecReading(x, u, v, s, t, b, o)
  <2>1. [r EXCEPT !.drv.first = v] = [drv |-> [d EXCEPT !.first = v], out |-> o, wrong |-> z]
    BY ONLY <1>3
  <2>2. [d EXCEPT !.first = v] = [rx |-> x, unacked |-> u, first |-> v, silent |-> s, test |-> t, started |-> b]
    BY ONLY <1>1
  <2>3. QED
    BY <1>2, <2>1, <2>2 DEF IecReading, IecSetFirst
<1>7. IecSetSilent(r, v) = IecReading(x, u, f, v, t, b, o)
  <2>1. [r EXCEPT !.drv.silent = v] = [drv |-> [d EXCEPT !.silent = v], out |-> o, wrong |-> z]
    BY ONLY <1>3
  <2>2. [d EXCEPT !.silent = v] = [rx |-> x, unacked |-> u, first |-> f, silent |-> v, test |-> t, started |-> b]
    BY ONLY <1>1
  <2>3. QED
    BY <1>2, <2>1, <2>2 DEF IecReading, IecSetSilent
<1>8. IecSetTest(r, v) = IecReading(x, u, f, s, v, b, o)
  <2>1. [r EXCEPT !.drv.test = v] = [drv |-> [d EXCEPT !.test = v], out |-> o, wrong |-> z]
    BY ONLY <1>3
  <2>2. [d EXCEPT !.test = v] = [rx |-> x, unacked |-> u, first |-> f, silent |-> s, test |-> v, started |-> b]
    BY ONLY <1>1
  <2>3. QED
    BY <1>2, <2>1, <2>2 DEF IecReading, IecSetTest
<1>9. IecSetStarted(r, v) = IecReading(x, u, f, s, t, v, o)
  <2>1. [r EXCEPT !.drv.started = v] = [drv |-> [d EXCEPT !.started = v], out |-> o, wrong |-> z]
    BY ONLY <1>3
  <2>2. [d EXCEPT !.started = v] = [rx |-> x, unacked |-> u, first |-> f, silent |-> s, test |-> t, started |-> v]
    BY ONLY <1>1
  <2>3. QED
    BY <1>2, <2>1, <2>2 DEF IecReading, IecSetStarted
<1>10. IecSetOut(r, v) = IecReading(x, u, f, s, t, b, v)
  <2>1. [r EXCEPT !.out = v] = [drv |-> d, out |-> v, wrong |-> z]
    BY ONLY <1>3
  <2>2. QED
    BY <1>1, <1>2, <2>1 DEF IecReading, IecSetOut
<1>11. QED
  BY <1>4, <1>5, <1>6, <1>7, <1>8, <1>9, <1>10

IecTake(r) ==
  [r EXCEPT !.drv.rx = Iec!Next1(r.drv.rx), !.drv.unacked = r.drv.unacked + 1,
            !.drv.first = Iec!Counted(r.drv.first)]
IecReply(r, k) == [r EXCEPT !.out = Append(@, Iec!U(k))]
IecTest(r, k) == [r EXCEPT !.drv.test = 0, !.out = Append(@, Iec!U(k))]
IecReady(r) == [r EXCEPT !.drv.first = None, !.drv.silent = 0, !.drv.test = None]

LEMMA IecDoes ==
  ASSUME NEW x, NEW u, NEW f, NEW s, NEW t, NEW b, NEW o, NEW r,
         r = IecReading(x, u, f, s, t, b, o)
  PROVE  /\ Iec!send_s(r) = IecReading(x, 0, None, s, t, b, Append(o, Iec!Frame("S", 0, x)))
         /\ Iec!send_gi(r) = IecReading(x, u, f, s, t, b, Append(o, Iec!Frame("I", 0, x)))
         /\ \A k : IecReply(r, k) = IecReading(x, u, f, s, t, b, Append(o, Iec!U(k)))
         /\ \A k : IecTest(r, k) = IecReading(x, u, f, s, 0, b, Append(o, Iec!U(k)))
         /\ IecReady(r) = IecReading(x, u, None, 0, None, b, o)
         /\ IecTake(r) = IecReading(Iec!Next1(x), u + 1, Iec!Counted(f), s, t, b, o)
<1>1. r.out = o /\ r.drv.rx = x /\ r.drv.unacked = u /\ r.drv.first = f
  <2>1. /\ IecReading(x, u, f, s, t, b, o).out = o
        /\ IecReading(x, u, f, s, t, b, o).drv.rx = x
        /\ IecReading(x, u, f, s, t, b, o).drv.unacked = u
        /\ IecReading(x, u, f, s, t, b, o).drv.first = f
    BY IecReadingHas
  <2>2. QED
    BY <2>1
<1>2. Iec!send_s(r) = IecReading(x, 0, None, s, t, b, Append(o, Iec!Frame("S", 0, x)))
  <2>1. PICK e1, e2, e3 :
        /\ e1 = [r EXCEPT !.drv.unacked = 0]
        /\ e2 = [e1 EXCEPT !.drv.first = None]
        /\ e3 = [e2 EXCEPT !.out = Append(@, Iec!Frame("S", 0, r.drv.rx))]
    OBVIOUS
  <2>2. Iec!send_s(r) = e3
    BY <2>1 DEF Iec!send_s
  <2>3. e1 = IecReading(x, 0, f, s, t, b, o)
    <3>1. e1 = IecSetUnacked(r, 0)
      BY <1>1, <2>1 DEF IecSetUnacked
    <3>2. QED
      BY <3>1, IecField
  <2>4. e2 = IecReading(x, 0, None, s, t, b, o)
    <3>1. e2 = IecSetFirst(e1, None)
      BY <1>1, <2>1 DEF IecSetFirst
    <3>2. QED
      BY <3>1, <2>3, IecField
  <2>5. e3 = IecReading(x, 0, None, s, t, b, Append(o, Iec!Frame("S", 0, x)))
    <3>3. e2.out = o
      <4>1. IecReading(x, 0, None, s, t, b, o).out = o
        BY IecReadingHas
      <4>2. QED
        BY <4>1, <2>4
    <3>1. e3 = IecSetOut(e2, Append(o, Iec!Frame("S", 0, x)))
      BY <1>1, <2>1, <3>3 DEF IecSetOut
    <3>2. QED
      BY <3>1, <2>4, IecField
  <2>6. QED
    BY <2>2, <2>5
<1>3. Iec!send_gi(r) = IecReading(x, u, f, s, t, b, Append(o, Iec!Frame("I", 0, x)))
  <2>1. PICK e1 :
        /\ e1 = [r EXCEPT !.out = Append(@, Iec!Frame("I", 0, r.drv.rx))]
    OBVIOUS
  <2>2. Iec!send_gi(r) = e1
    BY <2>1 DEF Iec!send_gi
  <2>3. e1 = IecReading(x, u, f, s, t, b, Append(o, Iec!Frame("I", 0, x)))
    <3>1. e1 = IecSetOut(r, Append(o, Iec!Frame("I", 0, x)))
      BY <1>1, <2>1 DEF IecSetOut
    <3>2. QED
      BY <3>1, IecField
  <2>4. QED
    BY <2>2, <2>3
<1>4. ASSUME NEW k PROVE IecReply(r, k) = IecReading(x, u, f, s, t, b, Append(o, Iec!U(k)))
  <2>1. PICK e1 :
        /\ e1 = [r EXCEPT !.out = Append(@, Iec!U(k))]
    OBVIOUS
  <2>2. IecReply(r, k) = e1
    BY <2>1 DEF IecReply
  <2>3. e1 = IecReading(x, u, f, s, t, b, Append(o, Iec!U(k)))
    <3>1. e1 = IecSetOut(r, Append(o, Iec!U(k)))
      BY <1>1, <2>1 DEF IecSetOut
    <3>2. QED
      BY <3>1, IecField
  <2>4. QED
    BY <2>2, <2>3
<1>5. ASSUME NEW k PROVE IecTest(r, k) = IecReading(x, u, f, s, 0, b, Append(o, Iec!U(k)))
  <2>1. PICK e1, e2 :
        /\ e1 = [r EXCEPT !.drv.test = 0]
        /\ e2 = [e1 EXCEPT !.out = Append(@, Iec!U(k))]
    OBVIOUS
  <2>2. IecTest(r, k) = e2
    BY <2>1 DEF IecTest
  <2>3. e1 = IecReading(x, u, f, s, 0, b, o)
    <3>1. e1 = IecSetTest(r, 0)
      BY <1>1, <2>1 DEF IecSetTest
    <3>2. QED
      BY <3>1, IecField
  <2>4. e2 = IecReading(x, u, f, s, 0, b, Append(o, Iec!U(k)))
    <3>3. e1.out = o
      <4>1. IecReading(x, u, f, s, 0, b, o).out = o
        BY IecReadingHas
      <4>2. QED
        BY <4>1, <2>3
    <3>1. e2 = IecSetOut(e1, Append(o, Iec!U(k)))
      BY <1>1, <2>1, <3>3 DEF IecSetOut
    <3>2. QED
      BY <3>1, <2>3, IecField
  <2>5. QED
    BY <2>2, <2>4
<1>6. IecReady(r) = IecReading(x, u, None, 0, None, b, o)
  <2>1. PICK e1, e2, e3 :
        /\ e1 = [r EXCEPT !.drv.first = None]
        /\ e2 = [e1 EXCEPT !.drv.silent = 0]
        /\ e3 = [e2 EXCEPT !.drv.test = None]
    OBVIOUS
  <2>2. IecReady(r) = e3
    BY <2>1 DEF IecReady
  <2>3. e1 = IecReading(x, u, None, s, t, b, o)
    <3>1. e1 = IecSetFirst(r, None)
      BY <1>1, <2>1 DEF IecSetFirst
    <3>2. QED
      BY <3>1, IecField
  <2>4. e2 = IecReading(x, u, None, 0, t, b, o)
    <3>1. e2 = IecSetSilent(e1, 0)
      BY <1>1, <2>1 DEF IecSetSilent
    <3>2. QED
      BY <3>1, <2>3, IecField
  <2>5. e3 = IecReading(x, u, None, 0, None, b, o)
    <3>1. e3 = IecSetTest(e2, None)
      BY <1>1, <2>1 DEF IecSetTest
    <3>2. QED
      BY <3>1, <2>4, IecField
  <2>6. QED
    BY <2>2, <2>5
<1>7. IecTake(r) = IecReading(Iec!Next1(x), u + 1, Iec!Counted(f), s, t, b, o)
  <2>1. PICK e1, e2, e3 :
        /\ e1 = [r EXCEPT !.drv.rx = Iec!Next1(r.drv.rx)]
        /\ e2 = [e1 EXCEPT !.drv.unacked = r.drv.unacked + 1]
        /\ e3 = [e2 EXCEPT !.drv.first = Iec!Counted(r.drv.first)]
    OBVIOUS
  <2>2. IecTake(r) = e3
    BY <2>1 DEF IecTake
  <2>3. e1 = IecReading(Iec!Next1(x), u, f, s, t, b, o)
    <3>1. e1 = IecSetRx(r, Iec!Next1(x))
      BY <1>1, <2>1 DEF IecSetRx
    <3>2. QED
      BY <3>1, IecField
  <2>4. e2 = IecReading(Iec!Next1(x), u + 1, f, s, t, b, o)
    <3>1. e2 = IecSetUnacked(e1, u + 1)
      BY <1>1, <2>1 DEF IecSetUnacked
    <3>2. QED
      BY <3>1, <2>3, IecField
  <2>5. e3 = IecReading(Iec!Next1(x), u + 1, Iec!Counted(f), s, t, b, o)
    <3>1. e3 = IecSetFirst(e2, Iec!Counted(f))
      BY <1>1, <2>1 DEF IecSetFirst
    <3>2. QED
      BY <3>1, <2>4, IecField
  <2>6. QED
    BY <2>2, <2>5
<1>8. QED
  BY <1>2, <1>3, <1>4, <1>5, <1>6, <1>7

\* The same, one by one.
LEMMA IecDoesS ==
  ASSUME NEW x, NEW u, NEW f, NEW s, NEW t, NEW b, NEW o, NEW r,
         r = IecReading(x, u, f, s, t, b, o)
  PROVE  Iec!send_s(r) = IecReading(x, 0, None, s, t, b, Append(o, Iec!Frame("S", 0, x)))
  BY IecDoes

LEMMA IecDoesGi ==
  ASSUME NEW x, NEW u, NEW f, NEW s, NEW t, NEW b, NEW o, NEW r,
         r = IecReading(x, u, f, s, t, b, o)
  PROVE  Iec!send_gi(r) = IecReading(x, u, f, s, t, b, Append(o, Iec!Frame("I", 0, x)))
  BY IecDoes

LEMMA IecDoesReply ==
  ASSUME NEW x, NEW u, NEW f, NEW s, NEW t, NEW b, NEW o, NEW r, NEW k,
         r = IecReading(x, u, f, s, t, b, o)
  PROVE  IecReply(r, k) = IecReading(x, u, f, s, t, b, Append(o, Iec!U(k)))
  BY IecDoes

LEMMA IecDoesTest ==
  ASSUME NEW x, NEW u, NEW f, NEW s, NEW t, NEW b, NEW o, NEW r, NEW k,
         r = IecReading(x, u, f, s, t, b, o)
  PROVE  IecTest(r, k) = IecReading(x, u, f, s, 0, b, Append(o, Iec!U(k)))
  BY IecDoes

LEMMA IecDoesReady ==
  ASSUME NEW x, NEW u, NEW f, NEW s, NEW t, NEW b, NEW o, NEW r,
         r = IecReading(x, u, f, s, t, b, o)
  PROVE  IecReady(r) = IecReading(x, u, None, 0, None, b, o)
  BY IecDoes

LEMMA IecDoesTake ==
  ASSUME NEW x, NEW u, NEW f, NEW s, NEW t, NEW b, NEW o, NEW r,
         r = IecReading(x, u, f, s, t, b, o)
  PROVE  IecTake(r) = IecReading(Iec!Next1(x), u + 1, Iec!Counted(f), s, t, b, o)
  BY IecDoes

LEMMA IecFieldTest ==
  ASSUME NEW x, NEW u, NEW f, NEW s, NEW t, NEW b, NEW o, NEW r, NEW v,
         r = IecReading(x, u, f, s, t, b, o)
  PROVE  IecSetTest(r, v) = IecReading(x, u, f, s, v, b, o)
  BY IecField

LEMMA IecFieldSilent ==
  ASSUME NEW x, NEW u, NEW f, NEW s, NEW t, NEW b, NEW o, NEW r, NEW v,
         r = IecReading(x, u, f, s, t, b, o)
  PROVE  IecSetSilent(r, v) = IecReading(x, u, f, v, t, b, o)
  BY IecField

LEMMA IecFieldStarted ==
  ASSUME NEW x, NEW u, NEW f, NEW s, NEW t, NEW b, NEW o, NEW r, NEW v,
         r = IecReading(x, u, f, s, t, b, o)
  PROVE  IecSetStarted(r, v) = IecReading(x, u, f, s, t, v, o)
  BY IecField

\* What a reading is, field by field.
LEMMA IecReadingOf ==
  ASSUME NEW x, NEW u, NEW f, NEW s, NEW t, NEW b, NEW o, NEW r,
         r = IecReading(x, u, f, s, t, b, o)
  PROVE  /\ r.out = o /\ r.drv.rx = x /\ r.drv.unacked = u /\ r.drv.first = f
         /\ r.drv.silent = s /\ r.drv.test = t /\ ~r.wrong
<1>1. ~r.wrong
  BY IecReadingDrv
<1>2. QED
  BY <1>1, IecReadingHas
LEMMA IecReadingStarted ==
  ASSUME NEW x, NEW u, NEW f, NEW s, NEW t, NEW b, NEW o, NEW r,
         r = IecReading(x, u, f, s, t, b, o)
  PROVE  r.drv.started = b
  BY IecReadingHas

LEMMA IecHalfAsks ==
  ASSUME NEW u \in Nat, NEW f \in IecAge, NEW o, NEW y \in Nat, NEW w \in Seq(IecUpFrames),
         NEW b \in Nat, NEW c \in IecAge, NEW h \in BOOLEAN,
         IecHalf(u, f, o, y, w, b, c, h), IecFresh(y, b, c)
  PROVE  IecHalf(u, f, Append(o, Iec!Frame("I", 0, IecNum(y))), y, w, b, c, h)
  BY IecHalfI

IecIsTest(k) == k \in {"TESTFR act", "TESTFR con"}
LEMMA IecHalfReply ==
  ASSUME NEW u \in Nat, NEW f \in IecAge, NEW o, NEW y \in Nat, NEW w \in Seq(IecUpFrames),
         NEW b \in Nat, NEW c \in IecAge, NEW h \in BOOLEAN,
         IecHalf(u, f, o, y, w, b, c, h), NEW k, IecIsTest(k)
  PROVE  IecHalf(u, f, Append(o, Iec!U(k)), y, w, b, c, h)
  BY IecHalfU DEF IecIsTest

(* After the first i frames of q, read from what the driver was (d): y is   *)
(* the count of the frames of information up to there.                     *)
IecBegan(d, q, i) == d.started = TRUE \/ \E j \in 1..i : q[j].kind = "STARTDT con"
IecQuiet(q, i) == \A j \in 1..i : ~IecIsInfo(q[j])
IecSoFar(u, f, b, o, d, q, i, y, w, a, c, h) ==
  /\ u \in 0..(IecW - 1) /\ f \in IecAge /\ b \in BOOLEAN
  /\ IecHalf(u, f, o, y, w, a, c, h)
  /\ f \in {None, 0, d.first} /\ (b = TRUE <=> IecBegan(d, q, i))
  /\ IecQuiet(q, i) => u = d.unacked /\ f = d.first
IecSo(r, s, t, d, q, i, y, w, a, c, h) ==
  \E u, f, b, o : /\ r = IecReading(IecNum(y), u, f, s, t, b, o)
                  /\ IecSoFar(u, f, b, o, d, q, i, y, w, a, c, h)

LEMMA IecFurther ==
  ASSUME NEW d, NEW q, NEW i \in Nat \ {0}
  PROVE  /\ IecBegan(d, q, i) <=> IecBegan(d, q, i - 1) \/ q[i].kind = "STARTDT con"
         /\ IecQuiet(q, i) <=> IecQuiet(q, i - 1) /\ ~IecIsInfo(q[i])
<1>1. 1..i = 1..(i - 1) \cup {i}
  OBVIOUS
<1>2. QED
  BY <1>1 DEF IecBegan, IecQuiet

\* A frame of information.
LEMMA IecInformed ==
  ASSUME NEW r, NEW s, NEW t, NEW d, NEW q, NEW i \in Nat \ {0}, NEW y \in Nat,
         NEW w \in Seq(IecUpFrames), NEW a \in Nat, NEW c \in IecAge, NEW h \in BOOLEAN,
         IecSo(r, s, t, d, q, i - 1, y, w, a, c, h), IecFresh(y, a, c), IecFresh(y + 1, a, c),
         IecIsInfo(q[i]), q[i].ssn = IecNum(y), gi \in BOOLEAN
  PROVE  IecSo(Iec!frame(r, q[i]), s, t, d, q, i, y + 1, w, a, c, h)
<1>0. PICK x : x = IecNum(y)
  OBVIOUS
<1>1. PICK u, f, b, o : r = IecReading(x, u, f, s, t, b, o) /\ IecSoFar(u, f, b, o, d, q, i - 1, y, w, a, c, h)
  BY <1>0 DEF IecSo
<1> DEFINE g == Iec!Counted(f)
           taken == IecTake(r)
           told == IF q[i].kind = "EI" /\ gi THEN Iec!send_gi(taken) ELSE taken
<1>2. /\ u \in Nat /\ u \in 0..(IecW - 1) /\ f \in IecAge /\ b \in BOOLEAN /\ IecW \in Nat \ {0}
      /\ IecHalf(u, f, o, y, w, a, c, h) /\ f \in {None, 0, d.first}
      /\ (b = TRUE <=> IecBegan(d, q, i - 1))
  BY <1>1, SessionAssumption DEF IecSoFar
<1>3. g \in IecAge /\ g \in {0, d.first} /\ u + 1 \in Nat /\ y + 1 \in Nat
  BY <1>2 DEF Iec!Counted, IecAge
<1>4. taken = IecReading(IecNum(y + 1), u + 1, g, s, t, b, o)
  <2>1. taken = IecReading(Iec!Next1(IecNum(y)), u + 1, g, s, t, b, o)
    BY <1>0, <1>1, IecDoesTake
  <2>2. Iec!Next1(IecNum(y)) = IecNum(y + 1)
    BY IecNumIs
  <2>3. QED
    BY <2>1, <2>2
<1>5. IecHalf(u + 1, g, o, y + 1, w, a, c, h)
  BY <1>2, IecHalfTake DEF Iec!Counted
<1> HIDE DEF taken, g
<1>6. PICK p : /\ told = IecReading(IecNum(y + 1), u + 1, g, s, t, b, p)
               /\ IecHalf(u + 1, g, p, y + 1, w, a, c, h)
  <2>1. CASE q[i].kind = "EI" /\ gi
    <3>1. told = IecReading(IecNum(y + 1), u + 1, g, s, t, b,
                            Append(o, Iec!Frame("I", 0, IecNum(y + 1))))
      BY <1>4, <2>1, IecDoesGi
    <3>2. IecHalf(u + 1, g, Append(o, Iec!Frame("I", 0, IecNum(y + 1))), y + 1, w, a, c, h)
      <4>1. h \in BOOLEAN /\ u + 1 \in Nat /\ g \in IecAge /\ y + 1 \in Nat
        BY <1>3
      <4>2. QED
        BY ONLY <1>5, <4>1, IecHalfAsks, IecFresh(y + 1, a, c), a \in Nat, c \in IecAge,
                w \in Seq(IecUpFrames)
    <3>3. QED
      BY <3>1, <3>2
  <2>2. CASE ~(q[i].kind = "EI" /\ gi)
    BY <1>4, <1>5, <2>2
  <2>3. QED
    BY <2>1, <2>2
<1> HIDE DEF told
<1>7. Iec!frame(r, q[i]) = IF u + 1 >= IecW THEN Iec!send_s(told) ELSE told
  <2>1. ~r.wrong
    BY <1>1, IecReadingOf
  <2>2. q[i].kind \in {"I", "EI"} /\ q[i].ssn = r.drv.rx
    <3>1. r.drv.rx = x
      BY <1>1, IecReadingOf
    <3>2. QED
      BY <1>0, <3>1 DEF IecIsInfo
  <2>3. told.drv.unacked = u + 1
    BY <1>6, IecReadingOf
  <2>4. Iec!frame(r, q[i]) = Iec!information(r, q[i])
    BY <2>1, <2>2 DEF Iec!frame
  <2>5. Iec!information(r, q[i]) = IF told.drv.unacked >= IecW THEN Iec!send_s(told) ELSE told
    BY <2>2 DEF Iec!information, told, taken, IecTake
  <2>6. QED
    BY <2>3, <2>4, <2>5
<1>8. b = TRUE <=> IecBegan(d, q, i)
  BY <1>2, IecFurther DEF IecIsInfo
<1>9. ~IecQuiet(q, i)
  BY IecFurther
<1>10. CASE u + 1 >= IecW
  <2>1. Iec!send_s(told) = IecReading(IecNum(y + 1), 0, None, s, t, b,
                                      Append(p, Iec!Frame("S", 0, IecNum(y + 1))))
    BY <1>6, IecDoesS
  <2>2. IecHalf(0, None, Append(p, Iec!Frame("S", 0, IecNum(y + 1))), y + 1, w, a, c, h)
    BY <1>3, <1>6, IecHalfS
  <2>3. IecSoFar(0, None, b, Append(p, Iec!Frame("S", 0, IecNum(y + 1))), d, q, i, y + 1, w, a, c, h)
    <3>1. 0 \in 0..(IecW - 1) /\ None \in IecAge
      BY <1>2 DEF IecAge
    <3>2. QED
      BY <1>2, <1>8, <1>9, <2>2, <3>1 DEF IecSoFar
  <2>4. QED
    BY <1>7, <1>10, <2>1, <2>3 DEF IecSo
<1>11. CASE ~(u + 1 >= IecW)
  <2>1. u + 1 \in 0..(IecW - 1)
    BY <1>2, <1>11
  <2>2. IecSoFar(u + 1, g, b, p, d, q, i, y + 1, w, a, c, h)
    BY <1>2, <1>3, <1>6, <1>8, <1>9, <2>1 DEF IecSoFar
  <2>3. QED
    BY <1>6, <1>7, <1>11, <2>2 DEF IecSo
<1>12. QED
  BY <1>10, <1>11

\* The other frames.
IecUntested(t) == t = None
IecIsOther(f) == f.kind \in {"STARTDT con", "TESTFR act", "TESTFR con"}
LEMMA IecAnswered ==
  ASSUME NEW r, NEW s, NEW t, NEW d, NEW q, NEW i \in Nat \ {0}, NEW y \in Nat,
         NEW w \in Seq(IecUpFrames), NEW a \in Nat, NEW c \in IecAge, NEW h \in BOOLEAN,
         IecSo(r, s, t, d, q, i - 1, y, w, a, c, h), IecUntested(t),
         IecIsOther(q[i])
  PROVE  IecSo(Iec!frame(r, q[i]), s, t, d, q, i, y, w, a, c, h)
<1>0. PICK x, yes, n, k : x = IecNum(y) /\ yes = TRUE /\ n = None /\ k = "TESTFR con"
  OBVIOUS
<1>1. PICK u, f, b, o : r = IecReading(x, u, f, s, t, b, o) /\ IecSoFar(u, f, b, o, d, q, i - 1, y, w, a, c, h)
  BY <1>0 DEF IecSo
<1>2. /\ u \in Nat /\ u \in 0..(IecW - 1) /\ f \in IecAge /\ b \in BOOLEAN
      /\ IecHalf(u, f, o, y, w, a, c, h) /\ f \in {None, 0, d.first}
      /\ (b = TRUE <=> IecBegan(d, q, i - 1))
      /\ (IecQuiet(q, i - 1) => u = d.unacked /\ f = d.first)
  <2>1. IecSoFar(u, f, b, o, d, q, i - 1, y, w, a, c, h) /\ IecW \in Nat
    BY <1>1, SessionAssumption
  <2>2. QED
    BY <2>1 DEF IecSoFar
<1>3. ~r.wrong
  BY <1>1, IecReadingOf
<1>4. IecQuiet(q, i) <=> IecQuiet(q, i - 1)
  BY IecFurther DEF IecIsInfo, IecIsOther
<1>6. IecBegan(d, q, i) <=> IecBegan(d, q, i - 1) \/ q[i].kind = "STARTDT con"
  BY IecFurther
<1>5. CASE q[i].kind = "STARTDT con"
  <2>1. Iec!frame(r, q[i]) = IecSetStarted(r, yes)
    BY <1>0, <1>3, <1>5 DEF Iec!frame, IecSetStarted
  <2>2. IecSetStarted(r, yes) = IecReading(x, u, f, s, t, yes, o)
    BY <1>1, IecFieldStarted
  <2>3. IecBegan(d, q, i)
    BY <1>5, <1>6
  <2>4. IecSoFar(u, f, yes, o, d, q, i, y, w, a, c, h)
    BY <1>0, <1>2, <1>4, <2>3 DEF IecSoFar
  <2>5. Iec!frame(r, q[i]) = IecReading(x, u, f, s, t, yes, o)
    BY <2>1, <2>2
  <2>6. QED
    BY <1>0, <2>5, <2>4 DEF IecSo
<1>7. CASE q[i].kind = "TESTFR con"
  <2>1. Iec!frame(r, q[i]) = IecSetTest(r, n)
    BY <1>0, <1>3, <1>7 DEF Iec!frame, IecSetTest
  <2>2. IecSetTest(r, n) = IecReading(x, u, f, s, n, b, o)
    BY <1>1, IecFieldTest
  <2>3. IecSoFar(u, f, b, o, d, q, i, y, w, a, c, h)
    BY <1>2, <1>4, <1>6, <1>7 DEF IecSoFar
  <2>4. n = t
    BY <1>0 DEF IecUntested
  <2>5. Iec!frame(r, q[i]) = IecReading(x, u, f, s, t, b, o)
    BY <2>1, <2>2, <2>4
  <2>6. QED
    BY <1>0, <2>5, <2>3 DEF IecSo
<1>8. CASE q[i].kind = "TESTFR act"
  <2>1. Iec!frame(r, q[i]) = IecReply(r, k)
    BY <1>0, <1>3, <1>8 DEF Iec!frame, IecReply
  <2>2. IecReply(r, k) = IecReading(x, u, f, s, t, b, Append(o, Iec!U(k)))
    BY <1>1, IecDoesReply
  <2>3. IecHalf(u, f, Append(o, Iec!U(k)), y, w, a, c, h)
    <3>1. IecIsTest(k)
      BY <1>0 DEF IecIsTest
    <3>2. u \in Nat /\ f \in IecAge /\ IecHalf(u, f, o, y, w, a, c, h)
      BY <1>2
    <3>3. QED
      BY ONLY <3>1, <3>2, IecHalfReply, y \in Nat, w \in Seq(IecUpFrames), a \in Nat,
              c \in IecAge, h \in BOOLEAN
  <2>4. IecSoFar(u, f, b, Append(o, Iec!U(k)), d, q, i, y, w, a, c, h)
    BY <1>2, <1>4, <1>6, <1>8, <2>3 DEF IecSoFar
  <2>5. Iec!frame(r, q[i]) = IecReading(x, u, f, s, t, b, Append(o, Iec!U(k)))
    BY <2>1, <2>2
  <2>6. QED
    BY <1>0, <2>5, <2>4 DEF IecSo
<1>9. QED
  BY <1>5, <1>7, <1>8 DEF IecIsOther

(* What pump does: frame after frame.                                      *)
IecRead(g, r, q, n) == g = [i \in 0..n |-> IF i = 0 THEN r ELSE Iec!frame(g[i - 1], q[i])]
IecAlive(n) == IF n = 0 THEN drv ELSE [drv EXCEPT !.silent = 0, !.test = None]

LEMMA IecReadExists ==
  ASSUME NEW r, NEW q, NEW n \in Nat
  PROVE  \E g : IecRead(g, r, q, n)
<1> DEFINE F == {m \in Nat : \E g : IecRead(g, r, q, m)}
<1>1. 0 \in F
  <2>1. IecRead([i \in 0..0 |-> r], r, q, 0)
    BY DEF IecRead
  <2>2. QED
    BY <2>1
<1>2. ASSUME NEW m \in Nat, m \in F PROVE m + 1 \in F
  <2>1. PICK g : IecRead(g, r, q, m)
    BY <1>2
  <2> DEFINE h == [i \in 0..(m + 1) |-> IF i = 0 THEN r ELSE Iec!frame(g[i - 1], q[i])]
             k == [i \in 0..(m + 1) |-> IF i = 0 THEN r ELSE Iec!frame(h[i - 1], q[i])]
  <2>2. \A i \in 0..m : h[i] = g[i]
    BY <2>1 DEF IecRead
  <2>3. \A i \in 0..(m + 1) : i # 0 => i - 1 \in 0..m
    OBVIOUS
  <2>4. \A i \in 0..(m + 1) : h[i] = k[i]
    BY <2>2, <2>3
  <2>5. h = k
    BY <2>4
  <2>6. IecRead(h, r, q, m + 1)
    BY <2>5 DEF IecRead
  <2>7. QED
    <3> HIDE DEF h
    <3>9. QED
      BY <2>6
<1>3. n \in F
  <2> HIDE DEF F
  <2>9. QED
    BY <1>1, <1>2, NatInSet
<1>4. QED
  BY <1>3

LEMMA IecPump ==
  ASSUME NEW n \in Nat
  PROVE  \E g : IecRead(g, Iec!Reading(IecAlive(n)), toDriver, n) /\ Iec!pump(n) = g[n]
<1> DEFINE p == CHOOSE g : IecRead(g, Iec!Reading(IecAlive(n)), toDriver, n)
<1>1. IecRead(p, Iec!Reading(IecAlive(n)), toDriver, n)
  BY IecReadExists
<1>2. Iec!pump(n) = p[n]
  BY DEF Iec!pump, IecRead, IecAlive
<1>3. QED
  BY <1>1, <1>2

\* What the frames under way are, one after the other.
LEMMA IecDownAt ==
  ASSUME NEW e, NEW q \in Seq(IecDownFrames), NEW x, NEW v, IecDown(e, q, x, v), NEW i \in 1..Len(q)
  PROVE  /\ e[i - 1] \in Nat /\ x <= e[i - 1] /\ i - 1 \in Nat /\ i \in Nat \ {0}
         /\ IF IecIsInfo(q[i]) THEN q[i].ssn = IecNum(e[i - 1]) /\ e[i] = e[i - 1] + 1
            ELSE IecIsOther(q[i]) /\ e[i] = e[i - 1]
<1>1. PICK m \in Nat : m = Len(q)
  OBVIOUS
<1>2. i - 1 \in 0..m /\ 0 \in 0..m /\ 0 <= i - 1 /\ i - 1 \in Nat /\ i \in Nat \ {0}
  BY <1>1
<1>3. e \in [0..m -> Nat] /\ e[0] <= e[i - 1] /\ e[0] = x
  BY <1>1, <1>2 DEF IecDown, IecRising
<1>4. q[i] \in IecDownFrames
  OBVIOUS
<1>5. q[i].kind \in {"I", "EI", "STARTDT con", "TESTFR act", "TESTFR con"}
  BY <1>4 DEF IecDownFrames, IecFrames
<1>6. ~IecIsInfo(q[i]) => IecIsOther(q[i])
  BY <1>5 DEF IecIsInfo, IecIsOther
<1>7. IF IecIsInfo(q[i]) THEN q[i].ssn = IecNum(e[i - 1]) /\ e[i] = e[i - 1] + 1 ELSE e[i] = e[i - 1]
  BY DEF IecDown
<1>8. QED
  BY <1>2, <1>3, <1>6, <1>7

LEMMA IecReads ==
  ASSUME NEW g, NEW r, NEW s, NEW t, NEW d, NEW q \in Seq(IecDownFrames), NEW e, NEW x, NEW v,
         NEW n \in 0..Len(q), IecDown(e, q, x, v), IecRead(g, r, q, n),
         NEW w \in Seq(IecUpFrames), NEW a \in Nat, NEW c \in IecAge, NEW h \in BOOLEAN,
         IecSo(r, s, t, d, q, 0, x, w, a, c, h), n # 0 => IecUntested(t),
         \A y \in Nat : x <= y => IecFresh(y, a, c), gi \in BOOLEAN
  PROVE  IecSo(g[n], s, t, d, q, n, e[n], w, a, c, h)
<1> DEFINE Upto(i) == i <= n => IecSo(g[i], s, t, d, q, i, e[i], w, a, c, h)
           F == {i \in Nat : Upto(i)}
<1>0. PICK m \in Nat : m = Len(q)
  OBVIOUS
<1>1. 0 \in F
  <2>1. e[0] = x
    BY DEF IecDown
  <2>2. g[0] = r
    BY <1>0 DEF IecRead
  <2>3. QED
    BY <2>1, <2>2
<1>2. ASSUME NEW j \in Nat, j \in F PROVE j + 1 \in F
  <2>1. SUFFICES ASSUME j + 1 <= n PROVE IecSo(g[j + 1], s, t, d, q, j + 1, e[j + 1], w, a, c, h)
    OBVIOUS
  <2>2. PICK i : i = j + 1
    OBVIOUS
  <2>3. i \in 1..m /\ i \in 0..n /\ i # 0 /\ n # 0 /\ j = i - 1 /\ j <= n /\ i \in Nat \ {0}
    BY <1>0, <2>1, <2>2
  <2>4. IecSo(g[j], s, t, d, q, j, e[j], w, a, c, h)
    BY <1>2, <2>3
  <2>5. g[i] = Iec!frame(g[j], q[i])
    BY <2>3 DEF IecRead
  <2>6. PICK y : y = e[j]
    OBVIOUS
  <2>7. /\ y \in Nat /\ x <= y
        /\ IF IecIsInfo(q[i]) THEN q[i].ssn = IecNum(y) /\ e[i] = y + 1
           ELSE IecIsOther(q[i]) /\ e[i] = y
    BY <1>0, <2>3, <2>6, IecDownAt
  <2>8. CASE IecIsInfo(q[i])
    <3>1. x \in Nat
      <4>1. 0 \in 0..m
        BY <1>0
      <4>2. QED
        BY <1>0, <4>1 DEF IecDown, IecRising
    <3>2. IecFresh(y, a, c)
      BY <2>7
    <3>3. IecFresh(y + 1, a, c)
      BY <2>7, <3>1
    <3>4. IecSo(g[j], s, t, d, q, i - 1, y, w, a, c, h)
      BY <2>3, <2>4, <2>6
    <3>5. IecSo(Iec!frame(g[j], q[i]), s, t, d, q, i, y + 1, w, a, c, h)
      BY ONLY <2>3, <2>7, <2>8, <3>2, <3>3, <3>4, IecInformed, w \in Seq(IecUpFrames), a \in Nat,
              c \in IecAge, h \in BOOLEAN, gi \in BOOLEAN
    <3>6. QED
      BY <2>2, <2>5, <2>7, <2>8, <3>5
  <2>9. CASE ~IecIsInfo(q[i])
    <3>1. IecUntested(t)
      BY <2>3
    <3>2. IecSo(g[j], s, t, d, q, i - 1, y, w, a, c, h)
      BY <2>3, <2>4, <2>6
    <3>3. IecSo(Iec!frame(g[j], q[i]), s, t, d, q, i, y, w, a, c, h)
      BY ONLY <2>3, <2>7, <2>9, <3>1, <3>2, IecAnswered, w \in Seq(IecUpFrames), a \in Nat,
              c \in IecAge, h \in BOOLEAN
    <3>4. QED
      BY <2>2, <2>5, <2>7, <2>9, <3>3
  <2>10. QED
    BY <2>8, <2>9
<1>3. n \in Nat
  BY <1>0
<1>4. n \in F
  <2> HIDE DEF F
  <2>9. QED
    BY <1>1, <1>2, <1>3, NatInSet
<1>5. QED
  BY <1>3, <1>4

(* The invariant. The numbers are those of naturals a, y, v: what the       *)
(* station knows to be acknowledged, what the driver has counted and what   *)
(* the station has sent.                                                    *)
IecHolds(a, y, v, rx, vs, ac, c, q) ==
  /\ a \in Nat /\ y \in Nat /\ v \in Nat /\ a <= y /\ y <= v /\ v - a <= IecK
  /\ ac = IecNum(a) /\ rx = IecNum(y) /\ vs = IecNum(v)
  /\ (c = None <=> a = v) /\ IecSpans(q, y, v) /\ IecFresh(y, a, c)
IecBehind(a, y, u, f, c, w, h) ==
  \E x \in Nat : a <= x /\ x <= y /\ IecAcks(w, a, x) /\ IecTimed(u, f, x, y, a, c, h)
IecOnLine(rx, u, f, vs, ac, c, w, q, h) ==
  \E a, y, v : IecHolds(a, y, v, rx, vs, ac, c, q) /\ IecBehind(a, y, u, f, c, w, h)

IecDriver ==
  [rx : 0..(Modulus - 1), unacked : 0..(IecW - 1), first : {None} \cup 0..(IecT2 + 1),
   silent : 0..(IecT1 + IecT3 + 2), test : {None} \cup 0..(IecT1 + 1), started : BOOLEAN]
IecStation ==
  [vs : 0..(Modulus - 1), acked : 0..(Modulus - 1), oldest : {None} \cup 0..(IecT2 + 2),
   started : BOOLEAN]
IecTyped ==
  /\ gi \in BOOLEAN /\ phase \in {"closed", "starting", "up"}
  /\ mute \in BOOLEAN /\ linkServed \in BOOLEAN /\ early \in BOOLEAN
  /\ drv \in IecDriver /\ station \in IecStation
  /\ toStation \in Seq(IecUpFrames) /\ toDriver \in Seq(IecDownFrames)
  /\ fault # "sequence" /\ fault # "t1"
IecLine ==
  IecOnLine(drv.rx, drv.unacked, drv.first, station.vs, station.acked, station.oldest,
            toStation, toDriver, early)
\* Nothing is sent before the confirmation.
IecConfirms(q, n) == \E j \in 1..n : q[j].kind = "STARTDT con"
IecHeralded(q) == \A i \in 1..Len(q) : IecIsInfo(q[i]) => IecConfirms(q, i - 1)
IecBegun ==
  phase = "starting" =>
    /\ drv.started = FALSE /\ drv.unacked = 0 /\ drv.first = None /\ drv.test = None
    /\ early = FALSE
    /\ station.started = TRUE => IecConfirms(toDriver, Len(toDriver))
    /\ IecHeralded(toDriver)
\* A link that has just been served has nothing due.
IecRuns(f, s, t, now) ==
  /\ f # None => f <= IecT2 /\ (now => f < IecT2)
  /\ t = None => s <= IecT3 /\ (now => s < IecT3)
  /\ t # None => s <= IecT3 + t /\ (now => t < IecT1 \/ t = 0)
IecClock == phase = "up" => IecRuns(drv.first, drv.silent, drv.test, linkServed = TRUE)
\* What the driver asks of a station that reads is answered within the tick.
IecAwaits(w, k) == \E i \in 1..Len(w) : w[i].kind = k
IecAnswering ==
  ~mute =>
    /\ phase = "starting" =>
         drv.silent = 0 /\ (station.started = TRUE \/ IecAwaits(toStation, "STARTDT act"))
    /\ phase = "up" /\ drv.test # None =>
         drv.test = 0 /\ (toDriver # <<>> \/ IecAwaits(toStation, "TESTFR act"))
IecInv == IecTyped /\ IecLine /\ IecBegun /\ IecClock /\ IecAnswering

\* What an invariant driver is.
LEMMA IecFacts ==
  ASSUME IecTyped
  PROVE  /\ drv.rx \in 0..(Modulus - 1) /\ drv.unacked \in 0..(IecW - 1) /\ drv.first \in IecAge
         /\ drv.first # None => drv.first \in 0..(IecT2 + 1)
         /\ drv.silent \in 0..(IecT1 + IecT3 + 2) /\ drv.test \in IecAge
         /\ drv.test # None => drv.test \in 0..(IecT1 + 1)
         /\ station.vs \in 0..(Modulus - 1) /\ station.acked \in 0..(Modulus - 1)
         /\ station.oldest \in IecAge
         /\ station.oldest # None => station.oldest \in 0..(IecT2 + 2)
  BY SessionAssumption DEF IecTyped, IecDriver, IecStation, IecAge

LEMMA IecStarted ==
  ASSUME IecTyped
  PROVE  drv.started \in BOOLEAN /\ station.started \in BOOLEAN
  BY DEF IecTyped, IecDriver, IecStation

\* What has been read and answered leaves the numbers in line.
LEMMA IecTookLine ==
  ASSUME NEW u \in Nat, NEW f \in IecAge, NEW o, NEW a, NEW y, NEW v, NEW w, NEW c, NEW h, NEW rx, NEW vs,
         NEW ac, NEW q, IecHolds(a, y, v, rx, vs, ac, c, q), IecHalf(u, f, o, y, w, a, c, h)
  PROVE  IecOnLine(rx, u, f, vs, ac, c, w \o o, q, h /\ ~IecTold(o))
<1>1. IecBehind(a, y, u, f, c, w \o o, h /\ ~IecTold(o))
  BY DEF IecHalf, IecBehind
<1>2. QED
  BY <1>1 DEF IecOnLine

LEMMA IecReadyLine ==
  ASSUME NEW u \in Nat, NEW f \in IecAge, NEW o, NEW a, NEW y, NEW v, NEW w, NEW c, NEW rx, NEW vs,
         NEW ac, NEW q, IecHolds(a, y, v, rx, vs, ac, c, q), IecHalf(u, f, o, y, w, a, c, FALSE)
  PROVE  IecOnLine(rx, u, None, vs, ac, c, w \o o, q, u > 0)
<1>1. PICK x \in Nat : a <= x /\ x <= y /\ IecAcks(w \o o, a, x) /\ IecTimed(u, f, x, y, a, c, FALSE)
  BY DEF IecHalf
<1>2. IecTimed(u, None, x, y, a, c, u > 0)
  BY <1>1 DEF IecTimed
<1>3. IecBehind(a, y, u, None, c, w \o o, u > 0)
  BY <1>1, <1>2 DEF IecBehind
<1>4. QED
  BY <1>3 DEF IecOnLine

IecUntest(r, t) == [r EXCEPT !.test = t]
LEMMA IecUntestIs ==
  ASSUME NEW x, NEW u, NEW f, NEW s, NEW t, NEW b, NEW j, NEW r,
         r = [rx |-> x, unacked |-> u, first |-> f, silent |-> s, test |-> j, started |-> b]
  PROVE  IecUntest(r, t) =
           [rx |-> x, unacked |-> u, first |-> f, silent |-> s, test |-> t, started |-> b]
  BY DEF IecUntest

\* What is read of the frames that have come.
IecPumps(n, a, y, v, s, t, u, f, b, o) ==
  /\ Iec!pump(n) = IecReading(IecNum(y), u, f, s, t, b, o)
  /\ IecSoFar(u, f, b, o, drv, toDriver, n, y, toStation, a, station.oldest, early)
  /\ IecHolds(a, y, v, IecNum(y), station.vs, station.acked, station.oldest,
              SubSeq(toDriver, n + 1, Len(toDriver)))
  /\ s = (IF n = 0 THEN drv.silent ELSE 0) /\ t = (IF n = 0 THEN drv.test ELSE None)

LEMMA IecReadIs ==
  ASSUME IecInv, NEW n \in 0..Len(toDriver)
  PROVE  \E a, y, v, s, t, u, f, b, o : IecPumps(n, a, y, v, s, t, u, f, b, o)
<1>1. PICK a, x, v : /\ IecHolds(a, x, v, drv.rx, station.vs, station.acked, station.oldest, toDriver)
                     /\ IecBehind(a, x, drv.unacked, drv.first, station.oldest, toStation, early)
  BY DEF IecInv, IecLine, IecOnLine
<1>2. PICK c, h, w, q, d, m : /\ c = station.oldest /\ h = early /\ w = toStation /\ q = toDriver
                              /\ d = drv /\ m = Len(toDriver)
  OBVIOUS
<1>3. PICK s, t : s = (IF n = 0 THEN d.silent ELSE 0) /\ t = (IF n = 0 THEN d.test ELSE None)
  OBVIOUS
<1>4. /\ a \in Nat /\ x \in Nat /\ v \in Nat /\ a <= x /\ x <= v /\ v - a <= IecK
      /\ station.acked = IecNum(a) /\ drv.rx = IecNum(x) /\ station.vs = IecNum(v)
      /\ (c = None <=> a = v) /\ IecSpans(q, x, v) /\ IecFresh(x, a, c)
  BY <1>1, <1>2 DEF IecHolds
<1>5. /\ c \in IecAge /\ h \in BOOLEAN /\ w \in Seq(IecUpFrames) /\ q \in Seq(IecDownFrames)
      /\ gi \in BOOLEAN /\ m \in Nat /\ n \in Nat
  <2>1. c \in IecAge
    BY <1>2, IecFacts DEF IecInv
  <2>2. QED
    BY <1>2, <2>1 DEF IecInv, IecTyped
<1>6. PICK e : IecDown(e, q, x, v)
  BY <1>4 DEF IecSpans
<1>7. PICK g : IecRead(g, Iec!Reading(IecAlive(n)), q, n) /\ Iec!pump(n) = g[n]
  BY <1>2, <1>5, IecPump
<1>8. IecSo(Iec!Reading(IecAlive(n)), s, t, d, q, 0, x, w, a, c, h)
  <2>1. PICK u, f, b, o : u = d.unacked /\ f = d.first /\ b = d.started /\ o = <<>>
    OBVIOUS
  <2>2. Iec!Reading(IecAlive(n)) = IecReading(IecNum(x), u, f, s, t, b, o)
    <3>1. d = [rx |-> IecNum(x), unacked |-> u, first |-> f, silent |-> d.silent, test |-> d.test,
               started |-> b]
      BY <1>2, <1>4, <2>1 DEF IecInv, IecTyped, IecDriver
    <3>2. IecAlive(n) = [rx |-> IecNum(x), unacked |-> u, first |-> f, silent |-> s, test |-> t,
                         started |-> b]
      <4>1. CASE n = 0
        BY <1>2, <1>3, <3>1, <4>1 DEF IecAlive
      <4>2. CASE n # 0
        <5>1. IecAlive(n) = [d EXCEPT !.silent = s, !.test = t]
          BY <1>2, <1>3, <4>2 DEF IecAlive
        <5>2. [d EXCEPT !.silent = s, !.test = t] = IecUntest([d EXCEPT !.silent = s], t)
          BY DEF IecUntest
        <5>3. PICK p, j : p = d.silent /\ j = d.test
          OBVIOUS
        <5>4. [d EXCEPT !.silent = s] = [rx |-> IecNum(x), unacked |-> u, first |-> f, silent |-> s,
                                         test |-> j, started |-> b]
          BY <3>1, <5>3
        <5>5. IecUntest([d EXCEPT !.silent = s], t) =
                [rx |-> IecNum(x), unacked |-> u, first |-> f, silent |-> s, test |-> t, started |-> b]
          BY <5>4, IecUntestIs
        <5>6. QED
          BY <5>1, <5>2, <5>5
      <4>3. QED
        BY <4>1, <4>2
    <3>3. QED
      BY <2>1, <3>2 DEF Iec!Reading, IecReading
  <2>3. IecHalf(u, f, o, x, w, a, c, h)
    <3>1. w \o o = w /\ o \in Seq(IecUpFrames) /\ ~IecTold(o)
      BY <1>5, <2>1 DEF IecTold
    <3>2. PICK z \in Nat : a <= z /\ z <= x /\ IecAcks(w, a, z) /\ IecTimed(u, f, z, x, a, c, h)
      BY <1>1, <1>2, <2>1 DEF IecBehind
    <3>3. IecTimed(u, f, z, x, a, c, h /\ ~IecTold(o))
      BY <3>1, <3>2 DEF IecTimed
    <3>4. QED
      BY <3>1, <3>2, <3>3 DEF IecHalf
  <2>4. u \in 0..(IecW - 1) /\ f \in IecAge /\ b \in BOOLEAN
    BY <1>2, <2>1, IecFacts, IecStarted DEF IecInv
  <2>5. b = TRUE <=> IecBegan(d, q, 0)
    BY <2>1 DEF IecBegan
  <2>6. IecSoFar(u, f, b, o, d, q, 0, x, w, a, c, h)
    BY <2>1, <2>3, <2>4, <2>5 DEF IecSoFar
  <2>7. QED
    BY <2>2, <2>6 DEF IecSo
<1>9. n # 0 => IecUntested(t)
  BY <1>3 DEF IecUntested
<1>10. ASSUME NEW y \in Nat, x <= y PROVE IecFresh(y, a, c)
  BY <1>4, <1>10 DEF IecFresh
<1>11. IecSo(g[n], s, t, d, q, n, e[n], w, a, c, h)
  <2>1. n \in 0..Len(q)
    BY <1>2
  <2>2. QED
    BY ONLY <1>4, <1>5, <1>6, <1>7, <1>8, <1>9, <1>10, <2>1, IecReads
<1>12. PICK y : y = e[n]
  OBVIOUS
<1>13. IecSpans(SubSeq(q, n + 1, Len(q)), y, v)
  BY <1>2, <1>5, <1>6, <1>12, IecDownRest
<1>14. y \in Nat /\ x <= y /\ y <= v
  <2>1. 0 \in 0..m /\ n \in 0..m /\ m \in 0..m /\ 0 <= n /\ n <= m
    BY <1>2, <1>5
  <2>2. e \in [0..m -> Nat] /\ e[0] <= e[n] /\ e[n] <= e[m] /\ e[0] = x /\ e[m] = v
    BY <1>2, <1>6, <2>1 DEF IecDown, IecRising
  <2>3. QED
    BY <1>12, <2>1, <2>2
<1>15. IecFresh(y, a, c) /\ a <= y
  BY <1>4, <1>10, <1>14
<1>16. PICK u, f, b, o : /\ Iec!pump(n) = IecReading(IecNum(y), u, f, s, t, b, o)
                         /\ IecSoFar(u, f, b, o, d, q, n, y, w, a, c, h)
  BY <1>7, <1>11, <1>12 DEF IecSo
<1>17. IecHolds(a, y, v, IecNum(y), station.vs, station.acked, station.oldest,
                SubSeq(toDriver, n + 1, Len(toDriver)))
  BY <1>2, <1>4, <1>13, <1>14, <1>15 DEF IecHolds
<1>18. IecPumps(n, a, y, v, s, t, u, f, b, o)
  BY <1>2, <1>3, <1>16, <1>17 DEF IecPumps
<1>19. QED
  BY <1>18

(* The actions. A session that begins or ends.                             *)
LEMMA IecNewLine ==
  /\ IecOnLine(0, 0, None, 0, 0, None, <<>>, <<>>, FALSE)
  /\ IecOnLine(0, 0, None, 0, 0, None, <<Iec!U("STARTDT act")>>, <<>>, FALSE)
<1>1. IecAcks(<<>>, 0, 0) /\ IecSpans(<<>>, 0, 0) /\ IecNum(0) = 0
  BY IecNothing, IecNumIs
<1>2. IecAcks(<<Iec!U("STARTDT act")>>, 0, 0)
  <2>1. PICK f : f = Iec!U("STARTDT act")
    OBVIOUS
  <2>2. f \in IecUpFrames /\ ~IecIsAck(f)
    BY <2>1, IecUpFrame
  <2>3. <<>> \in Seq(IecUpFrames) /\ Append(<<>>, f) = <<f>>
    OBVIOUS
  <2>4. IecAcks(Append(<<>>, f), 0, 0)
    <3>1. PICK z \in Nat, w \in Seq(IecUpFrames) : z = 0 /\ w = <<>>
      BY <2>3
    <3>2. IecAcks(w, z, z) /\ z <= z
      BY <1>1, <3>1
    <3>3. IecAcks(Append(w, f), z, z)
      BY ONLY <2>2, <3>2, IecUpMore, z \in Nat, w \in Seq(IecUpFrames)
    <3>4. QED
      BY <3>1, <3>3
  <2>5. QED
    BY <2>1, <2>3, <2>4
<1>3. IecHolds(0, 0, 0, 0, 0, 0, None, <<>>)
  BY <1>1, SessionAssumption DEF IecHolds, IecFresh
<1>4. IecTimed(0, None, 0, 0, 0, None, FALSE)
  BY DEF IecTimed
<1>8. 0 \in Nat /\ 0 <= 0
  OBVIOUS
<1>5. IecBehind(0, 0, 0, None, None, <<>>, FALSE)
  BY <1>1, <1>4, <1>8 DEF IecBehind
<1>6. IecBehind(0, 0, 0, None, None, <<Iec!U("STARTDT act")>>, FALSE)
  BY <1>2, <1>4, <1>8 DEF IecBehind
<1>9. QED
  BY <1>3, <1>5, <1>6 DEF IecOnLine

LEMMA IecNewIs ==
  /\ Iec!NewDriver \in IecDriver /\ Iec!NewStation \in IecStation
  /\ Iec!NewDriver.rx = 0 /\ Iec!NewDriver.unacked = 0 /\ Iec!NewDriver.first = None
  /\ Iec!NewDriver.silent = 0 /\ Iec!NewDriver.test = None /\ Iec!NewDriver.started = FALSE
  /\ Iec!NewStation.vs = 0 /\ Iec!NewStation.acked = 0 /\ Iec!NewStation.oldest = None
  /\ Iec!NewStation.started = FALSE
<1>1. /\ 0 \in 0..(Modulus - 1) /\ 0 \in 0..(IecW - 1) /\ 0 \in 0..(IecT1 + IecT3 + 2)
      /\ None \in {None} \cup 0..(IecT2 + 1) /\ None \in {None} \cup 0..(IecT1 + 1)
      /\ None \in {None} \cup 0..(IecT2 + 2) /\ FALSE \in BOOLEAN
  BY SessionAssumption
<1>2. Iec!NewDriver \in IecDriver
  BY <1>1 DEF Iec!NewDriver, IecDriver
<1>3. Iec!NewStation \in IecStation
  BY <1>1 DEF Iec!NewStation, IecStation
<1>4. QED
  BY <1>2, <1>3 DEF Iec!NewDriver, Iec!NewStation

LEMMA IecNone ==
  <<>> \in Seq(IecUpFrames) /\ <<>> \in Seq(IecDownFrames) /\ IecHeralded(<<>>)
  BY DEF IecHeralded

LEMMA IecCloseKeeps ==
  ASSUME IecInv, NEW why, why # "sequence", why # "t1", Iec!close(why), gi' = gi PROVE IecInv'
<1>1. /\ phase' = "closed" /\ drv' = Iec!NewDriver /\ fault' = why /\ toStation' = <<>>
      /\ toDriver' = <<>> /\ station' = Iec!NewStation /\ linkServed' = TRUE /\ early' = FALSE
      /\ mute' = FALSE
  BY DEF Iec!close
<1>2. IecTyped'
  BY <1>1, IecNewIs, IecNone DEF IecInv, IecTyped
<1>3. IecLine'
  BY <1>1, IecNewIs, IecNewLine DEF IecLine
<1>4. IecBegun' /\ IecClock' /\ IecAnswering'
  BY <1>1 DEF IecBegun, IecClock, IecAnswering
<1>5. QED
  BY <1>2, <1>3, <1>4 DEF IecInv

LEMMA IecOpenKeeps ==
  ASSUME IecInv, Iec!open, gi' = gi PROVE IecInv'
<1>1. /\ phase' = "starting" /\ drv' = Iec!NewDriver /\ fault' = "none"
      /\ toStation' = <<Iec!U("STARTDT act")>> /\ toDriver' = <<>> /\ station' = Iec!NewStation
      /\ linkServed' = TRUE /\ early' = FALSE /\ mute' = mute
  BY DEF Iec!open
<1>2. <<Iec!U("STARTDT act")>> \in Seq(IecUpFrames)
  <2>1. PICK f : f = Iec!U("STARTDT act")
    OBVIOUS
  <2>2. f \in IecUpFrames
    BY <2>1, IecUpFrame
  <2>3. <<f>> \in Seq(IecUpFrames)
    BY <2>2
  <2>4. QED
    BY <2>1, <2>3
<1>3. IecTyped'
  BY <1>1, <1>2, IecNewIs, IecNone DEF IecInv, IecTyped
<1>4. IecLine'
  BY <1>1, IecNewIs, IecNewLine DEF IecLine
<1>5. IecBegun'
  BY <1>1, IecNewIs, IecNone DEF IecBegun
<1>6. IecClock'
  BY <1>1 DEF IecClock
<1>7. IecAnswering'
  <2>1. IecAwaits(<<Iec!U("STARTDT act")>>, "STARTDT act")
    <3>1. PICK f : f = Iec!U("STARTDT act")
      OBVIOUS
    <3>2. f.kind = "STARTDT act"
      BY <3>1 DEF Iec!U, Iec!Frame
    <3>3. 1 \in 1..Len(<<f>>) /\ <<f>>[1] = f
      OBVIOUS
    <3>4. IecAwaits(<<f>>, "STARTDT act")
      BY <3>2, <3>3 DEF IecAwaits
    <3>5. QED
      BY <3>1, <3>4
  <2>2. drv'.silent = 0
    BY <1>1, IecNewIs
  <2>3. QED
    BY <1>1, <2>1, <2>2 DEF IecAnswering
<1>8. QED
  BY <1>3, <1>4, <1>5, <1>6, <1>7 DEF IecInv

LEMMA IecInitInv == Iec!Init => IecInv
<1> SUFFICES ASSUME Iec!Init PROVE IecInv
  OBVIOUS
<1>1. /\ gi \in BOOLEAN /\ phase = "closed" /\ drv = Iec!NewDriver /\ station = Iec!NewStation
      /\ toStation = <<>> /\ toDriver = <<>> /\ mute = FALSE /\ linkServed = TRUE
      /\ early = FALSE /\ fault = "none"
  BY DEF Iec!Init
<1>2. IecTyped
  BY <1>1, IecNewIs, IecNone DEF IecTyped
<1>3. IecLine
  BY <1>1, IecNewIs, IecNewLine DEF IecLine
<1>4. QED
  BY <1>1, <1>2, <1>3 DEF IecInv, IecBegun, IecClock, IecAnswering

\* What the station sends comes after what is under way.
LEMMA IecHeraldedMore ==
  ASSUME NEW q \in Seq(IecDownFrames), NEW f \in IecDownFrames, IecHeralded(q),
         IecIsInfo(f) => IecConfirms(q, Len(q))
  PROVE  /\ IecHeralded(Append(q, f)) /\ Append(q, f) \in Seq(IecDownFrames)
         /\ IecConfirms(q, Len(q)) \/ f.kind = "STARTDT con" =>
              IecConfirms(Append(q, f), Len(Append(q, f)))
<1>1. PICK n \in Nat : n = Len(q)
  OBVIOUS
<1> DEFINE p == Append(q, f)
<1>2. p \in Seq(IecDownFrames) /\ Len(p) = n + 1 /\ p[n + 1] = f /\ \A i \in 1..n : p[i] = q[i]
  BY <1>1
<1> HIDE DEF p
<1>3. 1..(n + 1) = 1..n \cup {n + 1}
  BY <1>1
<1>4. ASSUME NEW i \in 0..n PROVE IecConfirms(p, i) <=> IecConfirms(q, i)
  <2>1. 1..i \subseteq 1..n
    BY <1>1
  <2>2. \A j \in 1..i : p[j] = q[j]
    BY <1>2, <2>1
  <2>3. QED
    BY <2>2 DEF IecConfirms
<1>5. \A i \in 1..(n + 1) : i - 1 \in 0..n
  BY <1>1
<1>6. IecHeralded(p)
  <2>1. SUFFICES ASSUME NEW i \in 1..(n + 1), IecIsInfo(p[i]) PROVE IecConfirms(p, i - 1)
    BY <1>2 DEF IecHeralded
  <2>2. CASE i = n + 1
    <3>1. i - 1 = n /\ n \in 0..n
      BY <1>1, <2>2
    <3>2. QED
      BY <1>1, <1>2, <1>4, <2>1, <2>2, <3>1
  <2>3. CASE i \in 1..n
    BY <1>1, <1>2, <1>4, <1>5, <2>1, <2>3 DEF IecHeralded
  <2>4. QED
    BY <1>3, <2>2, <2>3
<1>7. IecConfirms(q, n) \/ f.kind = "STARTDT con" => IecConfirms(p, n + 1)
  BY <1>2, <1>3 DEF IecConfirms
<1>8. QED
  BY <1>1, <1>2, <1>6, <1>7 DEF p

LEMMA IecDownFrame ==
  ASSUME NEW y \in Nat
  PROVE  /\ \A k \in {"I", "EI"} : /\ Iec!Frame(k, IecNum(y), 0) \in IecDownFrames
                                   /\ IecIsInfo(Iec!Frame(k, IecNum(y), 0))
                                   /\ Iec!Frame(k, IecNum(y), 0).ssn = IecNum(y)
         /\ \A k \in {"STARTDT con", "TESTFR act", "TESTFR con"} :
              /\ Iec!U(k) \in IecDownFrames /\ ~IecIsInfo(Iec!U(k)) /\ Iec!U(k).kind = k
<1>1. 0 \in 0..(Modulus - 1) /\ IecNum(y) \in 0..(Modulus - 1)
  BY IecNumIs, SessionAssumption
<1>2. QED
  BY <1>1 DEF Iec!Frame, Iec!U, IecDownFrames, IecFrames, IecIsInfo

(* What the station does to the line.                                      *)
LEMMA IecLineSent ==
  ASSUME NEW rx, NEW u \in Nat, NEW f \in IecAge, NEW vs, NEW ac, NEW c \in IecAge, NEW w,
         NEW q \in Seq(IecDownFrames), NEW h \in BOOLEAN,
         IecOnLine(rx, u, f, vs, ac, c, w, q, h), (vs - ac) % Modulus < IecK,
         NEW j \in IecDownFrames, IecIsInfo(j), j.ssn = vs
  PROVE  IecOnLine(rx, u, f, Iec!Next1(vs), ac, Iec!Counted(c), w, Append(q, j), h)
<1>1. PICK a, y, v : IecHolds(a, y, v, rx, vs, ac, c, q) /\ IecBehind(a, y, u, f, c, w, h)
  BY DEF IecOnLine
<1>2. /\ a \in Nat /\ y \in Nat /\ v \in Nat /\ a <= y /\ y <= v /\ v - a <= IecK
      /\ ac = IecNum(a) /\ rx = IecNum(y) /\ vs = IecNum(v)
      /\ (c = None <=> a = v) /\ IecSpans(q, y, v) /\ IecFresh(y, a, c)
  BY <1>1 DEF IecHolds
<1>3. (vs - ac) % Modulus = v - a
  BY <1>2, IecNumIs
<1>4. v + 1 - a <= IecK /\ v + 1 \in Nat /\ y <= v + 1 /\ a # v + 1
  BY <1>2, <1>3, SessionAssumption
<1>5. Iec!Next1(vs) = IecNum(v + 1)
  BY <1>2, IecNumIs
<1>6. IecSpans(Append(q, j), y, v + 1)
  BY <1>2, IecDownMore
<1>7. PICK e : e = Iec!Counted(c)
  OBVIOUS
<1>8. e # None /\ e \in Nat /\ (c # None => e = c) /\ (c = None => e = 0)
  BY <1>7, SessionAssumption DEF Iec!Counted, IecAge
<1>9. IecFresh(y, a, e)
  BY <1>2, <1>8 DEF IecFresh
<1>10. IecBehind(a, y, u, f, e, w, h)
  <2>1. PICK x \in Nat : a <= x /\ x <= y /\ IecAcks(w, a, x) /\ IecTimed(u, f, x, y, a, c, h)
    BY <1>1 DEF IecBehind
  <2>2. f # None => f \in Nat
    BY DEF IecAge
  <2>3. IecTimed(u, f, x, y, a, e, h)
    BY <1>8, <2>1, <2>2 DEF IecTimed
  <2>4. QED
    BY <2>1, <2>3 DEF IecBehind
<1>11. IecHolds(a, y, v + 1, rx, IecNum(v + 1), ac, e, Append(q, j))
  BY <1>2, <1>4, <1>6, <1>8, <1>9 DEF IecHolds
<1>12. QED
  BY <1>5, <1>7, <1>10, <1>11 DEF IecOnLine

LEMMA IecLineTold ==
  ASSUME NEW rx, NEW u, NEW f, NEW vs, NEW ac, NEW c, NEW w, NEW q \in Seq(IecDownFrames),
         NEW h, IecOnLine(rx, u, f, vs, ac, c, w, q, h), NEW j \in IecDownFrames, ~IecIsInfo(j)
  PROVE  IecOnLine(rx, u, f, vs, ac, c, w, Append(q, j), h)
<1>1. PICK a, y, v : IecHolds(a, y, v, rx, vs, ac, c, q) /\ IecBehind(a, y, u, f, c, w, h)
  BY DEF IecOnLine
<1>2. v \in Nat /\ IecSpans(q, y, v)
  BY <1>1 DEF IecHolds
<1>3. IecSpans(Append(q, j), y, v)
  BY <1>2, IecDownMore
<1>4. IecHolds(a, y, v, rx, vs, ac, c, Append(q, j))
  BY <1>1, <1>3 DEF IecHolds
<1>5. QED
  BY <1>1, <1>4 DEF IecOnLine

LEMMA IecLineHeard ==
  ASSUME NEW rx, NEW u \in Nat, NEW f \in IecAge, NEW vs, NEW ac, NEW c \in IecAge,
         NEW w \in Seq(IecUpFrames), NEW q, NEW h \in BOOLEAN,
         IecOnLine(rx, u, f, vs, ac, c, w, q, h), w # <<>>
  PROVE  IF IecIsAck(Head(w))
         THEN LET rsn == Head(w).rsn IN
                IecOnLine(rx, u, f, vs, rsn,
                          IF rsn = vs THEN None ELSE IF rsn = ac THEN c ELSE 0, Tail(w), q, h)
         ELSE IecOnLine(rx, u, f, vs, ac, c, Tail(w), q, h)
<1>1. PICK a, y, v : IecHolds(a, y, v, rx, vs, ac, c, q) /\ IecBehind(a, y, u, f, c, w, h)
  BY DEF IecOnLine
<1>2. /\ a \in Nat /\ y \in Nat /\ v \in Nat /\ a <= y /\ y <= v /\ v - a <= IecK
      /\ ac = IecNum(a) /\ rx = IecNum(y) /\ vs = IecNum(v)
      /\ (c = None <=> a = v) /\ IecSpans(q, y, v) /\ IecFresh(y, a, c)
  BY <1>1 DEF IecHolds
<1>3. PICK x \in Nat : a <= x /\ x <= y /\ IecAcks(w, a, x) /\ IecTimed(u, f, x, y, a, c, h)
  BY <1>1 DEF IecBehind
<1>4. PICK z \in Nat : /\ a <= z /\ z <= x /\ IecAcks(Tail(w), z, x)
                       /\ IF IecIsAck(Head(w)) THEN Head(w).rsn = IecNum(z) ELSE z = a
  BY <1>2, <1>3, IecUpRest
<1>5. CASE IecIsAck(Head(w))
  <2>1. PICK rsn : rsn = Head(w).rsn
    OBVIOUS
  <2>2. PICK e : e = (IF rsn = vs THEN None ELSE IF rsn = ac THEN c ELSE 0)
    OBVIOUS
  <2>3. rsn = IecNum(z) /\ z <= y /\ z <= v /\ v - z <= IecK /\ z - a <= IecK
    BY <1>2, <1>3, <1>4, <1>5, <2>1, SessionAssumption
  <2>4. (rsn = vs <=> z = v) /\ (rsn = ac <=> z = a)
    <3>1. IecNum(z) = IecNum(v) <=> z = v
      BY <1>2, <2>3, IecNumIs
    <3>2. IecNum(a) = IecNum(z) <=> a = z
      BY <1>2, <1>4, <2>3, IecNumIs
    <3>3. QED
      BY <1>2, <2>3, <3>1, <3>2
  <2>5. /\ e = None <=> z = v
        /\ e # None => (IF z = a THEN e = c ELSE e = 0)
    BY <1>2, <2>2, <2>4, SessionAssumption
  <2>6. IecFresh(y, z, e)
    BY <1>2, <2>5 DEF IecFresh
  <2>7. IecHolds(z, y, v, rx, vs, rsn, e, q)
    BY <1>2, <2>3, <2>5, <2>6 DEF IecHolds
  <2>8. IecTimed(u, f, x, y, z, e, h)
    <3>1. f # None => f \in Nat
      BY DEF IecAge
    <3>2. QED
      BY <1>3, <2>5, <3>1 DEF IecTimed
  <2>9. IecBehind(z, y, u, f, e, Tail(w), h)
    BY <1>3, <1>4, <2>8 DEF IecBehind
  <2>10. IecOnLine(rx, u, f, vs, rsn, e, Tail(w), q, h)
    BY <2>7, <2>9 DEF IecOnLine
  <2>11. QED
    BY <1>5, <2>1, <2>2, <2>10
<1>6. CASE ~IecIsAck(Head(w))
  <2>1. IecAcks(Tail(w), a, x)
    BY <1>4, <1>6
  <2>2. IecBehind(a, y, u, f, c, Tail(w), h)
    BY <1>3, <2>1 DEF IecBehind
  <2>3. IecOnLine(rx, u, f, vs, ac, c, Tail(w), q, h)
    BY <1>1, <2>2 DEF IecOnLine
  <2>4. QED
    BY <1>6, <2>3
<1>7. QED
  BY <1>5, <1>6

\* Everything sent has been read: what ages is not acknowledged, and what the
\* driver owes was there before.
LEMMA IecLineOlder ==
  ASSUME NEW rx, NEW u \in Nat, NEW f \in IecAge, NEW vs, NEW ac, NEW c \in IecAge,
         NEW w \in Seq(IecUpFrames), NEW h \in BOOLEAN, NEW g \in IecAge, NEW e \in IecAge,
         IecOnLine(rx, u, f, vs, ac, c, w, <<>>, h),
         g = None <=> f = None, e = None <=> c = None,
         f # None /\ c # None /\ c <= f => e <= g
  PROVE  IecOnLine(rx, u, g, vs, ac, e, w, <<>>, h)
<1>1. PICK a, y, v : IecHolds(a, y, v, rx, vs, ac, c, <<>>) /\ IecBehind(a, y, u, f, c, w, h)
  BY DEF IecOnLine
<1>2. /\ a \in Nat /\ y \in Nat /\ v \in Nat /\ a <= y /\ y <= v
      /\ (c = None <=> a = v) /\ IecSpans(<<>>, y, v) /\ IecFresh(y, a, c)
  BY <1>1 DEF IecHolds
<1>3. y = v
  <2>1. PICK q \in Seq(IecDownFrames) : q = <<>>
    BY IecNone
  <2>2. QED
    BY <1>2, <2>1, IecSpansRise
<1>4. IecFresh(y, a, e)
  BY <1>2, <1>3 DEF IecFresh
<1>5. IecHolds(a, y, v, rx, vs, ac, e, <<>>)
  BY <1>1, <1>4 DEF IecHolds
<1>6. IecBehind(a, y, u, g, e, w, h)
  <2>1. PICK x \in Nat : a <= x /\ x <= y /\ IecAcks(w, a, x) /\ IecTimed(u, f, x, y, a, c, h)
    BY <1>1 DEF IecBehind
  <2>2. IecTimed(u, g, x, y, a, e, h)
    BY <2>1 DEF IecTimed
  <2>3. QED
    BY <2>1, <2>2 DEF IecBehind
<1>7. QED
  BY <1>5, <1>6 DEF IecOnLine

\* What is set of a station.
IecStart(st) == [st EXCEPT !.started = TRUE]
IecSet(st, v, a, o) == [vs |-> v, acked |-> a, oldest |-> o, started |-> st.started]
LEMMA IecSetHas ==
  ASSUME NEW st \in IecStation, NEW v \in 0..(Modulus - 1), NEW a \in 0..(Modulus - 1),
         NEW o \in {None} \cup 0..(IecT2 + 2), NEW z, z = IecSet(st, v, a, o)
  PROVE  z \in IecStation /\ z.vs = v /\ z.acked = a /\ z.oldest = o
<1>1. st.started \in BOOLEAN
  BY DEF IecStation
<1>2. z \in IecStation
  BY <1>1 DEF IecSet, IecStation
<1>3. QED
  BY <1>2 DEF IecSet

LEMMA IecSetStarts ==
  ASSUME NEW st, NEW v, NEW a, NEW o, NEW z, z = IecSet(st, v, a, o)
  PROVE  z.started = st.started
  BY DEF IecSet

IecSetOldest(st, o) == [st EXCEPT !.oldest = o]
LEMMA IecSetOldestIs ==
  ASSUME NEW p, NEW q, NEW r, NEW b, NEW o, NEW st,
         st = [vs |-> p, acked |-> q, oldest |-> r, started |-> b]
  PROVE  IecSetOldest(st, o) = [vs |-> p, acked |-> q, oldest |-> o, started |-> b]
  BY DEF IecSetOldest

LEMMA IecSetSends ==
  ASSUME NEW st \in IecStation, NEW v, NEW o
  PROVE  [st EXCEPT !.vs = v, !.oldest = o] = IecSet(st, v, st.acked, o)
<1>1. PICK b, p, q, r : st = [vs |-> p, acked |-> q, oldest |-> r, started |-> b]
  BY DEF IecStation
<1>2. st.acked = q /\ st.started = b
  BY <1>1
<1>3. [st EXCEPT !.vs = v, !.oldest = o] = IecSetOldest([st EXCEPT !.vs = v], o)
  BY DEF IecSetOldest
<1>4. [st EXCEPT !.vs = v] = [vs |-> v, acked |-> q, oldest |-> r, started |-> b]
  BY <1>1
<1>5. IecSetOldest([st EXCEPT !.vs = v], o) = [vs |-> v, acked |-> q, oldest |-> o, started |-> b]
  BY <1>4, IecSetOldestIs
<1>6. IecSet(st, v, st.acked, o) = [vs |-> v, acked |-> q, oldest |-> o, started |-> b]
  BY <1>2 DEF IecSet
<1>7. QED
  BY <1>3, <1>5, <1>6

LEMMA IecSetAcks ==
  ASSUME NEW st \in IecStation, NEW a, NEW o
  PROVE  [st EXCEPT !.acked = a, !.oldest = o] = IecSet(st, st.vs, a, o)
<1>1. PICK b, p, q, r : st = [vs |-> p, acked |-> q, oldest |-> r, started |-> b]
  BY DEF IecStation
<1>2. st.vs = p /\ st.started = b
  BY <1>1
<1>3. [st EXCEPT !.acked = a, !.oldest = o] = IecSetOldest([st EXCEPT !.acked = a], o)
  BY DEF IecSetOldest
<1>4. [st EXCEPT !.acked = a] = [vs |-> p, acked |-> a, oldest |-> r, started |-> b]
  BY <1>1
<1>5. IecSetOldest([st EXCEPT !.acked = a], o) = [vs |-> p, acked |-> a, oldest |-> o, started |-> b]
  BY <1>4, IecSetOldestIs
<1>6. IecSet(st, st.vs, a, o) = [vs |-> p, acked |-> a, oldest |-> o, started |-> b]
  BY <1>2 DEF IecSet
<1>7. QED
  BY <1>3, <1>5, <1>6

LEMMA IecSetAges ==
  ASSUME NEW st \in IecStation, NEW o
  PROVE  [st EXCEPT !.oldest = o] = IecSet(st, st.vs, st.acked, o)
<1>1. PICK b, p, q, r : st = [vs |-> p, acked |-> q, oldest |-> r, started |-> b]
  BY DEF IecStation
<1>2. st.vs = p /\ st.acked = q /\ st.started = b
  BY <1>1
<1>3. [st EXCEPT !.oldest = o] = [vs |-> p, acked |-> q, oldest |-> o, started |-> b]
  BY <1>1
<1>4. QED
  BY <1>2, <1>3 DEF IecSet

LEMMA IecStartIs ==
  ASSUME NEW st \in IecStation
  PROVE  /\ IecStart(st) \in IecStation /\ IecStart(st).vs = st.vs /\ IecStart(st).acked = st.acked
         /\ IecStart(st).oldest = st.oldest
  BY DEF IecStart, IecStation

\* Whatever the station adds to what is under way.
LEMMA IecBegunMore ==
  ASSUME IecInv, phase' = phase, drv' = drv, early' = early, NEW j \in IecDownFrames,
         toDriver' = Append(toDriver, j), IecIsInfo(j) => station.started = TRUE,
         station'.started = station.started \/ j.kind = "STARTDT con"
  PROVE  IecBegun'
<1>1. SUFFICES ASSUME phase = "starting"
      PROVE  /\ drv.started = FALSE /\ drv.unacked = 0 /\ drv.first = None /\ drv.test = None
             /\ early = FALSE
             /\ station'.started = TRUE => IecConfirms(toDriver', Len(toDriver'))
             /\ IecHeralded(toDriver')
  BY DEF IecBegun
<1>2. /\ drv.started = FALSE /\ drv.unacked = 0 /\ drv.first = None /\ drv.test = None
      /\ early = FALSE
  BY <1>1 DEF IecInv, IecBegun
<1>3. /\ station.started = TRUE => IecConfirms(toDriver, Len(toDriver))
      /\ IecHeralded(toDriver)
  BY <1>1 DEF IecInv, IecBegun
<1>4. PICK q \in Seq(IecDownFrames) : q = toDriver
  BY DEF IecInv, IecTyped
<1>5. /\ IecHeralded(Append(q, j))
      /\ IecConfirms(q, Len(q)) \/ j.kind = "STARTDT con" => IecConfirms(Append(q, j), Len(Append(q, j)))
  BY <1>3, <1>4, IecHeraldedMore
<1>6. IecHeralded(toDriver')
  BY <1>4, <1>5
<1>7. station'.started = TRUE => IecConfirms(toDriver', Len(toDriver'))
  BY <1>3, <1>4, <1>5
<1>8. QED
  BY <1>2, <1>6, <1>7

\* Nothing added.
LEMMA IecBegunSame ==
  ASSUME IecInv, phase' = phase, drv' = drv, early' = early, toDriver' = toDriver,
         station'.started = station.started
  PROVE  IecBegun'
  BY DEF IecInv, IecBegun

LEMMA IecClockSame ==
  ASSUME IecInv, phase' = phase, drv' = drv, linkServed' = linkServed
  PROVE  IecClock'
  BY DEF IecInv, IecClock

\* What is awaited of the station is still to be read, or answered.
LEMMA IecAliveSame ==
  ASSUME IecInv, phase' = phase, drv' = drv, toStation' = toStation, mute' = mute \/ mute' = TRUE,
         station'.started = station.started, toDriver' = toDriver \/ toDriver' # <<>>
  PROVE  IecAnswering'
  BY DEF IecInv, IecAnswering

LEMMA IecAwaitsTail ==
  ASSUME NEW w \in Seq(IecUpFrames), w # <<>>, NEW k, IecAwaits(w, k), Head(w).kind # k
  PROVE  IecAwaits(Tail(w), k)
<1>1. PICK i \in 1..Len(w) : w[i].kind = k
  BY DEF IecAwaits
<1>2. i # 1
  BY <1>1
<1>3. i - 1 \in 1..Len(Tail(w)) /\ Tail(w)[i - 1] = w[i]
  BY <1>2
<1>4. QED
  BY <1>1, <1>3 DEF IecAwaits

LEMMA IecAwaitsMore ==
  ASSUME NEW w \in Seq(IecUpFrames), NEW o \in Seq(IecUpFrames), NEW k
  PROVE  IecAwaits(w, k) \/ IecAwaits(o, k) => IecAwaits(w \o o, k)
<1>1. Len(w \o o) = Len(w) + Len(o) /\ Len(w) \in Nat /\ Len(o) \in Nat
  OBVIOUS
<1>2. ASSUME NEW i \in 1..Len(w), w[i].kind = k PROVE IecAwaits(w \o o, k)
  <2>1. i \in 1..Len(w \o o) /\ (w \o o)[i] = w[i]
    BY <1>1
  <2>2. QED
    BY <1>2, <2>1 DEF IecAwaits
<1>3. ASSUME NEW i \in 1..Len(o), o[i].kind = k PROVE IecAwaits(w \o o, k)
  <2>1. Len(w) + i \in 1..Len(w \o o) /\ (w \o o)[Len(w) + i] = o[i]
    BY <1>1
  <2>2. QED
    BY <1>3, <2>1 DEF IecAwaits
<1>4. QED
  BY <1>2, <1>3 DEF IecAwaits

LEMMA IecAwaitsLast ==
  ASSUME NEW o \in Seq(IecUpFrames), NEW f
  PROVE  IecAwaits(Append(o, f), f.kind)
<1>1. Len(Append(o, f)) \in 1..Len(Append(o, f)) /\ Append(o, f)[Len(Append(o, f))] = f
  OBVIOUS
<1>2. QED
  BY <1>1 DEF IecAwaits

LEMMA IecAliveHeard ==
  ASSUME IecInv, toStation # <<>>, toStation' = Tail(toStation), phase' = phase, drv' = drv, mute' = mute,
         station.started = TRUE => station'.started = TRUE,
         Head(toStation).kind = "STARTDT act" => station'.started = TRUE,
         (toDriver' = toDriver /\ Head(toStation).kind # "TESTFR act") \/ toDriver' # <<>>
  PROVE  IecAnswering'
<1>1. toStation \in Seq(IecUpFrames)
  BY DEF IecInv, IecTyped
<1>2. SUFFICES ASSUME ~mute
      PROVE  /\ phase = "starting" =>
                  drv.silent = 0 /\ (station'.started = TRUE \/ IecAwaits(toStation', "STARTDT act"))
             /\ phase = "up" /\ drv.test # None =>
                  drv.test = 0 /\ (toDriver' # <<>> \/ IecAwaits(toStation', "TESTFR act"))
  BY DEF IecAnswering
<1>3. ASSUME phase = "starting"
      PROVE  drv.silent = 0 /\ (station'.started = TRUE \/ IecAwaits(toStation', "STARTDT act"))
  BY <1>1, <1>2, <1>3, IecAwaitsTail DEF IecInv, IecAnswering
<1>4. ASSUME phase = "up", drv.test # None
      PROVE  drv.test = 0 /\ (toDriver' # <<>> \/ IecAwaits(toStation', "TESTFR act"))
  BY <1>1, <1>2, <1>4, IecAwaitsTail DEF IecInv, IecAnswering
<1>5. QED
  BY <1>3, <1>4

LEMMA IecSendsKeeps ==
  ASSUME IecInv, NEW k \in {"I", "EI"}, Iec!StationSends(k), gi' = gi PROVE IecInv'
<1>1. /\ station.started /\ (station.vs - station.acked) % Modulus < IecK
      /\ toDriver' = Append(toDriver, Iec!Frame(k, station.vs, 0))
      /\ station' = [station EXCEPT !.vs = Iec!Next1(station.vs), !.oldest = Iec!Counted(station.oldest)]
      /\ phase' = phase /\ drv' = drv /\ toStation' = toStation /\ mute' = mute
      /\ linkServed' = linkServed /\ early' = early /\ fault' = fault
  BY DEF Iec!StationSends, Iec!Sent, Iec!Owed
<1>2. PICK st, j, v, o : /\ st = station /\ j = Iec!Frame(k, st.vs, 0) /\ v = Iec!Next1(st.vs)
                         /\ o = Iec!Counted(st.oldest)
  OBVIOUS
<1>3. PICK a, y, n : IecHolds(a, y, n, drv.rx, station.vs, station.acked, station.oldest, toDriver)
  BY DEF IecInv, IecLine, IecOnLine
<1>4. n \in Nat /\ st.vs = IecNum(n)
  BY <1>2, <1>3 DEF IecHolds
<1>5. j \in IecDownFrames /\ IecIsInfo(j) /\ j.ssn = st.vs
  BY <1>2, <1>4, IecDownFrame
<1>6. v \in 0..(Modulus - 1)
  <2>1. v = IecNum(n + 1) /\ n + 1 \in Nat
    BY <1>2, <1>4, IecNumIs
  <2>2. QED
    BY <2>1, IecNumIs
<1>7. st \in IecStation /\ st.acked \in 0..(Modulus - 1) /\ st.oldest \in {None} \cup 0..(IecT2 + 2)
  BY <1>2 DEF IecInv, IecTyped, IecStation
<1>8. o \in {None} \cup 0..(IecT2 + 2)
  BY <1>2, <1>7, SessionAssumption DEF Iec!Counted
<1>9. station' = IecSet(st, v, st.acked, o)
  <2>1. station' = [st EXCEPT !.vs = v, !.oldest = o]
    BY <1>1, <1>2
  <2>2. [st EXCEPT !.vs = v, !.oldest = o] = IecSet(st, v, st.acked, o)
    BY <1>7, IecSetSends
  <2>3. QED
    BY <2>1, <2>2
<1>10. /\ station' \in IecStation /\ station'.vs = v /\ station'.acked = st.acked
       /\ station'.oldest = o /\ station'.started = st.started
  <2>1. PICK z : z = station'
    OBVIOUS
  <2>2. z \in IecStation /\ z.vs = v /\ z.acked = st.acked /\ z.oldest = o
    BY <1>6, <1>7, <1>8, <1>9, <2>1, IecSetHas
  <2>3. z.started = st.started
    BY <1>9, <2>1, IecSetStarts
  <2>4. QED
    BY <2>1, <2>2, <2>3
<1>11. toDriver' = Append(toDriver, j)
  BY <1>1, <1>2
<1>12. IecTyped'
  <2>1. toDriver' \in Seq(IecDownFrames)
    BY <1>5, <1>11 DEF IecInv, IecTyped
  <2>2. QED
    BY <1>1, <1>10, <2>1 DEF IecInv, IecTyped
<1>13. IecLine'
  <2>1. PICK rx, u, f, vs, ac, c, w, q, h :
          /\ rx = drv.rx /\ u = drv.unacked /\ f = drv.first /\ vs = station.vs /\ ac = station.acked
          /\ c = station.oldest /\ w = toStation /\ q = toDriver /\ h = early
    OBVIOUS
  <2>2. u \in Nat /\ f \in IecAge /\ c \in IecAge
    BY <2>1, IecFacts, SessionAssumption DEF IecInv
  <2>3. q \in Seq(IecDownFrames) /\ h \in BOOLEAN
    BY <2>1 DEF IecInv, IecTyped
  <2>4. IecOnLine(rx, u, f, vs, ac, c, w, q, h)
    BY <2>1 DEF IecInv, IecLine
  <2>5. (vs - ac) % Modulus < IecK /\ j.ssn = vs
    BY <1>1, <1>2, <1>5, <2>1
  <2>6. IecOnLine(rx, u, f, Iec!Next1(vs), ac, Iec!Counted(c), w, Append(q, j), h)
    BY ONLY <1>5, <2>2, <2>3, <2>4, <2>5, IecLineSent
  <2>7. /\ drv'.rx = rx /\ drv'.unacked = u /\ drv'.first = f /\ station'.vs = Iec!Next1(vs)
        /\ station'.acked = ac /\ station'.oldest = Iec!Counted(c) /\ toStation' = w
        /\ toDriver' = Append(q, j) /\ early' = h
    BY <1>1, <1>2, <1>10, <1>11, <2>1
  <2>8. QED
    BY <2>6, <2>7 DEF IecLine
<1>14. IecBegun'
  <2>1. station'.started = station.started
    BY <1>2, <1>10
  <2>2. station.started = TRUE
    BY <1>1, IecStarted DEF IecInv
  <2>3. QED
    BY <1>1, <1>5, <1>11, <2>1, <2>2, IecBegunMore
<1>15. IecClock'
  BY <1>1, IecClockSame
<1>16. IecAnswering'
  <2>1. station'.started = station.started
    BY <1>2, <1>10
  <2>2. toDriver' # <<>>
    BY <1>11 DEF IecInv, IecTyped
  <2>3. QED
    BY <1>1, <2>1, <2>2, IecAliveSame
<1>17. QED
  BY <1>12, <1>13, <1>14, <1>15, <1>16 DEF IecInv

LEMMA IecAdded ==
  ASSUME NEW q \in Seq(IecDownFrames), NEW j \in IecDownFrames
  PROVE  Append(q, j) \in Seq(IecDownFrames) /\ Append(q, j) # <<>>
<1>1. Append(q, j) \in Seq(IecDownFrames) /\ Len(Append(q, j)) = Len(q) + 1 /\ Len(q) \in Nat
  OBVIOUS
<1>2. Len(<<>>) = 0
  OBVIOUS
<1>3. QED
  BY <1>1, <1>2

LEMMA IecTailIs ==
  ASSUME NEW w \in Seq(IecUpFrames), w # <<>>
  PROVE  Tail(w) \in Seq(IecUpFrames)
  OBVIOUS

LEMMA IecOwes ==
  ASSUME IecInv
  PROVE  drv.unacked \in Nat /\ drv.first \in IecAge /\ station.oldest \in IecAge
<1>1. drv.unacked \in 0..(IecW - 1) /\ drv.first \in IecAge /\ station.oldest \in IecAge
  BY IecFacts DEF IecInv
<1>2. QED
  BY <1>1, SessionAssumption

LEMMA IecTestsKeeps ==
  ASSUME IecInv, Iec!StationTests, gi' = gi PROVE IecInv'
<1>1. /\ toDriver' = Append(toDriver, Iec!U("TESTFR act"))
      /\ phase' = phase /\ drv' = drv /\ toStation' = toStation /\ station' = station /\ mute' = mute
      /\ linkServed' = linkServed /\ early' = early /\ fault' = fault
  BY DEF Iec!StationTests, Iec!Sent
<1>2. PICK j : j = Iec!U("TESTFR act")
  OBVIOUS
<1>3. j \in IecDownFrames /\ ~IecIsInfo(j) /\ j.kind = "TESTFR act"
  BY <1>2, IecDownFrame
<1>4. toDriver' = Append(toDriver, j)
  BY <1>1, <1>2
<1>5. IecTyped'
  <2>1. toDriver' \in Seq(IecDownFrames)
    <3>1. toDriver \in Seq(IecDownFrames)
      BY DEF IecInv, IecTyped
    <3>2. QED
      BY <1>3, <1>4, <3>1, IecAdded
  <2>2. QED
    BY <1>1, <2>1 DEF IecInv, IecTyped
<1>6. IecLine'
  <2>1. toDriver \in Seq(IecDownFrames)
    BY DEF IecInv, IecTyped
  <2>2. IecOnLine(drv.rx, drv.unacked, drv.first, station.vs, station.acked, station.oldest,
                  toStation, Append(toDriver, j), early)
    BY <1>3, <2>1, IecLineTold DEF IecInv, IecLine
  <2>3. QED
    BY <1>1, <1>4, <2>2 DEF IecLine
<1>7. IecBegun'
  <2>1. station'.started = station.started \/ j.kind = "STARTDT con"
    BY <1>1
  <2>2. QED
    BY <1>1, <1>3, <1>4, <2>1, IecBegunMore
<1>8. IecClock'
  BY <1>1, IecClockSame
<1>9. IecAnswering'
  <2>1. toDriver' # <<>>
    BY <1>4 DEF IecInv, IecTyped
  <2>2. QED
    BY <1>1, <2>1, IecAliveSame
<1>10. QED
  BY <1>5, <1>6, <1>7, <1>8, <1>9 DEF IecInv

LEMMA IecSilenceKeeps ==
  ASSUME IecInv, Iec!Silence, gi' = gi PROVE IecInv'
<1>1. /\ mute' = TRUE /\ phase' = phase /\ drv' = drv /\ toStation' = toStation /\ toDriver' = toDriver
      /\ station' = station /\ linkServed' = linkServed /\ early' = early /\ fault' = fault
  BY DEF Iec!Silence
<1>2. IecTyped'
  BY <1>1 DEF IecInv, IecTyped
<1>3. IecLine'
  BY <1>1 DEF IecInv, IecLine
<1>4. IecBegun'
  BY <1>1, IecBegunSame
<1>5. IecClock'
  BY <1>1, IecClockSame
<1>6. IecAnswering'
  BY <1>1, IecAliveSame
<1>7. QED
  BY <1>2, <1>3, <1>4, <1>5, <1>6 DEF IecInv

\* The station reads: the confirmation that it is asked for.
LEMMA IecHearsStart ==
  ASSUME IecInv, gi' = gi, toStation # <<>>, Head(toStation).kind = "STARTDT act",
         toStation' = Tail(toStation), station' = IecStart(station),
         toDriver' = Append(toDriver, Iec!U("STARTDT con")),
         phase' = phase, drv' = drv, mute' = mute, linkServed' = linkServed, early' = early, fault' = fault
  PROVE  IecInv'
<1>1. PICK j, w, q, st : j = Iec!U("STARTDT con") /\ w = toStation /\ q = toDriver /\ st = station
  OBVIOUS
<1>2. /\ w \in Seq(IecUpFrames) /\ q \in Seq(IecDownFrames) /\ st \in IecStation /\ early \in BOOLEAN
      /\ w # <<>> /\ ~IecIsAck(Head(w))
  BY <1>1 DEF IecInv, IecTyped, IecIsAck
<1>3. j \in IecDownFrames /\ ~IecIsInfo(j) /\ j.kind = "STARTDT con"
  BY <1>1, IecDownFrame
<1>4. /\ station' \in IecStation /\ station'.vs = station.vs /\ station'.acked = station.acked
      /\ station'.oldest = station.oldest
  BY <1>1, <1>2, IecStartIs
<1>5. toDriver' = Append(q, j) /\ toStation' = Tail(w)
  BY <1>1
<1>6. IecTyped'
  <2>1. toDriver' \in Seq(IecDownFrames) /\ toStation' \in Seq(IecUpFrames)
    BY <1>2, <1>3, <1>5, IecAdded, IecTailIs
  <2>2. QED
    BY <1>4, <2>1 DEF IecInv, IecTyped
<1>7. IecLine'
  <2>1. drv.unacked \in Nat /\ drv.first \in IecAge /\ station.oldest \in IecAge
    BY IecOwes
  <2>2. IecOnLine(drv.rx, drv.unacked, drv.first, station.vs, station.acked, station.oldest, w, q, early)
    BY <1>1 DEF IecInv, IecLine
  <2>3. IecOnLine(drv.rx, drv.unacked, drv.first, station.vs, station.acked, station.oldest,
                  Tail(w), q, early)
    BY <1>2, <2>1, <2>2, IecLineHeard
  <2>4. IecOnLine(drv.rx, drv.unacked, drv.first, station.vs, station.acked, station.oldest,
                  Tail(w), Append(q, j), early)
    BY <1>2, <1>3, <2>3, IecLineTold
  <2>5. QED
    BY <1>4, <1>5, <2>4 DEF IecLine
<1>8. IecBegun'
  <2>1. station'.started = TRUE
    BY <1>1, <1>2 DEF IecStart, IecStation
  <2>2. toDriver' = Append(toDriver, j)
    BY <1>1, <1>5
  <2>3. station'.started = station.started \/ j.kind = "STARTDT con"
    BY <1>3
  <2>4. QED
    BY <1>3, <2>2, <2>3, IecBegunMore
<1>9. IecClock'
  BY IecClockSame
<1>10. IecAnswering'
  <2>1. station'.started = TRUE
    BY <1>1, <1>2 DEF IecStart, IecStation
  <2>2. toDriver' # <<>>
    BY <1>2, <1>3, <1>5, IecAdded
  <2>3. QED
    BY <2>1, <2>2, IecAliveHeard
<1>11. QED
  BY <1>6, <1>7, <1>8, <1>9, <1>10 DEF IecInv

\* A test, which it answers.
LEMMA IecHearsTest ==
  ASSUME IecInv, gi' = gi, toStation # <<>>, Head(toStation).kind = "TESTFR act",
         toStation' = Tail(toStation), station' = station,
         toDriver' = Append(toDriver, Iec!U("TESTFR con")),
         phase' = phase, drv' = drv, mute' = mute, linkServed' = linkServed, early' = early, fault' = fault
  PROVE  IecInv'
<1>1. PICK j, w, q : j = Iec!U("TESTFR con") /\ w = toStation /\ q = toDriver
  OBVIOUS
<1>2. /\ w \in Seq(IecUpFrames) /\ q \in Seq(IecDownFrames) /\ early \in BOOLEAN
      /\ w # <<>> /\ ~IecIsAck(Head(w))
  BY <1>1 DEF IecInv, IecTyped, IecIsAck
<1>3. j \in IecDownFrames /\ ~IecIsInfo(j)
  BY <1>1, IecDownFrame
<1>4. toDriver' = Append(q, j) /\ toStation' = Tail(w)
  BY <1>1
<1>5. IecTyped'
  <2>1. toDriver' \in Seq(IecDownFrames) /\ toStation' \in Seq(IecUpFrames)
    BY <1>2, <1>3, <1>4, IecAdded, IecTailIs
  <2>2. QED
    BY <2>1 DEF IecInv, IecTyped
<1>6. IecLine'
  <2>1. drv.unacked \in Nat /\ drv.first \in IecAge /\ station.oldest \in IecAge
    BY IecOwes
  <2>2. IecOnLine(drv.rx, drv.unacked, drv.first, station.vs, station.acked, station.oldest, w, q, early)
    BY <1>1 DEF IecInv, IecLine
  <2>3. IecOnLine(drv.rx, drv.unacked, drv.first, station.vs, station.acked, station.oldest,
                  Tail(w), q, early)
    BY <1>2, <2>1, <2>2, IecLineHeard
  <2>4. IecOnLine(drv.rx, drv.unacked, drv.first, station.vs, station.acked, station.oldest,
                  Tail(w), Append(q, j), early)
    BY <1>2, <1>3, <2>3, IecLineTold
  <2>5. QED
    BY <1>4, <2>4 DEF IecLine
<1>7. IecBegun'
  <2>1. toDriver' = Append(toDriver, j)
    BY <1>1, <1>4
  <2>2. station'.started = station.started \/ j.kind = "STARTDT con"
    OBVIOUS
  <2>3. QED
    BY <1>3, <2>1, <2>2, IecBegunMore
<1>8. IecClock'
  BY IecClockSame
<1>9. IecAnswering'
  <2>1. toDriver' # <<>>
    BY <1>2, <1>3, <1>4, IecAdded
  <2>2. QED
    BY <2>1, IecAliveHeard
<1>10. QED
  BY <1>5, <1>6, <1>7, <1>8, <1>9 DEF IecInv

\* The answer to a test of its own.
LEMMA IecHearsAnswer ==
  ASSUME IecInv, gi' = gi, toStation # <<>>, ~IecIsAck(Head(toStation)),
         Head(toStation).kind = "TESTFR con", toStation' = Tail(toStation), station' = station, toDriver' = toDriver,
         phase' = phase, drv' = drv, mute' = mute, linkServed' = linkServed, early' = early, fault' = fault
  PROVE  IecInv'
<1>1. toStation \in Seq(IecUpFrames) /\ early \in BOOLEAN
  BY DEF IecInv, IecTyped
<1>2. IecTyped'
  <2>1. toStation' \in Seq(IecUpFrames)
    BY <1>1, IecTailIs
  <2>2. QED
    BY <2>1 DEF IecInv, IecTyped
<1>3. IecLine'
  <2>1. drv.unacked \in Nat /\ drv.first \in IecAge /\ station.oldest \in IecAge
    BY IecOwes
  <2>2. IecOnLine(drv.rx, drv.unacked, drv.first, station.vs, station.acked, station.oldest,
                  toStation, toDriver, early)
    BY DEF IecInv, IecLine
  <2>3. IecOnLine(drv.rx, drv.unacked, drv.first, station.vs, station.acked, station.oldest,
                  Tail(toStation), toDriver, early)
    BY <1>1, <2>1, <2>2, IecLineHeard
  <2>4. QED
    BY <2>3 DEF IecLine
<1>4. IecBegun'
  BY IecBegunSame
<1>5. IecClock'
  BY IecClockSame
<1>6. IecAnswering'
  BY IecAliveHeard
<1>7. QED
  BY <1>2, <1>3, <1>4, <1>5, <1>6 DEF IecInv

\* An acknowledgement.
LEMMA IecHearsAck ==
  ASSUME IecInv, gi' = gi, toStation # <<>>, IecIsAck(Head(toStation)),
         toStation' = Tail(toStation), station' = Iec!Acked(Head(toStation).rsn), toDriver' = toDriver,
         phase' = phase, drv' = drv, mute' = mute, linkServed' = linkServed, early' = early, fault' = fault
  PROVE  IecInv'
<1>1. PICK st, rsn : st = station /\ rsn = Head(toStation).rsn
  OBVIOUS
<1>2. PICK o : o = (IF rsn = st.vs THEN None ELSE IF rsn = st.acked THEN st.oldest ELSE 0)
  OBVIOUS
<1>3. toStation \in Seq(IecUpFrames) /\ early \in BOOLEAN /\ st \in IecStation
  BY <1>1 DEF IecInv, IecTyped
<1>4. /\ st.vs \in 0..(Modulus - 1) /\ st.oldest \in {None} \cup 0..(IecT2 + 2)
      /\ 0 \in {None} \cup 0..(IecT2 + 2)
  BY <1>3, SessionAssumption DEF IecStation
<1>5. o \in {None} \cup 0..(IecT2 + 2)
  BY <1>2, <1>4
<1>6. rsn \in 0..(Modulus - 1)
  <2>1. Head(toStation) \in IecUpFrames
    BY <1>3
  <2>2. QED
    BY <1>1, <2>1 DEF IecUpFrames, IecFrames
<1>7. station' = IecSet(st, st.vs, rsn, o)
  <2>1. station' = [st EXCEPT !.acked = rsn, !.oldest = o]
    BY <1>1, <1>2 DEF Iec!Acked
  <2>2. [st EXCEPT !.acked = rsn, !.oldest = o] = IecSet(st, st.vs, rsn, o)
    BY <1>3, IecSetAcks
  <2>3. QED
    BY <2>1, <2>2
<1>8. /\ station' \in IecStation /\ station'.vs = st.vs /\ station'.acked = rsn
      /\ station'.oldest = o /\ station'.started = st.started
  <2>1. PICK z : z = station'
    OBVIOUS
  <2>2. z \in IecStation /\ z.vs = st.vs /\ z.acked = rsn /\ z.oldest = o
    BY <1>3, <1>4, <1>5, <1>6, <1>7, <2>1, IecSetHas
  <2>3. z.started = st.started
    BY <1>7, <2>1, IecSetStarts
  <2>4. QED
    BY <2>1, <2>2, <2>3
<1>9. IecTyped'
  <2>1. toStation' \in Seq(IecUpFrames)
    BY <1>3
  <2>2. QED
    BY <1>8, <2>1 DEF IecInv, IecTyped
<1>10. IecLine'
  <2>1. drv.unacked \in Nat /\ drv.first \in IecAge /\ station.oldest \in IecAge
    BY IecOwes
  <2>2. IecOnLine(drv.rx, drv.unacked, drv.first, station.vs, station.acked, station.oldest,
                  toStation, toDriver, early)
    BY DEF IecInv, IecLine
  <2>3. IecOnLine(drv.rx, drv.unacked, drv.first, station.vs, rsn, o, Tail(toStation), toDriver, early)
    BY <1>1, <1>2, <1>3, <2>1, <2>2, IecLineHeard
  <2>4. QED
    BY <1>1, <1>8, <2>3 DEF IecLine
<1>11. IecBegun'
  BY <1>1, <1>8, IecBegunSame
<1>12. IecClock'
  BY IecClockSame
<1>13. IecAnswering'
  <2>1. Head(toStation).kind # "STARTDT act" /\ Head(toStation).kind # "TESTFR act"
    BY DEF IecIsAck
  <2>2. station'.started = station.started
    BY <1>1, <1>8
  <2>3. QED
    BY <2>1, <2>2, IecAliveHeard
<1>14. QED
  BY <1>9, <1>10, <1>11, <1>12, <1>13 DEF IecInv

LEMMA IecReadsKeeps ==
  ASSUME IecInv, Iec!StationReads, gi' = gi PROVE IecInv'
<1>1. PICK f : f = Head(toStation)
  OBVIOUS
<1>2. /\ toStation # <<>> /\ toStation' = Tail(toStation)
      /\ phase' = phase /\ drv' = drv /\ mute' = mute /\ linkServed' = linkServed /\ early' = early
      /\ fault' = fault
  BY DEF Iec!StationReads
<1>3. f.kind \in {"S", "I", "STARTDT act", "TESTFR act", "TESTFR con"}
  <2>1. f \in IecUpFrames
    BY <1>1, <1>2 DEF IecInv, IecTyped
  <2>2. QED
    BY <2>1 DEF IecUpFrames, IecFrames
<1>4. CASE f.kind = "STARTDT act"
  <2>1. Iec!Sent("STARTDT con") /\ station' = IecStart(station)
    BY <1>1, <1>4 DEF Iec!StationReads, IecStart
  <2>2. toDriver' = Append(toDriver, Iec!U("STARTDT con"))
    BY <2>1 DEF Iec!Sent
  <2>3. QED
    BY <1>1, <1>2, <1>4, <2>1, <2>2, IecHearsStart
<1>5. CASE f.kind = "TESTFR act"
  <2>1. Iec!Sent("TESTFR con") /\ station' = station
    BY <1>1, <1>5 DEF Iec!StationReads
  <2>2. toDriver' = Append(toDriver, Iec!U("TESTFR con"))
    BY <2>1 DEF Iec!Sent
  <2>3. QED
    BY <1>1, <1>2, <1>5, <2>1, <2>2, IecHearsTest
<1>6. CASE f.kind = "TESTFR con"
  <2>1. toDriver' = toDriver /\ station' = station
    BY <1>1, <1>6 DEF Iec!StationReads
  <2>2. ~IecIsAck(Head(toStation))
    BY <1>1, <1>6 DEF IecIsAck
  <2>3. QED
    BY <1>1, <1>2, <1>6, <2>1, <2>2, IecHearsAnswer
<1>7. CASE f.kind \in {"S", "I"}
  <2>1. toDriver' = toDriver /\ station' = Iec!Acked(Head(toStation).rsn)
    BY <1>1, <1>7 DEF Iec!StationReads
  <2>2. IecIsAck(Head(toStation))
    BY <1>1, <1>7 DEF IecIsAck
  <2>3. QED
    BY <1>2, <2>1, <2>2, IecHearsAck
<1>8. QED
  BY <1>3, <1>4, <1>5, <1>6, <1>7

\* An age goes up, or stays past the last one that matters.
LEMMA IecOlderIs ==
  ASSUME NEW m \in IecAge, NEW n \in Nat, NEW z, z = Iec!Older(m, n)
  PROVE  /\ z \in IecAge /\ (z = None <=> m = None)
         /\ m # None => /\ m \in Nat /\ z \in Nat /\ m <= z /\ z <= m + 1
                        /\ (m <= n => z = m + 1) /\ (m <= n + 1 => z <= n + 1)
<1>1. CASE m = None
  BY <1>1 DEF Iec!Older, IecAge
<1>2. CASE m # None
  <2>1. m \in Nat /\ m + 1 \in Nat
    BY <1>2 DEF IecAge
  <2>2. z = IF m > n THEN m ELSE m + 1
    BY <1>2 DEF Iec!Older
  <2>3. z \in Nat /\ z # None
    BY <2>1, <2>2, SessionAssumption
  <2>4. z \in IecAge
    BY <2>3 DEF IecAge
  <2>5. m <= z /\ z <= m + 1 /\ (m <= n => z = m + 1) /\ (m <= n + 1 => z <= n + 1)
    BY <2>1, <2>2
  <2>6. QED
    BY <1>2, <2>1, <2>3, <2>4, <2>5
<1>3. QED
  BY <1>1, <1>2

LEMMA IecOlderAge ==
  ASSUME NEW m \in IecAge, NEW n \in Nat, NEW z, z = Iec!Older(m, n), m # None => m \in 0..(n + 1)
  PROVE  /\ z \in IecAge /\ (z = None <=> m = None)
         /\ m # None => m \in Nat /\ z \in Nat /\ z <= n + 1 /\ z <= m + 1 /\ (m <= n => z = m + 1)
<1>1. CASE m = None
  BY <1>1, IecOlderIs
<1>2. CASE m # None
  <2>1. m \in Nat /\ m <= n + 1
    BY <1>2
  <2>2. /\ z \in IecAge /\ z \in Nat /\ z <= m + 1 /\ (m <= n => z = m + 1) /\ z <= n + 1 /\ z # None
    BY <1>2, <2>1, IecOlderIs, SessionAssumption
  <2>3. QED
    BY <1>2, <2>1, <2>2
<1>3. QED
  BY <1>1, <1>2

LEMMA IecRunsOlder ==
  ASSUME NEW f \in IecAge, NEW s \in Nat, NEW t \in IecAge, IecRuns(f, s, t, TRUE),
         NEW g, NEW r, NEW k, g = Iec!Older(f, IecT2), r = Iec!Older(s, IecT3 + IecT1 + 1),
         k = Iec!Older(t, IecT1)
  PROVE  IecRuns(g, r, k, FALSE)
<1>1. IecT1 \in Nat /\ IecT2 \in Nat /\ IecT3 \in Nat /\ IecT3 + IecT1 + 1 \in Nat /\ None \notin Nat
  BY SessionAssumption
<1>2. s \in IecAge /\ s # None
  BY <1>1 DEF IecAge
<1>3. /\ (g = None <=> f = None) /\ (k = None <=> t = None)
      /\ f # None => f \in Nat /\ g \in Nat /\ g <= f + 1
      /\ r \in Nat /\ r <= s + 1
      /\ t # None => t \in Nat /\ k \in Nat /\ (t <= IecT1 => k = t + 1)
  <2>1. (g = None <=> f = None) /\ (f # None => f \in Nat /\ g \in Nat /\ g <= f + 1)
    BY ONLY <1>1, IecOlderIs, f \in IecAge, g = Iec!Older(f, IecT2)
  <2>2. r \in Nat /\ r <= s + 1
    BY ONLY <1>1, <1>2, IecOlderIs, r = Iec!Older(s, IecT3 + IecT1 + 1)
  <2>3. (k = None <=> t = None) /\ (t # None => t \in Nat /\ k \in Nat /\ (t <= IecT1 => k = t + 1))
    BY ONLY <1>1, IecOlderIs, t \in IecAge, k = Iec!Older(t, IecT1)
  <2>4. QED
    BY <2>1, <2>2, <2>3
<1>4. g # None => g <= IecT2
  BY <1>1, <1>3 DEF IecRuns
<1>5. k = None => r <= IecT3
  BY <1>1, <1>3 DEF IecRuns
<1>6. k # None => r <= IecT3 + k
  BY <1>1, <1>3 DEF IecRuns
<1>7. QED
  BY <1>4, <1>5, <1>6 DEF IecRuns

\* What is set of a driver.
IecDrv(x, u, f, s, t, b) ==
  [rx |-> x, unacked |-> u, first |-> f, silent |-> s, test |-> t, started |-> b]
LEMMA IecDrvHas ==
  ASSUME NEW d, NEW x, NEW u, NEW f, NEW s, NEW t, NEW b, d = IecDrv(x, u, f, s, t, b)
  PROVE  d.rx = x /\ d.unacked = u /\ d.first = f /\ d.silent = s /\ d.test = t
  BY DEF IecDrv
LEMMA IecDrvStarted ==
  ASSUME NEW d, NEW x, NEW u, NEW f, NEW s, NEW t, NEW b, d = IecDrv(x, u, f, s, t, b)
  PROVE  d.started = b
  BY DEF IecDrv
LEMMA IecDrvIn ==
  ASSUME NEW x \in 0..(Modulus - 1), NEW u \in 0..(IecW - 1), NEW f \in {None} \cup 0..(IecT2 + 1),
         NEW s \in 0..(IecT1 + IecT3 + 2), NEW t \in {None} \cup 0..(IecT1 + 1), NEW b \in BOOLEAN
  PROVE  IecDrv(x, u, f, s, t, b) \in IecDriver
  BY DEF IecDrv, IecDriver

IecDrvFirst(d, v) == [d EXCEPT !.first = v]
IecDrvSilent(d, v) == [d EXCEPT !.silent = v]
IecDrvTest(d, v) == [d EXCEPT !.test = v]
LEMMA IecDrvSet ==
  ASSUME NEW d, NEW x, NEW u, NEW f, NEW s, NEW t, NEW b, NEW v, d = IecDrv(x, u, f, s, t, b)
  PROVE  /\ IecDrvFirst(d, v) = IecDrv(x, u, v, s, t, b)
         /\ IecDrvSilent(d, v) = IecDrv(x, u, f, v, t, b)
         /\ IecDrvTest(d, v) = IecDrv(x, u, f, s, v, b)
<1>1. IecDrvFirst(d, v) = IecDrv(x, u, v, s, t, b)
  BY DEF IecDrv, IecDrvFirst
<1>2. IecDrvSilent(d, v) = IecDrv(x, u, f, v, t, b)
  BY DEF IecDrv, IecDrvSilent
<1>3. IecDrvTest(d, v) = IecDrv(x, u, f, s, v, b)
  BY DEF IecDrv, IecDrvTest
<1>4. QED
  BY <1>1, <1>2, <1>3

IecPassed(d, g, r, k) == [d EXCEPT !.first = g, !.silent = r, !.test = k]
LEMMA IecTimeDrv ==
  ASSUME NEW d, NEW x, NEW u, NEW f, NEW s, NEW t, NEW b, d = IecDrv(x, u, f, s, t, b),
         NEW g, NEW r, NEW k
  PROVE  IecPassed(d, g, r, k) = IecDrv(x, u, g, r, k, b)
<1>1. IecPassed(d, g, r, k) = IecDrvTest(IecDrvSilent(IecDrvFirst(d, g), r), k)
  BY DEF IecPassed, IecDrvFirst, IecDrvSilent, IecDrvTest
<1>2. IecDrvFirst(d, g) = IecDrv(x, u, g, s, t, b)
  BY IecDrvSet
<1>3. IecDrvSilent(IecDrvFirst(d, g), r) = IecDrv(x, u, g, r, t, b)
  BY <1>2, IecDrvSet
<1>4. IecDrvTest(IecDrvSilent(IecDrvFirst(d, g), r), k) = IecDrv(x, u, g, r, k, b)
  BY <1>3, IecDrvSet
<1>5. QED
  BY <1>1, <1>4

LEMMA IecTimeKeeps ==
  ASSUME IecInv, Iec!Time, gi' = gi PROVE IecInv'
<1>1. /\ linkServed /\ toDriver = <<>> /\ phase # "closed"
      /\ drv' = [drv EXCEPT !.first = Iec!Older(drv.first, IecT2),
                            !.silent = Iec!Older(drv.silent, IecT3 + IecT1 + 1),
                            !.test = Iec!Older(drv.test, IecT1)]
      /\ station' = [station EXCEPT !.oldest = IF mute THEN station.oldest
                                               ELSE Iec!Older(station.oldest, IecT2 + 1)]
      /\ linkServed' = FALSE /\ phase' = phase /\ toStation' = toStation /\ toDriver' = toDriver
      /\ mute' = mute /\ early' = early /\ fault' = fault
  BY DEF Iec!Time
<1>2. PICK x, u, f, s, t, b : /\ x = drv.rx /\ u = drv.unacked /\ f = drv.first /\ s = drv.silent
                              /\ t = drv.test /\ b = drv.started
  OBVIOUS
<1>3. PICK g, r, k, st, o :
        /\ g = Iec!Older(f, IecT2) /\ r = Iec!Older(s, IecT3 + IecT1 + 1) /\ k = Iec!Older(t, IecT1)
        /\ st = station /\ o = (IF mute THEN st.oldest ELSE Iec!Older(st.oldest, IecT2 + 1))
  OBVIOUS
<1>4. /\ x \in 0..(Modulus - 1) /\ u \in 0..(IecW - 1) /\ f \in IecAge /\ (f # None => f \in 0..(IecT2 + 1))
      /\ s \in 0..(IecT1 + IecT3 + 2) /\ t \in IecAge /\ (t # None => t \in 0..(IecT1 + 1))
      /\ st.vs \in 0..(Modulus - 1) /\ st.acked \in 0..(Modulus - 1) /\ st.oldest \in IecAge
      /\ st.oldest # None => st.oldest \in 0..(IecT2 + 2)
  BY <1>2, <1>3, IecFacts DEF IecInv
<1>5. b \in BOOLEAN /\ st \in IecStation
  BY <1>2, <1>3, IecStarted DEF IecInv, IecTyped
<1>6. /\ IecT1 \in Nat /\ IecT2 \in Nat /\ IecT3 \in Nat /\ None \notin Nat /\ IecT3 + IecT1 + 1 \in Nat
      /\ IecT2 + 1 \in Nat /\ IecW \in Nat
  BY SessionAssumption
<1>7. s \in Nat /\ s \in IecAge /\ s # None /\ u \in Nat
  <2>1. s \in 0..(IecT1 + IecT3 + 2) /\ u \in 0..(IecW - 1)
    BY <1>4
  <2>2. s \in Nat /\ u \in Nat
    BY ONLY <1>6, <2>1
  <2>3. QED
    BY ONLY <1>6, <2>2 DEF IecAge
<1>8. /\ g \in IecAge /\ (g = None <=> f = None)
      /\ f # None => f \in Nat /\ g \in Nat /\ g <= IecT2 + 1 /\ g <= f + 1 /\ (f <= IecT2 => g = f + 1)
  <2>1. f \in IecAge /\ (f # None => f \in 0..(IecT2 + 1)) /\ g = Iec!Older(f, IecT2)
    BY <1>3, <1>4
  <2>2. QED
    BY ONLY <1>6, <2>1, IecOlderAge
<1>9. r \in Nat /\ r <= IecT3 + IecT1 + 2
  <2>1. s # None => s \in 0..(IecT3 + IecT1 + 1 + 1)
    <3>1. s \in 0..(IecT1 + IecT3 + 2)
      BY <1>4
    <3>2. QED
      BY ONLY <1>6, <3>1
  <2>2. r = Iec!Older(s, IecT3 + IecT1 + 1)
    BY <1>3
  <2>3. r \in Nat /\ r <= IecT3 + IecT1 + 1 + 1
    BY ONLY <1>6, <1>7, <2>1, <2>2, IecOlderAge
  <2>4. QED
    BY ONLY <1>6, <2>3
<1>10. k \in IecAge /\ (k = None <=> t = None) /\ (t # None => k \in Nat /\ k <= IecT1 + 1)
  <2>1. t \in IecAge /\ (t # None => t \in 0..(IecT1 + 1)) /\ k = Iec!Older(t, IecT1)
    BY <1>3, <1>4
  <2>2. QED
    BY ONLY <1>6, <2>1, IecOlderAge
<1>11. /\ o \in IecAge /\ (o = None <=> st.oldest = None)
       /\ st.oldest # None => st.oldest \in Nat /\ o \in Nat /\ o <= IecT2 + 2 /\ o <= st.oldest + 1
  <2>1. PICK c : c = st.oldest
    OBVIOUS
  <2>2. c \in IecAge /\ (c # None => c \in 0..(IecT2 + 2))
    BY <1>4, <2>1
  <2>3. c # None => c \in Nat /\ c <= IecT2 + 2 /\ c <= c + 1 /\ c \in 0..(IecT2 + 1 + 1)
    BY ONLY <1>6, <2>2
  <2>4. CASE mute
    <3>1. o = c
      BY <1>3, <2>1, <2>4
    <3>2. QED
      BY <2>1, <2>2, <2>3, <3>1
  <2>5. CASE ~mute
    <3>1. o = Iec!Older(c, IecT2 + 1)
      BY <1>3, <2>1, <2>5
    <3>2. /\ o \in IecAge /\ (o = None <=> c = None)
          /\ c # None => c \in Nat /\ o \in Nat /\ o <= IecT2 + 1 + 1 /\ o <= c + 1
      BY ONLY <1>6, <2>2, <2>3, <3>1, IecOlderAge
    <3>3. c # None => o <= IecT2 + 2
      BY ONLY <1>6, <3>2
    <3>4. QED
      BY <2>1, <3>2, <3>3
  <2>6. QED
    BY <2>4, <2>5
<1>12. drv = IecDrv(x, u, f, s, t, b)
  BY <1>2 DEF IecInv, IecTyped, IecDriver, IecDrv
<1>13. drv' = IecDrv(x, u, g, r, k, b)
  <2>1. PICK d : d = drv
    OBVIOUS
  <2>2. IecPassed(d, g, r, k) = IecDrv(x, u, g, r, k, b)
    <3>1. d = IecDrv(x, u, f, s, t, b)
      BY <1>12, <2>1
    <3>2. QED
      BY ONLY <3>1, IecTimeDrv
  <2>3. drv' = IecPassed(d, g, r, k)
    BY <1>1, <1>2, <1>3, <2>1 DEF IecPassed
  <2>4. QED
    BY <2>2, <2>3
<1>14. drv'.rx = x /\ drv'.unacked = u /\ drv'.first = g /\ drv'.silent = r /\ drv'.test = k
  <2>1. PICK d : d = drv'
    OBVIOUS
  <2>2. d = IecDrv(x, u, g, r, k, b)
    BY <1>13, <2>1
  <2>3. d.rx = x /\ d.unacked = u /\ d.first = g /\ d.silent = r /\ d.test = k
    BY <2>2, IecDrvHas
  <2>4. QED
    BY <2>1, <2>3
<1>15. drv'.started = b
  <2>1. PICK d : d = drv'
    OBVIOUS
  <2>2. d = IecDrv(x, u, g, r, k, b)
    BY <1>13, <2>1
  <2>3. d.started = b
    BY <2>2, IecDrvStarted
  <2>4. QED
    BY <2>1, <2>3
<1>16. /\ station' \in IecStation /\ station'.vs = st.vs /\ station'.acked = st.acked
       /\ station'.oldest = o /\ station'.started = st.started
  <2>1. station' = IecSet(st, st.vs, st.acked, o)
    <3>1. station' = [st EXCEPT !.oldest = o]
      BY <1>1, <1>3
    <3>2. [st EXCEPT !.oldest = o] = IecSet(st, st.vs, st.acked, o)
      BY <1>5, IecSetAges
    <3>3. QED
      BY <3>1, <3>2
  <2>2. PICK z : z = station'
    OBVIOUS
  <2>3. o \in {None} \cup 0..(IecT2 + 2)
    BY <1>6, <1>11
  <2>4. z \in IecStation /\ z.vs = st.vs /\ z.acked = st.acked /\ z.oldest = o
    BY <1>4, <1>5, <2>1, <2>2, <2>3, IecSetHas
  <2>5. z.started = st.started
    BY <2>1, <2>2, IecSetStarts
  <2>6. QED
    BY <2>2, <2>4, <2>5
<1>17. IecTyped'
  <2>1. g \in {None} \cup 0..(IecT2 + 1)
    BY <1>6, <1>8
  <2>2. r \in 0..(IecT1 + IecT3 + 2)
    BY <1>6, <1>9
  <2>3. k \in {None} \cup 0..(IecT1 + 1)
    BY <1>6, <1>10
  <2>4. IecDrv(x, u, g, r, k, b) \in IecDriver
    <3>1. x \in 0..(Modulus - 1) /\ u \in 0..(IecW - 1)
      BY <1>4
    <3>2. QED
      BY ONLY <1>5, <2>1, <2>2, <2>3, <3>1, IecDrvIn
  <2>5. drv' \in IecDriver
    BY <1>13, <2>4
  <2>6. linkServed' \in BOOLEAN
    BY <1>1
  <2>7. QED
    BY <1>1, <1>16, <2>5, <2>6 DEF IecInv, IecTyped
<1>18. phase = "up" => IecRuns(f, s, t, TRUE)
  BY <1>1, <1>2 DEF IecInv, IecClock
<1>19. IecClock'
  <2>1. phase = "up" => IecRuns(g, r, k, FALSE)
    <3>1. f \in IecAge /\ t \in IecAge
      BY <1>4
    <3>2. g = Iec!Older(f, IecT2) /\ r = Iec!Older(s, IecT3 + IecT1 + 1) /\ k = Iec!Older(t, IecT1)
      BY <1>3
    <3>3. QED
      BY ONLY <1>7, <1>18, <3>1, <3>2, IecRunsOlder
  <2>2. QED
    BY <1>1, <1>14, <2>1 DEF IecClock
<1>20. IecLine'
  <2>1. IecOnLine(x, u, f, st.vs, st.acked, st.oldest, toStation, <<>>, early)
    BY <1>1, <1>2, <1>3 DEF IecInv, IecLine
  <2>2. f # None => f < IecT2
    <3>1. CASE phase = "up"
      BY <1>18, <3>1 DEF IecRuns
    <3>2. CASE phase = "starting"
      BY <1>2, <3>2 DEF IecInv, IecBegun
    <3>3. QED
      BY <1>1, <3>1, <3>2 DEF IecInv, IecTyped
  <2>3. f # None /\ st.oldest # None /\ st.oldest <= f => o <= g
    BY <1>6, <1>8, <1>11, <2>2
  <2>4. toStation \in Seq(IecUpFrames) /\ early \in BOOLEAN
    BY DEF IecInv, IecTyped
  <2>5. IecOnLine(x, u, g, st.vs, st.acked, o, toStation, <<>>, early)
    <3>1. f \in IecAge /\ st.oldest \in IecAge
      BY <1>4
    <3>2. u \in Nat
      BY <1>7
    <3>3. PICK vs, ac, c : vs = st.vs /\ ac = st.acked /\ c = st.oldest
      OBVIOUS
    <3>4. IecOnLine(x, u, f, vs, ac, c, toStation, <<>>, early) /\ c \in IecAge
      BY <2>1, <3>1, <3>3
    <3>5. /\ (f # None /\ c # None /\ c <= f => o <= g) /\ (o = None <=> c = None)
          /\ (g = None <=> f = None) /\ o \in IecAge /\ g \in IecAge
      BY <1>8, <1>11, <2>3, <3>3
    <3>6. PICK w, h : w = toStation /\ h = early
      OBVIOUS
    <3>7. w \in Seq(IecUpFrames) /\ h \in BOOLEAN /\ IecOnLine(x, u, f, vs, ac, c, w, <<>>, h)
      BY <2>4, <3>4, <3>6
    <3>8. IecOnLine(x, u, g, vs, ac, o, w, <<>>, h)
      BY ONLY <3>1, <3>2, <3>4, <3>5, <3>7, IecLineOlder
    <3>9. QED
      BY <3>3, <3>6, <3>8
  <2>6. QED
    BY <1>1, <1>14, <1>16, <2>5 DEF IecLine
<1>21. IecBegun'
  BY <1>1, <1>2, <1>3, <1>8, <1>10, <1>14, <1>15, <1>16 DEF IecInv, IecBegun
<1>22. IecAnswering'
  <2>1. SUFFICES ASSUME ~mute PROVE IecAnswering'
    BY <1>1 DEF IecAnswering
  <2>2. toStation = <<>>
    BY <2>1 DEF Iec!Time
  <2>3. ~IecAwaits(toStation, "STARTDT act") /\ ~IecAwaits(toStation, "TESTFR act")
    BY <2>2 DEF IecAwaits
  <2>4. phase # "starting"
    <3>1. ~IecConfirms(toDriver, Len(toDriver))
      <4>1. Len(toDriver) = 0
        BY <1>1
      <4>2. QED
        BY <4>1 DEF IecConfirms
    <3>2. phase = "starting" => station.started = TRUE
      BY <2>1, <2>3 DEF IecInv, IecAnswering
    <3>3. QED
      BY <3>1, <3>2 DEF IecInv, IecBegun
  <2>5. phase = "up" => t = None
    BY <1>1, <1>2, <2>1, <2>3 DEF IecInv, IecAnswering
  <2>6. QED
    BY <1>1, <1>10, <1>14, <2>4, <2>5 DEF IecAnswering
<1>23. QED
  BY <1>17, <1>19, <1>20, <1>21, <1>22 DEF IecInv

\* What the driver does when it has read.
LEMMA IecAckIs ==
  ASSUME NEW r, NEW u \in Nat, NEW f \in IecAge, NEW s, NEW t, NEW b, NEW o, NEW y \in Nat,
         NEW w \in Seq(IecUpFrames), NEW a \in Nat, NEW c \in IecAge, NEW h \in BOOLEAN,
         r = IecReading(IecNum(y), u, f, s, t, b, o), IecHalf(u, f, o, y, w, a, c, h), u <= IecW - 1
  PROVE  \E m, g, p : /\ Iec!acknowledge(r) = IecReading(IecNum(y), m, g, s, t, b, p)
                      /\ m \in 0..(IecW - 1) /\ g \in IecAge /\ (g # None => g < IecT2)
                      /\ IecHalf(m, g, p, y, w, a, c, h)
<1>1. r.drv.first = f
  BY IecReadingOf
<1>2. /\ IecW \in Nat \ {0} /\ IecT2 \in Nat /\ 0 \in 0..(IecW - 1) /\ u \in 0..(IecW - 1)
      /\ None \in IecAge
  BY SessionAssumption DEF IecAge
<1>3. CASE f # None /\ f >= IecT2
  <2>1. Iec!acknowledge(r) = Iec!send_s(r)
    BY <1>1, <1>3 DEF Iec!acknowledge
  <2>2. PICK x, p : x = IecNum(y) /\ p = Append(o, Iec!Frame("S", 0, x))
    OBVIOUS
  <2>3. Iec!send_s(r) = IecReading(x, 0, None, s, t, b, p)
    BY <2>2, IecDoesS
  <2>4. IecHalf(0, None, p, y, w, a, c, h)
    BY <2>2, IecHalfS
  <2>5. QED
    BY <1>2, <2>1, <2>2, <2>3, <2>4
<1>4. CASE ~(f # None /\ f >= IecT2)
  <2>1. Iec!acknowledge(r) = r
    BY <1>1, <1>4 DEF Iec!acknowledge
  <2>2. f # None => f \in Nat /\ f < IecT2
    BY <1>2, <1>4 DEF IecAge
  <2>3. QED
    BY <1>2, <2>1, <2>2
<1>5. QED
  BY <1>3, <1>4

IecProbed(r, x, u, f, s, t, b, y, w, a, c, h, p) ==
  /\ Iec!probe(r) = IecReading(x, u, f, s, IF t = None /\ s >= IecT3 THEN 0 ELSE t, b, p)
  /\ IecHalf(u, f, p, y, w, a, c, h)
  /\ (t = None /\ s >= IecT3 => IecAwaits(p, "TESTFR act"))
IecProbing(r, x, u, f, s, t, b, y, w, a, c, h, o) ==
  r = IecReading(x, u, f, s, t, b, o) /\ IecHalf(u, f, o, y, w, a, c, h)
LEMMA IecProbeIs ==
  ASSUME NEW r, NEW x, NEW u \in Nat, NEW f \in IecAge, NEW s, NEW t, NEW b, NEW o, NEW y \in Nat,
         NEW w \in Seq(IecUpFrames), NEW a \in Nat, NEW c \in IecAge, NEW h \in BOOLEAN,
         IecProbing(r, x, u, f, s, t, b, y, w, a, c, h, o)
  PROVE  \E p : IecProbed(r, x, u, f, s, t, b, y, w, a, c, h, p)
<1>0. r = IecReading(x, u, f, s, t, b, o) /\ IecHalf(u, f, o, y, w, a, c, h)
  BY DEF IecProbing
<1>1. r.drv.test = t /\ r.drv.silent = s
  BY <1>0, IecReadingOf
<1>2. CASE t = None /\ s >= IecT3
  <2>1. PICK k, p : k = "TESTFR act" /\ p = Append(o, Iec!U(k))
    OBVIOUS
  <2>2. Iec!probe(r) = IecTest(r, k)
    BY <1>1, <1>2, <2>1 DEF Iec!probe, IecTest
  <2>3. IecTest(r, k) = IecReading(x, u, f, s, 0, b, p)
    <3>1. IecTest(r, k) = IecReading(x, u, f, s, 0, b, Append(o, Iec!U(k)))
      BY <1>0, IecDoesTest
    <3>2. QED
      BY <2>1, <3>1
  <2>4. IecIsTest(k)
    BY <2>1 DEF IecIsTest
  <2>5. IecHalf(u, f, p, y, w, a, c, h)
    BY ONLY <1>0, <2>1, <2>4, IecHalfReply, u \in Nat, f \in IecAge, y \in Nat, w \in Seq(IecUpFrames),
            a \in Nat, c \in IecAge, h \in BOOLEAN
  <2>6. IecAwaits(p, "TESTFR act")
    <3>1. o \in Seq(IecUpFrames)
      BY <1>0 DEF IecHalf
    <3>2. Iec!U(k).kind = k
      BY DEF Iec!U, Iec!Frame
    <3>3. QED
      BY <2>1, <3>1, <3>2, IecAwaitsLast
  <2>7. QED
    BY <1>2, <2>2, <2>3, <2>5, <2>6 DEF IecProbed
<1>3. CASE ~(t = None /\ s >= IecT3)
  <2>1. Iec!probe(r) = r
    BY <1>1, <1>3 DEF Iec!probe
  <2>2. QED
    BY <1>0, <1>3, <2>1 DEF IecProbed
<1>4. QED
  BY <1>2, <1>3

\* What a reading that is served leaves, when the driver is d.
IecLeft(q, n) == SubSeq(q, n + 1, Len(q))
LEMMA IecLeftIs ==
  ASSUME NEW q \in Seq(IecDownFrames), NEW n \in 0..Len(q)
  PROVE  /\ IecLeft(q, n) \in Seq(IecDownFrames) /\ Len(IecLeft(q, n)) = Len(q) - n
         /\ \A i \in 1..(Len(q) - n) : IecLeft(q, n)[i] = q[i + n]
  BY DEF IecLeft

LEMMA IecTookIs ==
  ASSUME NEW r, NEW n, NEW x, NEW u, NEW f, NEW s, NEW t, NEW b, NEW o,
         r = IecReading(x, u, f, s, t, b, o), Iec!Took(n, r)
  PROVE  /\ drv' = IecDrv(x, u, f, s, t, b) /\ toStation' = toStation \o o
         /\ toDriver' = IecLeft(toDriver, n) /\ linkServed' = TRUE
<1>1. drv' = r.drv /\ toStation' = toStation \o r.out /\ toDriver' = IecLeft(toDriver, n) /\ linkServed' = TRUE
  BY DEF Iec!Took, IecLeft
<1>2. r.out = o
  BY IecReadingOf
<1>3. IecReading(x, u, f, s, t, b, o).drv = IecDrv(x, u, f, s, t, b)
  BY DEF IecReading, IecDrv
<1>4. r.drv = IecDrv(x, u, f, s, t, b)
  BY <1>3
<1>5. QED
  BY <1>1, <1>2, <1>4

\* A driver that has read is typed and on line.
IecOpened(p) == p \in {"up", "starting"}
LEMMA IecServedTyped ==
  ASSUME IecInv, NEW n \in 0..Len(toDriver), NEW o \in Seq(IecUpFrames), drv' \in IecDriver,
         toStation' = toStation \o o, toDriver' = IecLeft(toDriver, n), linkServed' = TRUE,
         IecOpened(phase'), early' \in BOOLEAN, station' = station, mute' = mute, fault' = fault, gi' = gi
  PROVE  IecTyped'
<1>1. toStation' \in Seq(IecUpFrames)
  <2>1. toStation \in Seq(IecUpFrames)
    BY DEF IecInv, IecTyped
  <2>2. QED
    BY <2>1
<1>2. toDriver' \in Seq(IecDownFrames)
  <2>1. toDriver \in Seq(IecDownFrames)
    BY DEF IecInv, IecTyped
  <2>2. QED
    BY <2>1, IecLeftIs
<1>3. /\ gi' \in BOOLEAN /\ phase' \in {"closed", "starting", "up"} /\ mute' \in BOOLEAN
      /\ linkServed' \in BOOLEAN /\ early' \in BOOLEAN /\ station' \in IecStation
      /\ fault' # "sequence" /\ fault' # "t1"
  BY DEF IecInv, IecTyped, IecOpened
<1>4. QED
  BY <1>1, <1>2, <1>3 DEF IecTyped

LEMMA IecServedLine ==
  ASSUME NEW n, NEW x, NEW u, NEW f, NEW s, NEW t, NEW b, NEW o, NEW e,
         drv' = IecDrv(x, u, f, s, t, b), toStation' = toStation \o o,
         toDriver' = IecLeft(toDriver, n), early' = e, station' = station,
         IecOnLine(x, u, f, station.vs, station.acked, station.oldest, toStation \o o,
                   IecLeft(toDriver, n), e)
  PROVE  IecLine'
<1>1. PICK d : d = drv'
  OBVIOUS
<1>2. d = IecDrv(x, u, f, s, t, b)
  BY <1>1
<1>3. d.rx = x /\ d.unacked = u /\ d.first = f
  BY ONLY <1>2, IecDrvHas
<1>4. drv'.rx = x /\ drv'.unacked = u /\ drv'.first = f
  BY <1>1, <1>3
<1>5. QED
  BY <1>4 DEF IecLine

LEMMA IecServiceKeeps ==
  ASSUME IecInv, NEW n \in 0..Len(toDriver), Iec!service(n), gi' = gi PROVE IecInv'
<1>1. PICK a, y, v, s, t, u, f, b, o : IecPumps(n, a, y, v, s, t, u, f, b, o)
  BY IecReadIs
<1>2. PICK r, w, c, h, q : /\ r = Iec!pump(n) /\ w = toStation /\ c = station.oldest /\ h = early
                           /\ q = toDriver
  OBVIOUS
<1>3. /\ r = IecReading(IecNum(y), u, f, s, t, b, o)
      /\ IecSoFar(u, f, b, o, drv, q, n, y, w, a, c, h)
      /\ IecHolds(a, y, v, IecNum(y), station.vs, station.acked, c, IecLeft(q, n))
      /\ s = (IF n = 0 THEN drv.silent ELSE 0) /\ t = (IF n = 0 THEN drv.test ELSE None)
  BY <1>1, <1>2 DEF IecPumps, IecLeft
<1>4. r = IecReading(IecNum(y), u, f, s, t, b, o)
  BY <1>3
<1>5. /\ u \in 0..(IecW - 1) /\ f \in IecAge /\ b \in BOOLEAN /\ IecHalf(u, f, o, y, w, a, c, h)
      /\ f \in {None, 0, drv.first}
  BY <1>3 DEF IecSoFar
<1>6. a \in Nat /\ y \in Nat /\ v \in Nat
  BY <1>3 DEF IecHolds
<1>7. /\ IecT1 \in Nat \ {0} /\ IecT2 \in Nat /\ IecT3 \in Nat \ {0} /\ None \notin Nat /\ IecW \in Nat \ {0}
  BY SessionAssumption
<1>8. w \in Seq(IecUpFrames) /\ c \in IecAge /\ h \in BOOLEAN
  <2>1. c \in IecAge
    BY <1>2, IecFacts DEF IecInv
  <2>2. QED
    BY <1>2, <2>1 DEF IecInv, IecTyped
<1>9. phase = "up" /\ IecRuns(drv.first, drv.silent, drv.test, linkServed = TRUE)
  BY DEF Iec!service, IecInv, IecClock
<1>10. u \in Nat /\ u <= IecW - 1
  BY <1>5, <1>7
<1>11. PICK m, g, p : /\ Iec!acknowledge(r) = IecReading(IecNum(y), m, g, s, t, b, p)
                      /\ m \in 0..(IecW - 1) /\ g \in IecAge /\ (g # None => g < IecT2)
                      /\ IecHalf(m, g, p, y, w, a, c, h)
  BY ONLY <1>4, <1>5, <1>6, <1>8, <1>10, IecAckIs
<1>12. PICK z : z = Iec!acknowledge(r)
  OBVIOUS
<1>13. z = IecReading(IecNum(y), m, g, s, t, b, p)
  BY <1>11, <1>12
<1>14. PICK k : k = (IF t = None /\ s >= IecT3 THEN 0 ELSE t)
  OBVIOUS
<1>15. m \in Nat
  BY <1>7, <1>11
<1>16. PICK e : /\ Iec!probe(z) = IecReading(IecNum(y), m, g, s, k, b, e)
                /\ IecHalf(m, g, e, y, w, a, c, h)
                /\ (t = None /\ s >= IecT3 => IecAwaits(e, "TESTFR act"))
  <2>1. \E e : IecProbed(z, IecNum(y), m, g, s, t, b, y, w, a, c, h, e)
    <3>1. PICK x : x = IecNum(y)
      OBVIOUS
    <3>2. z = IecReading(x, m, g, s, t, b, p)
      BY <1>13, <3>1
    <3>3. y \in Nat /\ a \in Nat /\ g \in IecAge /\ IecHalf(m, g, p, y, w, a, c, h)
      BY <1>6, <1>11
    <3>4. \E e : IecProbed(z, x, m, g, s, t, b, y, w, a, c, h, e)
      <4>1. IecProbing(z, x, m, g, s, t, b, y, w, a, c, h, p)
        BY <3>2, <3>3 DEF IecProbing
      <4>2. QED
        BY ONLY <1>8, <1>15, <3>3, <4>1, IecProbeIs
    <3>5. QED
      BY <3>1, <3>4
  <2>2. QED
    BY <1>14, <2>1 DEF IecProbed
<1>17. ~r.wrong
  BY <1>4, IecReadingOf
<1>18. z.drv.test = t
  BY <1>13, IecReadingOf
<1>19. CASE t # None /\ t >= IecT1
  <2>1. Iec!giveUp
    BY <1>2, <1>12, <1>17, <1>18, <1>19 DEF Iec!service, Iec!Expired
  \* The answer to the test of a station that reads would have been read.
  <2>2. mute
    <3>1. SUFFICES ASSUME ~mute PROVE FALSE
      OBVIOUS
    <3>2. t = drv.test
      BY <1>3, <1>19
    <3>3. t = 0
      BY <1>9, <1>19, <3>1, <3>2 DEF IecInv, IecAnswering
    <3>4. QED
      BY ONLY <1>7, <1>19, <3>3
  <2>3. Iec!close("mute")
    BY <2>1, <2>2 DEF Iec!giveUp
  <2>4. QED
    BY <2>3, IecCloseKeeps
<1>20. CASE ~(t # None /\ t >= IecT1)
  <2>1. PICK x : x = Iec!probe(z)
    OBVIOUS
  <2>2. /\ Iec!Took(n, x) /\ early' = (early /\ ~ \E j \in Iec!Range(x.out) : j.kind \in {"S", "I"})
        /\ phase' = phase /\ station' = station /\ mute' = mute /\ fault' = fault
    BY <1>2, <1>12, <1>17, <1>18, <1>20, <2>1 DEF Iec!service, Iec!Expired
  <2>3. x = IecReading(IecNum(y), m, g, s, k, b, e)
    BY <1>16, <2>1
  <2>4. x.out = e
    BY <2>3, IecReadingOf
  <2>5. e \in Seq(IecUpFrames)
    BY <1>16 DEF IecHalf
  <2>6. (\E j \in Iec!Range(x.out) : j.kind \in {"S", "I"}) <=> IecTold(e)
    <3>1. Iec!Range(e) = {e[i] : i \in 1..Len(e)}
      BY <2>5 DEF Iec!Range
    <3>2. QED
      BY <2>4, <3>1 DEF IecTold
  <2>7. PICK i : i = (h /\ ~IecTold(e))
    OBVIOUS
  <2>8. i \in BOOLEAN /\ early' = i
    BY <1>2, <2>2, <2>6, <2>7
  <2>9. /\ drv' = IecDrv(IecNum(y), m, g, s, k, b) /\ toStation' = toStation \o e
        /\ toDriver' = IecLeft(toDriver, n) /\ linkServed' = TRUE
    BY ONLY <2>2, <2>3, IecTookIs
  <2>10. IecOnLine(IecNum(y), m, g, station.vs, station.acked, station.oldest, toStation \o e,
                   IecLeft(toDriver, n), i)
    <3>1. IecHolds(a, y, v, IecNum(y), station.vs, station.acked, c, IecLeft(q, n))
      BY <1>3
    <3>2. PICK vs, ac, l : vs = station.vs /\ ac = station.acked /\ l = IecLeft(q, n)
      OBVIOUS
    <3>3. IecHolds(a, y, v, IecNum(y), vs, ac, c, l)
      BY <3>1, <3>2
    <3>4. IecOnLine(IecNum(y), m, g, vs, ac, c, w \o e, l, h /\ ~IecTold(e))
      BY ONLY <1>11, <1>15, <1>16, <3>3, IecTookLine
    <3>5. QED
      BY <1>2, <2>7, <3>2, <3>4
  <2>11. /\ IecNum(y) \in 0..(Modulus - 1) /\ m \in 0..(IecW - 1) /\ g \in {None} \cup 0..(IecT2 + 1)
    <3>1. IecNum(y) \in 0..(Modulus - 1)
      BY <1>6, IecNumIs
    <3>2. g # None => g \in Nat /\ g < IecT2
      BY <1>11 DEF IecAge
    <3>3. QED
      BY <1>7, <1>11, <3>1, <3>2
  <2>12. s \in 0..(IecT1 + IecT3 + 2) /\ t \in {None} \cup 0..(IecT1 + 1)
    <3>1. /\ drv.silent \in 0..(IecT1 + IecT3 + 2) /\ 0 \in 0..(IecT1 + IecT3 + 2)
          /\ drv.test \in {None} \cup 0..(IecT1 + 1)
      BY <1>7 DEF IecInv, IecTyped, IecDriver
    <3>2. QED
      BY <1>3, <3>1
  <2>13. k \in {None} \cup 0..(IecT1 + 1)
    BY <1>7, <1>14, <2>12
  <2>14. phase' = "up"
    BY <1>9, <2>2
  <2>15. /\ IecTyped' /\ IecLine' /\ drv'.first = g /\ drv'.silent = s /\ drv'.test = k
    <3>1. PICK d, j : d = drv' /\ j = IecNum(y)
      OBVIOUS
    <3>2. b \in BOOLEAN /\ j \in 0..(Modulus - 1) /\ s \in 0..(IecT1 + IecT3 + 2)
      BY <1>5, <2>11, <2>12, <3>1
    <3>3. d = IecDrv(j, m, g, s, k, b)
      BY <2>9, <3>1
    <3>4. IecDrv(j, m, g, s, k, b) \in IecDriver
      BY ONLY <2>11, <2>13, <3>2, IecDrvIn
    <3>5. d.first = g /\ d.silent = s /\ d.test = k
      BY ONLY <3>3, IecDrvHas
    <3>6. IecTyped'
      <4>1. drv' \in IecDriver
        BY <3>1, <3>3, <3>4
      <4>2. IecOpened(phase')
        BY <2>14 DEF IecOpened
      <4>3. QED
        BY <2>2, <2>5, <2>8, <2>9, <4>1, <4>2, IecServedTyped
    <3>7. IecLine'
      BY <2>2, <2>8, <2>9, <2>10, IecServedLine
    <3>8. QED
      BY <3>1, <3>5, <3>6, <3>7
  <2>16. IecBegun'
    BY <2>14 DEF IecBegun
  <2>17. IecRuns(g, s, k, TRUE)
    <3>1. g # None => g \in Nat /\ g < IecT2
      BY <1>11 DEF IecAge
    <3>2. s \in Nat
      BY <1>7, <2>12
    <3>3. CASE n = 0
      <4>1. s = drv.silent /\ t = drv.test
        BY <1>3, <3>3
      <4>2. (t = None => s <= IecT3) /\ (t # None => s <= IecT3 + t)
        BY <1>9, <4>1 DEF IecRuns
      <4>3. t # None => t \in Nat /\ t < IecT1
        BY <1>7, <1>20, <2>12
      <4>4. CASE t = None /\ s >= IecT3
        <5>1. k = 0 /\ s <= IecT3
          BY <1>14, <4>2, <4>4
        <5>2. s <= IecT3 + k
          BY <1>7, <3>2, <5>1
        <5>3. QED
          BY <1>7, <3>1, <5>1, <5>2 DEF IecRuns
      <4>5. CASE t = None /\ ~(s >= IecT3)
        <5>1. k = None /\ s < IecT3 /\ s <= IecT3
          BY <1>7, <1>14, <3>2, <4>5
        <5>2. QED
          BY <1>7, <3>1, <5>1 DEF IecRuns
      <4>6. CASE t # None
        <5>1. k = t
          BY <1>14, <4>6
        <5>2. QED
          BY <1>7, <3>1, <4>2, <4>3, <4>6, <5>1 DEF IecRuns
      <4>7. QED
        BY <4>4, <4>5, <4>6
    <3>4. CASE n # 0
      <4>1. s = 0 /\ t = None
        BY <1>3, <3>4
      <4>2. k = None /\ s < IecT3 /\ s <= IecT3
        BY <1>7, <1>14, <4>1
      <4>3. QED
        BY <1>7, <3>1, <4>2 DEF IecRuns
    <3>5. QED
      BY <3>3, <3>4
  <2>18. IecClock'
    <3>1. linkServed' = TRUE
      BY <2>9
    <3>2. QED
      BY <2>15, <2>17, <3>1 DEF IecClock
  <2>19. IecAnswering'
    <3>1. SUFFICES ASSUME ~mute, k # None
          PROVE  k = 0 /\ (toDriver' # <<>> \/ IecAwaits(toStation', "TESTFR act"))
      BY <2>2, <2>14, <2>15 DEF IecAnswering
    <3>2. toStation \in Seq(IecUpFrames) /\ toDriver \in Seq(IecDownFrames)
      BY DEF IecInv, IecTyped
    <3>3. \A l \in {"TESTFR act"} : IecAwaits(toStation, l) \/ IecAwaits(e, l) => IecAwaits(toStation', l)
      BY <2>5, <2>9, <3>2, IecAwaitsMore
    <3>4. CASE t = None /\ s >= IecT3
      BY <1>14, <1>16, <3>3, <3>4
    <3>5. CASE ~(t = None /\ s >= IecT3)
      <4>1. k = t /\ t # None
        BY <1>14, <3>1, <3>5
      <4>2. n = 0 /\ t = drv.test
        BY <1>3, <4>1
      <4>3. toDriver' = toDriver
        BY <2>9, <3>2, <4>2 DEF IecLeft
      <4>4. QED
        BY <1>9, <3>1, <3>3, <4>1, <4>2, <4>3 DEF IecInv, IecAnswering
    <3>6. QED
      BY <3>4, <3>5
  <2>20. QED
    BY <2>15, <2>16, <2>18, <2>19 DEF IecInv
<1>21. QED
  BY <1>19, <1>20

\* As long as the confirmation is not read, nor is what it precedes.
LEMMA IecLeftBegun ==
  ASSUME NEW q \in Seq(IecDownFrames), NEW n \in 0..Len(q), IecHeralded(q), ~IecConfirms(q, n)
  PROVE  /\ IecQuiet(q, n) /\ IecHeralded(IecLeft(q, n))
         /\ IecConfirms(q, Len(q)) => IecConfirms(IecLeft(q, n), Len(IecLeft(q, n)))
<1>1. PICK m \in Nat, l \in {IecLeft(q, n)} : m = Len(q) /\ l = IecLeft(q, n)
  OBVIOUS
<1>2. n \in 0..m /\ Len(l) = m - n /\ \A i \in 1..(m - n) : l[i] = q[i + n]
  BY <1>1, IecLeftIs
<1>3. ASSUME NEW i \in 0..m, IecConfirms(q, i)
      PROVE  i - n \in Nat /\ IecConfirms(l, i - n)
  <2>1. PICK j \in 1..i : q[j].kind = "STARTDT con"
    BY <1>3 DEF IecConfirms
  <2>2. j \notin 1..n
    BY <2>1 DEF IecConfirms
  <2>3. j - n \in 1..(i - n) /\ i - n \in Nat /\ j - n \in 1..(m - n) /\ j - n + n = j
    BY <1>1, <1>2, <2>2
  <2>4. l[j - n].kind = "STARTDT con"
    BY <1>2, <2>1, <2>3
  <2>5. QED
    BY <2>3, <2>4 DEF IecConfirms
<1>4. IecQuiet(q, n)
  <2>1. SUFFICES ASSUME NEW i \in 1..n, IecIsInfo(q[i]) PROVE FALSE
    BY DEF IecQuiet
  <2>2. i \in 1..m /\ 1..(i - 1) \subseteq 1..n
    BY <1>1, <1>2
  <2>3. IecConfirms(q, i - 1)
    BY <1>1, <2>1, <2>2 DEF IecHeralded
  <2>4. QED
    BY <2>2, <2>3 DEF IecConfirms
<1>5. IecHeralded(l)
  <2>1. SUFFICES ASSUME NEW i \in 1..(m - n), IecIsInfo(l[i]) PROVE IecConfirms(l, i - 1)
    BY <1>2 DEF IecHeralded
  <2>2. i + n \in 1..m /\ l[i] = q[i + n] /\ i + n - 1 \in 0..m /\ i + n - 1 - n = i - 1
    BY <1>1, <1>2
  <2>3. IecConfirms(q, i + n - 1)
    BY <1>1, <2>1, <2>2 DEF IecHeralded
  <2>4. IecConfirms(l, i + n - 1 - n)
    BY <1>3, <2>2, <2>3
  <2>5. QED
    BY <2>2, <2>4
<1>6. IecConfirms(q, m) => IecConfirms(l, m - n)
  <2>1. m \in 0..m
    BY <1>1
  <2>2. QED
    BY <1>3, <2>1
<1>7. QED
  BY <1>1, <1>2, <1>4, <1>5, <1>6

LEMMA IecStartingKeeps ==
  ASSUME IecInv, NEW n \in 0..Len(toDriver), Iec!starting(n), gi' = gi PROVE IecInv'
<1>1. PICK a, y, v, s, t, u, f, b, o : IecPumps(n, a, y, v, s, t, u, f, b, o)
  BY IecReadIs
<1>2. PICK r, w, c, q, l, j : /\ r = Iec!pump(n) /\ w = toStation /\ c = station.oldest
                              /\ q = toDriver /\ l = IecLeft(q, n) /\ j = IecNum(y)
  OBVIOUS
<1>3. phase = "starting"
  BY DEF Iec!starting
<1>4. /\ drv.started = FALSE /\ drv.unacked = 0 /\ drv.first = None /\ drv.test = None
      /\ early = FALSE
      /\ (station.started = TRUE => IecConfirms(q, Len(q)))
      /\ IecHeralded(q)
  BY <1>2, <1>3 DEF IecInv, IecBegun
<1>5. /\ r = IecReading(j, u, f, s, t, b, o)
      /\ IecSoFar(u, f, b, o, drv, q, n, y, w, a, c, early)
      /\ IecHolds(a, y, v, j, station.vs, station.acked, c, l)
      /\ s = (IF n = 0 THEN drv.silent ELSE 0) /\ t = (IF n = 0 THEN drv.test ELSE None)
  BY <1>1, <1>2 DEF IecPumps, IecLeft
<1>6. r = IecReading(j, u, f, s, t, b, o)
  BY <1>5
<1>7. /\ u \in 0..(IecW - 1) /\ f \in IecAge /\ b \in BOOLEAN /\ IecHalf(u, f, o, y, w, a, c, early)
      /\ f \in {None, 0, drv.first}
      /\ (b = TRUE <=> IecBegan(drv, q, n))
      /\ (IecQuiet(q, n) => u = drv.unacked /\ f = drv.first)
  BY <1>5 DEF IecSoFar
<1>8. IecHalf(u, f, o, y, w, a, c, FALSE)
  <2>1. PICK h : h = early
    OBVIOUS
  <2>2. IecHalf(u, f, o, y, w, a, c, h) /\ h = FALSE
    BY <1>4, <1>7, <2>1
  <2>3. QED
    BY <2>2
<1>9. a \in Nat /\ y \in Nat /\ v \in Nat /\ IecFresh(y, a, c)
  BY <1>5 DEF IecHolds
<1>10. /\ IecT1 \in Nat \ {0} /\ IecT2 \in Nat /\ IecT3 \in Nat \ {0} /\ None \notin Nat /\ IecW \in Nat \ {0}
  BY SessionAssumption
<1>11. u \in Nat /\ j \in 0..(Modulus - 1)
  <2>1. j \in 0..(Modulus - 1)
    BY <1>2, <1>9, IecNumIs
  <2>2. u \in 0..(IecW - 1)
    BY <1>7
  <2>3. QED
    BY ONLY <1>10, <2>1, <2>2
<1>12. w \in Seq(IecUpFrames) /\ c \in IecAge /\ q \in Seq(IecDownFrames) /\ gi \in BOOLEAN
  <2>1. c \in IecAge
    BY <1>2, IecFacts DEF IecInv
  <2>2. QED
    BY <1>2, <2>1 DEF IecInv, IecTyped
<1>13. drv.silent \in 0..(IecT1 + IecT3 + 2)
  BY IecFacts DEF IecInv
<1>14. ~r.wrong
  BY <1>6, IecReadingOf
<1>15. r.drv.unacked = u
  BY <1>6, IecReadingOf
<1>16. r.drv.started = b
  BY <1>6, IecReadingStarted
<1>17. PICK vs, ac : vs = station.vs /\ ac = station.acked
  OBVIOUS
<1>18. IecHolds(a, y, v, j, vs, ac, c, l)
  BY <1>5, <1>17
<1>19. CASE b = TRUE
  <2>1. PICK z, x : z = (IF gi THEN Iec!send_gi(r) ELSE r) /\ x = IecReady(z)
    OBVIOUS
  <2>2. /\ Iec!Took(n, x) /\ phase' = "up" /\ early' = (r.drv.unacked > 0)
        /\ station' = station /\ mute' = mute /\ fault' = fault
    BY <1>2, <1>14, <1>16, <1>19, <2>1 DEF Iec!starting, IecReady
  <2>3. PICK p : z = IecReading(j, u, f, s, t, b, p) /\ IecHalf(u, f, p, y, w, a, c, FALSE)
    <3>1. CASE gi
      <4>1. PICK p : p = Append(o, Iec!Frame("I", 0, j))
        OBVIOUS
      <4>2. z = IecReading(j, u, f, s, t, b, p)
        <5>1. Iec!send_gi(r) = IecReading(j, u, f, s, t, b, Append(o, Iec!Frame("I", 0, j)))
          BY <1>6, IecDoesGi
        <5>2. QED
          BY <2>1, <3>1, <4>1, <5>1
      <4>3. IecHalf(u, f, p, y, w, a, c, FALSE)
        <5>1. PICK h \in BOOLEAN : h = FALSE
          OBVIOUS
        <5>2. IecHalf(u, f, o, y, w, a, c, h)
          BY <1>8, <5>1
        <5>3. f \in IecAge
          BY <1>7
        <5>4. IecHalf(u, f, Append(o, Iec!Frame("I", 0, IecNum(y))), y, w, a, c, h)
          BY ONLY <1>9, <1>11, <1>12, <5>2, <5>3, h \in BOOLEAN, IecHalfAsks
        <5>5. QED
          BY <1>2, <4>1, <5>1, <5>4
      <4>4. QED
        BY <4>2, <4>3
    <3>2. CASE ~gi
      BY <1>6, <1>8, <2>1, <3>2
    <3>3. QED
      BY <3>1, <3>2
  <2>4. x = IecReading(j, u, None, 0, None, b, p)
    BY <2>1, <2>3, IecDoesReady
  <2>5. /\ drv' = IecDrv(j, u, None, 0, None, b) /\ toStation' = toStation \o p
        /\ toDriver' = IecLeft(toDriver, n) /\ linkServed' = TRUE
    BY ONLY <2>2, <2>4, IecTookIs
  <2>6. p \in Seq(IecUpFrames)
    BY <2>3 DEF IecHalf
  <2>7. IecOnLine(j, u, None, vs, ac, c, w \o p, l, u > 0)
    <3>1. f \in IecAge
      BY <1>7
    <3>2. QED
      BY ONLY <1>11, <1>18, <2>3, <3>1, IecReadyLine
  <2>8. PICK e : e = (u > 0)
    OBVIOUS
  <2>9. e \in BOOLEAN /\ early' = e
    BY <1>15, <2>2, <2>8
  <2>10. IecOnLine(j, u, None, station.vs, station.acked, station.oldest, toStation \o p,
                   IecLeft(toDriver, n), e)
    BY <1>2, <1>17, <2>7, <2>8
  <2>11. IecLine'
    BY <2>2, <2>5, <2>9, <2>10, IecServedLine
  <2>12. IecTyped'
    <3>1. PICK none, zero : none = None /\ zero = 0
      OBVIOUS
    <3>2. /\ none \in {None} \cup 0..(IecT2 + 1) /\ none \in {None} \cup 0..(IecT1 + 1)
          /\ zero \in 0..(IecT1 + IecT3 + 2)
      BY <1>10, <3>1
    <3>3. u \in 0..(IecW - 1) /\ b \in BOOLEAN
      BY <1>7
    <3>4. IecDrv(j, u, none, zero, none, b) \in IecDriver
      BY ONLY <1>11, <3>2, <3>3, IecDrvIn
    <3>5. drv' \in IecDriver
      BY <2>5, <3>1, <3>4
    <3>6. IecOpened(phase')
      BY <2>2 DEF IecOpened
    <3>7. QED
      BY <2>2, <2>5, <2>6, <2>9, <3>5, <3>6, IecServedTyped
  <2>13. IecBegun'
    BY <2>2 DEF IecBegun
  <2>14. IecClock'
    <3>1. PICK d, none, zero : d = drv' /\ none = None /\ zero = 0
      OBVIOUS
    <3>2. d = IecDrv(j, u, none, zero, none, b)
      BY <2>5, <3>1
    <3>3. d.first = none /\ d.silent = zero /\ d.test = none
      BY ONLY <3>2, IecDrvHas
    <3>4. IecRuns(none, zero, none, TRUE)
      BY <1>10, <3>1 DEF IecRuns
    <3>5. linkServed' = TRUE
      BY <2>5
    <3>6. QED
      BY <3>1, <3>3, <3>4, <3>5 DEF IecClock
  <2>15. IecAnswering'
    <3>1. PICK d, none, zero : d = drv' /\ none = None /\ zero = 0
      OBVIOUS
    <3>2. d = IecDrv(j, u, none, zero, none, b)
      BY <2>5, <3>1
    <3>3. d.test = none
      BY ONLY <3>2, IecDrvHas
    <3>4. QED
      BY <2>2, <3>1, <3>3 DEF IecAnswering
  <2>16. QED
    BY <2>11, <2>12, <2>13, <2>14, <2>15 DEF IecInv
<1>20. CASE b # TRUE /\ drv.silent >= IecT1
  <2>1. Iec!giveUp
    BY <1>2, <1>7, <1>14, <1>16, <1>20 DEF Iec!starting
  <2>2. mute
    <3>1. SUFFICES ASSUME ~mute PROVE FALSE
      OBVIOUS
    <3>2. drv.silent = 0
      BY <1>3, <3>1 DEF IecInv, IecAnswering
    <3>3. QED
      BY ONLY <1>10, <1>20, <3>2
  <2>3. Iec!close("mute")
    BY <2>1, <2>2 DEF Iec!giveUp
  <2>4. QED
    BY <2>3, IecCloseKeeps
<1>21. CASE b # TRUE /\ ~(drv.silent >= IecT1)
  <2>1. PICK x, k : k = drv.silent /\ x = IecSetSilent(r, k)
    OBVIOUS
  <2>2. /\ Iec!Took(n, x) /\ phase' = phase /\ early' = early
        /\ station' = station /\ mute' = mute /\ fault' = fault
    BY <1>2, <1>7, <1>14, <1>16, <1>21, <2>1 DEF Iec!starting, IecSetSilent
  <2>3. x = IecReading(j, u, f, k, t, b, o)
    BY <1>6, <2>1, IecFieldSilent
  <2>4. /\ drv' = IecDrv(j, u, f, k, t, b) /\ toStation' = toStation \o o
        /\ toDriver' = IecLeft(toDriver, n) /\ linkServed' = TRUE
    BY ONLY <2>2, <2>3, IecTookIs
  <2>5. o \in Seq(IecUpFrames)
    BY <1>7 DEF IecHalf
  <2>6. ~IecConfirms(q, n)
    BY <1>7, <1>21 DEF IecBegan, IecConfirms
  <2>7. /\ IecQuiet(q, n) /\ IecHeralded(l)
        /\ IecConfirms(q, Len(q)) => IecConfirms(l, Len(l))
    <3>1. n \in 0..Len(q)
      BY <1>2
    <3>2. QED
      BY <1>2, <1>4, <1>12, <2>6, <3>1, IecLeftBegun
  <2>8. u = 0 /\ f = None /\ t = None /\ b = FALSE
    BY <1>4, <1>5, <1>7, <1>21, <2>7
  <2>9. IecOnLine(j, u, f, vs, ac, c, w \o o, l, FALSE)
    <3>1. PICK h : h = FALSE
      OBVIOUS
    <3>2. IecHalf(u, f, o, y, w, a, c, h) /\ f \in IecAge
      BY <1>7, <1>8, <3>1
    <3>3. IecOnLine(j, u, f, vs, ac, c, w \o o, l, h /\ ~IecTold(o))
      BY ONLY <1>11, <1>18, <3>2, IecTookLine
    <3>4. (h /\ ~IecTold(o)) = FALSE
      BY <3>1
    <3>5. QED
      BY <3>3, <3>4
  <2>10. PICK e : e = FALSE
    OBVIOUS
  <2>11. e \in BOOLEAN /\ early' = e
    BY <1>4, <2>2, <2>10
  <2>12. IecOnLine(j, u, f, station.vs, station.acked, station.oldest, toStation \o o,
                   IecLeft(toDriver, n), e)
    BY <1>2, <1>17, <2>9, <2>10
  <2>13. IecLine'
    BY <2>2, <2>4, <2>11, <2>12, IecServedLine
  <2>14. IecTyped'
    <3>1. f \in {None} \cup 0..(IecT2 + 1) /\ t \in {None} \cup 0..(IecT1 + 1)
      BY <2>8
    <3>2. u \in 0..(IecW - 1) /\ b \in BOOLEAN
      BY <1>7
    <3>3. k \in 0..(IecT1 + IecT3 + 2)
      BY <1>13, <2>1
    <3>4. IecDrv(j, u, f, k, t, b) \in IecDriver
      BY ONLY <1>11, <3>1, <3>2, <3>3, IecDrvIn
    <3>5. drv' \in IecDriver
      BY <2>4, <3>4
    <3>6. IecOpened(phase')
      BY <1>3, <2>2 DEF IecOpened
    <3>7. QED
      BY <2>2, <2>4, <2>5, <2>11, <3>5, <3>6, IecServedTyped
  <2>15. IecBegun'
    <3>1. PICK d : d = drv'
      OBVIOUS
    <3>2. d = IecDrv(j, u, f, k, t, b)
      BY <2>4, <3>1
    <3>3. d.unacked = u /\ d.first = f /\ d.test = t
      BY ONLY <3>2, IecDrvHas
    <3>4. d.started = b
      BY ONLY <3>2, IecDrvStarted
    <3>5. /\ drv'.started = FALSE /\ drv'.unacked = 0 /\ drv'.first = None /\ drv'.test = None
          /\ early' = FALSE
      BY <2>8, <2>10, <2>11, <3>1, <3>3, <3>4
    <3>6. toDriver' = l
      BY <1>2, <2>4
    <3>7. /\ station'.started = TRUE => IecConfirms(toDriver', Len(toDriver'))
          /\ IecHeralded(toDriver')
      BY <1>4, <2>2, <2>7, <3>6
    <3>8. QED
      BY <3>5, <3>7 DEF IecBegun
  <2>16. IecClock'
    BY <1>3, <2>2 DEF IecClock
  <2>17. IecAnswering'
    <3>1. PICK d : d = drv'
      OBVIOUS
    <3>2. d = IecDrv(j, u, f, k, t, b)
      BY <2>4, <3>1
    <3>3. d.silent = k
      BY ONLY <3>2, IecDrvHas
    <3>4. SUFFICES ASSUME ~mute
          PROVE  k = 0 /\ (station.started = TRUE \/ IecAwaits(toStation', "STARTDT act"))
      BY <1>3, <2>2, <3>1, <3>3 DEF IecAnswering
    <3>5. k = 0 /\ (station.started = TRUE \/ IecAwaits(toStation, "STARTDT act"))
      BY <1>3, <2>1, <3>4 DEF IecInv, IecAnswering
    <3>6. toStation \in Seq(IecUpFrames)
      BY DEF IecInv, IecTyped
    <3>7. IecAwaits(toStation, "STARTDT act") => IecAwaits(toStation', "STARTDT act")
      BY <2>4, <2>5, <3>6, IecAwaitsMore
    <3>8. QED
      BY <3>5, <3>7
  <2>18. QED
    BY <2>13, <2>14, <2>15, <2>16, <2>17 DEF IecInv
<1>22. QED
  BY <1>19, <1>20, <1>21

LEMMA IecInvSame == ASSUME IecInv, UNCHANGED Iec!vars PROVE IecInv'
  BY DEF IecInv, IecTyped, IecLine, IecBegun, IecClock, IecAnswering, Iec!vars

LEMMA IecStep == IecInv /\ [Iec!Next]_(Iec!vars) => IecInv'
<1>1. SUFFICES ASSUME IecInv, [Iec!Next]_(Iec!vars) PROVE IecInv'
  OBVIOUS
<1>2. CASE UNCHANGED Iec!vars
  BY <1>1, <1>2, IecInvSame
<1>3. CASE Iec!Next
  <2>1. gi' = gi
    BY <1>3 DEF Iec!Next
  <2>2. \/ Iec!open
        \/ \E n \in 0..Len(toDriver) : Iec!starting(n) \/ Iec!service(n)
        \/ Iec!StationReads \/ Iec!StationTests \/ Iec!Silence \/ Iec!StationCloses
        \/ \E kind_1 \in {"I", "EI"} : Iec!StationSends(kind_1)
        \/ Iec!Time
    BY <1>3 DEF Iec!Next
  <2>3. CASE Iec!open
    BY <1>1, <2>1, <2>3, IecOpenKeeps
  <2>4. ASSUME NEW n \in 0..Len(toDriver), Iec!starting(n) PROVE IecInv'
    BY <1>1, <2>1, <2>4, IecStartingKeeps
  <2>5. ASSUME NEW n \in 0..Len(toDriver), Iec!service(n) PROVE IecInv'
    BY <1>1, <2>1, <2>5, IecServiceKeeps
  <2>6. CASE Iec!StationReads
    BY <1>1, <2>1, <2>6, IecReadsKeeps
  <2>7. CASE Iec!StationTests
    BY <1>1, <2>1, <2>7, IecTestsKeeps
  <2>8. CASE Iec!Silence
    BY <1>1, <2>1, <2>8, IecSilenceKeeps
  <2>9. CASE Iec!StationCloses
    <3>1. Iec!close("station")
      BY <2>9 DEF Iec!StationCloses
    <3>2. QED
      BY <1>1, <2>1, <3>1, IecCloseKeeps
  <2>10. ASSUME NEW k \in {"I", "EI"}, Iec!StationSends(k) PROVE IecInv'
    BY <1>1, <2>1, <2>10, IecSendsKeeps
  <2>11. CASE Iec!Time
    BY <1>1, <2>1, <2>11, IecTimeKeeps
  <2>12. QED
    BY <2>2, <2>3, <2>4, <2>5, <2>6, <2>7, <2>8, <2>9, <2>10, <2>11
<1>4. QED
  BY <1>1, <1>2, <1>3

\* Whatever the delays, the window and the modulus, and whatever is read at a
\* time, the numbers of a session are those of what has been sent, read and
\* acknowledged, and a link just served has nothing due (open, pump and service
\* of iec104.hpp).
THEOREM SessionInvariant == Iec!Spec => []IecInv
<1>1. QED
  BY IecInitInv, IecStep, PTL DEF Iec!Spec

\* What the invariant says of the properties.
LEMMA IecHeldTypes == ASSUME IecInv PROVE Iec!TypeOK
<1>1. /\ IecT1 \in Nat /\ IecT2 \in Nat /\ IecT3 \in Nat \ {0} /\ None \notin Nat /\ IecW \in Nat \ {0}
  BY SessionAssumption
<1>2. PICK f, s, t, u, c : /\ f = drv.first /\ s = drv.silent /\ t = drv.test /\ u = drv.unacked
                           /\ c = station.oldest
  OBVIOUS
<1>3. /\ drv.rx \in 0..(Modulus - 1) /\ u \in 0..(IecW - 1) /\ f \in IecAge
      /\ f # None => f \in 0..(IecT2 + 1)
      /\ s \in 0..(IecT1 + IecT3 + 2) /\ t \in IecAge
      /\ t # None => t \in 0..(IecT1 + 1)
      /\ station.vs \in 0..(Modulus - 1) /\ station.acked \in 0..(Modulus - 1) /\ c \in IecAge
      /\ c # None => c \in 0..(IecT2 + 2)
  BY <1>2, IecFacts DEF IecInv
<1>4. s \in Iec!Ages \ {None}
  <2>1. s \in 0..(IecT1 + IecT3 + 2)
    BY <1>3
  <2>2. QED
    BY ONLY <1>1, <2>1 DEF Iec!Ages
<1>5. f \in Iec!Ages
  <2>1. f # None => f \in 0..(IecT2 + 1)
    BY <1>3
  <2>2. QED
    BY ONLY <1>1, <2>1 DEF Iec!Ages
<1>6. t \in Iec!Ages
  <2>1. t # None => t \in 0..(IecT1 + 1)
    BY <1>3
  <2>2. QED
    BY ONLY <1>1, <2>1 DEF Iec!Ages
<1>7. c \in Iec!Ages
  <2>1. c # None => c \in 0..(IecT2 + 2)
    BY <1>3
  <2>2. QED
    BY ONLY <1>1, <2>1 DEF Iec!Ages
<1>8. u \in 0..IecW
  <2>1. u \in 0..(IecW - 1)
    BY <1>3
  <2>2. QED
    BY ONLY <1>1, <2>1
<1>9. Iec!Owed <= IecK
  <2>1. PICK a, y, v : IecHolds(a, y, v, drv.rx, station.vs, station.acked, station.oldest, toDriver)
    BY DEF IecInv, IecLine, IecOnLine
  <2>2. /\ a \in Nat /\ v \in Nat /\ y \in Nat /\ a <= y /\ y <= v /\ v - a <= IecK
        /\ station.acked = IecNum(a) /\ station.vs = IecNum(v)
    BY <2>1 DEF IecHolds
  <2>3. a <= v
    BY <2>2
  <2>4. (IecNum(v) - IecNum(a)) % Modulus = v - a
    BY <2>2, <2>3, IecNumIs
  <2>5. QED
    BY <2>2, <2>4 DEF Iec!Owed
<1>10. QED
  BY <1>2, <1>3, <1>4, <1>5, <1>6, <1>7, <1>8, <1>9 DEF Iec!TypeOK, IecInv, IecTyped

LEMMA IecHeldInTime == ASSUME IecInv PROVE Iec!AckedInTime
<1>1. SUFFICES ASSUME phase = "up", ~early, toStation = <<>>, station.oldest # None
      PROVE  station.oldest <= IecT2 + 1
  BY DEF Iec!AckedInTime
<1>2. PICK c, f, u, h : c = station.oldest /\ f = drv.first /\ u = drv.unacked /\ h = early
  OBVIOUS
<1>3. PICK a, y, v : /\ IecHolds(a, y, v, drv.rx, station.vs, station.acked, c, toDriver)
                     /\ IecBehind(a, y, u, f, c, toStation, h)
  BY <1>2 DEF IecInv, IecLine, IecOnLine
<1>4. PICK x \in Nat : a <= x /\ x <= y /\ IecAcks(toStation, a, x) /\ IecTimed(u, f, x, y, a, c, h)
  BY <1>3 DEF IecBehind
<1>5. a = x
  <2>1. toStation \in Seq(IecUpFrames)
    BY DEF IecInv, IecTyped
  <2>2. QED
    BY <1>1, <1>4, <2>1, IecAcksRise
<1>6. c \in Nat /\ f \in IecAge /\ IecT2 \in Nat
  <2>1. c \in IecAge /\ f \in IecAge
    BY <1>2, IecFacts DEF IecInv
  <2>2. QED
    BY <1>1, <1>2, <2>1, SessionAssumption DEF IecAge
<1>7. CASE f = None
  <2>1. x = y
    BY <1>1, <1>2, <1>4, <1>7 DEF IecTimed
  <2>2. c = 0
    BY <1>1, <1>2, <1>3, <1>5, <2>1 DEF IecHolds, IecFresh
  <2>3. QED
    BY <1>2, <1>6, <2>2
<1>8. CASE f # None
  <2>1. c <= f
    BY <1>1, <1>2, <1>4, <1>5, <1>8 DEF IecTimed
  <2>2. f <= IecT2 /\ f \in Nat
    BY <1>1, <1>2, <1>6, <1>8 DEF IecInv, IecClock, IecRuns, IecAge
  <2>3. QED
    BY <1>2, <1>6, <2>1, <2>2
<1>9. QED
  BY <1>7, <1>8

LEMMA IecHeldSilence == ASSUME IecInv PROVE Iec!SilenceIsFound
<1>1. SUFFICES ASSUME phase = "up" PROVE drv.silent <= IecT3 + IecT1 + 1
  BY DEF Iec!SilenceIsFound
<1>2. PICK s, t : s = drv.silent /\ t = drv.test
  OBVIOUS
<1>3. s \in 0..(IecT1 + IecT3 + 2)
  BY <1>2, IecFacts DEF IecInv
<1>4. t # None => t \in 0..(IecT1 + 1)
  BY <1>2, IecFacts DEF IecInv
<1>5. (t = None => s <= IecT3) /\ (t # None => s <= IecT3 + t)
  BY <1>1, <1>2 DEF IecInv, IecClock, IecRuns
<1>6. IecT1 \in Nat /\ IecT3 \in Nat
  BY SessionAssumption
<1>7. s <= IecT3 + IecT1 + 1
  BY <1>3, <1>4, <1>5, <1>6
<1>8. QED
  BY <1>2, <1>7

LEMMA IecPart == MCSpec => Iec!Spec
<1>1. MCInit => Iec!Init
  BY DEF MCInit
<1>2. [MCNext]_<<part, vars, windowVars, driverVars>> => [Iec!Next]_(Iec!vars)
  BY DEF MCNext, driverVars, iecVars, Iec!vars
<1>3. QED
  BY <1>1, <1>2, PTL DEF MCSpec, Iec!Spec

\* A session with a station that reads and answers is never given up, for its
\* numbers, past their modulus too, or for a delay; a frame is acknowledged t2
\* after it came but for those that open() read, and a link that has fallen
\* silent is given up after t3 and t1 (iec104.hpp).
THEOREM SessionsAreSound ==
  MCSpec => []SessionSound
<1>1. IecInv => SessionSound
  <2>1. SUFFICES ASSUME IecInv PROVE SessionSound
    OBVIOUS
  <2>2. Iec!NoFalseLoss
    BY <2>1 DEF Iec!NoFalseLoss, IecInv, IecTyped
  <2>3. QED
    BY <2>1, <2>2, IecHeldTypes, IecHeldInTime, IecHeldSilence DEF SessionSound
<1>2. QED
  BY <1>1, IecPart, SessionInvariant, PTL
=============================================================================
