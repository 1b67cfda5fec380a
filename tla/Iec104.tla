------------------------------- MODULE Iec104 -------------------------------
(***************************************************************************)
(* A session of the IEC 60870-5-104 driver (iec104.hpp, Iec104Driver) with *)
(* a controlled station, over TCP.                                         *)
(*                                                                         *)
(* The station numbers the frames of information it sends and waits for    *)
(* their acknowledgement: after K of them it sends no more, and when one   *)
(* is old it gives the link up. The driver acknowledges after W frames or  *)
(* after t2, tests a link silent since t3, and gives it up t1 later.       *)
(*                                                                         *)
(* A read of the socket takes any number of the frames that have come; the *)
(* thread of the link serves it, and the frames reach the other side,      *)
(* within a tick. The station may fall silent without closing.             *)
(***************************************************************************)
EXTENDS Integers, SequencesExt

CONSTANTS
  T1, T2, T3,    \* delays of the driver, in ticks
  W,             \* it acknowledges after that many frames
  K,             \* the station sends no more without an acknowledgement
  Modulus,       \* sequence numbers, 2^15
  None

VARIABLES
  gi,            \* a general interrogation follows the opening
  phase,         \* "closed", "starting" (open) or "up" (service)
  drv,           \* the driver: numbers, acknowledgements owed, ages of its timers
  toStation, toDriver,   \* frames under way
  station,       \* the station: numbers, acknowledgement, age of the oldest owed
  mute,          \* the station is silent, and neither reads nor writes
  served,        \* the driver has served the link in this tick
  early,         \* history: frames read by open() and not acknowledged since
  fault          \* history: why the driver closed last; "t1": a delay ran out
                 \* while the station read and answered
vars == <<gi, phase, drv, toStation, toDriver, station, mute, served, early, fault>>

Frame(kind, ssn, rsn) == [kind |-> kind, ssn |-> ssn, rsn |-> rsn]
U(kind) == Frame(kind, 0, 0)

\* Ages are those of the timers: first_unacked_, last_rx_ and test_sent_.
NewDriver == [rx |-> 0, unacked |-> 0, first |-> None, silent |-> 0,
              test |-> None, started |-> FALSE]
NewStation == [vs |-> 0, acked |-> 0, oldest |-> None, started |-> FALSE]

Next1(n) == (n + 1) % Modulus
\* An age that is counted from now on, if it was not.
Counted(age) == IF age = None THEN 0 ELSE age
Owed == (station.vs - station.acked) % Modulus

Ages == {None} \cup 0..(T1 + T2 + T3 + 2)
TypeOK ==
  /\ gi \in BOOLEAN /\ phase \in {"closed", "starting", "up"} /\ mute \in BOOLEAN /\ served \in BOOLEAN
  /\ drv.rx \in 0..(Modulus - 1) /\ drv.unacked \in 0..W
  /\ drv.first \in Ages /\ drv.test \in Ages /\ drv.silent \in Ages \ {None}
  /\ station.vs \in 0..(Modulus - 1) /\ station.acked \in 0..(Modulus - 1)
  /\ station.oldest \in Ages /\ Owed <= K /\ early \in BOOLEAN

Init ==
  /\ gi \in BOOLEAN /\ phase = "closed" /\ drv = NewDriver /\ station = NewStation
  /\ toStation = <<>> /\ toDriver = <<>> /\ mute = FALSE /\ served = TRUE
  /\ early = FALSE /\ fault = "none"

-----------------------------------------------------------------------------
(* The driver.                                                             *)

\* What reading leaves: the driver, what it has sent meanwhile, and whether a
\* frame was wrong.
Reading(d) == [drv |-> d, out |-> <<>>, wrong |-> FALSE]

send_s(r) == [r EXCEPT !.drv.unacked = 0, !.drv.first = None,
                       !.out = Append(@, Frame("S", 0, r.drv.rx))]
send_gi(r) == [r EXCEPT !.out = Append(@, Frame("I", 0, r.drv.rx))]

\* A frame of information, perhaps one that says that the station has restarted.
information(r, f) ==
  LET taken == [r EXCEPT !.drv.rx = Next1(r.drv.rx), !.drv.unacked = r.drv.unacked + 1,
                         !.drv.first = Counted(r.drv.first)]
      told == IF f.kind = "EI" /\ gi THEN send_gi(taken) ELSE taken
  IN IF f.ssn # r.drv.rx THEN [r EXCEPT !.wrong = TRUE]
     ELSE IF told.drv.unacked >= W THEN send_s(told) ELSE told

frame(r, f) ==
  IF r.wrong THEN r
  ELSE CASE f.kind \in {"I", "EI"} -> information(r, f)
         [] f.kind = "STARTDT con" -> [r EXCEPT !.drv.started = TRUE]
         [] f.kind = "TESTFR act" -> [r EXCEPT !.out = Append(@, U("TESTFR con"))]
         [] f.kind = "TESTFR con" -> [r EXCEPT !.drv.test = None]

\* Variant: nothing that is read stops the test.
pumpDeaf(n) ==
  LET alive == IF n = 0 THEN drv ELSE [drv EXCEPT !.silent = 0]
      read[i \in 0..n] == IF i = 0 THEN Reading(alive) ELSE frame(read[i - 1], toDriver[i])
  IN [read[n] EXCEPT !.drv.test = drv.test]

\* pump: n frames are read; any of them is a sign of life.
pump(n) ==
  LET alive == IF n = 0 THEN drv ELSE [drv EXCEPT !.silent = 0, !.test = None]
      read[i \in 0..n] == IF i = 0 THEN Reading(alive) ELSE frame(read[i - 1], toDriver[i])
  IN read[n]

\* t2.
acknowledge(r) ==
  IF r.drv.first # None /\ r.drv.first >= T2 THEN send_s(r) ELSE r

\* t3, when no test is under way.
probe(r) ==
  IF r.drv.test = None /\ r.drv.silent >= T3
  THEN [r EXCEPT !.drv.test = 0, !.out = Append(@, U("TESTFR act"))] ELSE r

Expired(r) == r.drv.test # None /\ r.drv.test >= T1

Took(n, r) ==
  /\ toDriver' = SubSeq(toDriver, n + 1, Len(toDriver))
  /\ toStation' = toStation \o r.out
  /\ drv' = r.drv /\ served' = TRUE

close(why) ==
  /\ phase' = "closed" /\ drv' = NewDriver /\ fault' = why
  /\ toStation' = <<>> /\ toDriver' = <<>> /\ station' = NewStation
  /\ served' = TRUE /\ early' = FALSE /\ mute' = FALSE

\* A delay has run out.
giveUp == close(IF mute THEN "mute" ELSE "t1")

\* open: connection and STARTDT; `silent` is then its age.
open ==
  /\ phase = "closed" /\ ~mute
  /\ phase' = "starting" /\ drv' = NewDriver /\ toStation' = <<U("STARTDT act")>>
  /\ toDriver' = <<>> /\ station' = NewStation
  /\ served' = TRUE /\ early' = FALSE /\ fault' = "none"
  /\ UNCHANGED mute

\* open waits for the confirmation: what came with it is read, then forgotten by
\* the timers.
starting(n) ==
  /\ phase = "starting"
  /\ LET r == pump(n)
         aged == [r EXCEPT !.drv.silent = drv.silent]
         ready == [(IF gi THEN send_gi(r) ELSE r)
                     EXCEPT !.drv.first = None, !.drv.silent = 0, !.drv.test = None]
     IN IF r.wrong THEN close("sequence")
        ELSE IF r.drv.started
        THEN Took(n, ready) /\ phase' = "up" /\ early' = (r.drv.unacked > 0)
             /\ UNCHANGED <<station, mute, fault>>
        ELSE IF drv.silent >= T1 THEN giveUp
        ELSE Took(n, aged) /\ UNCHANGED <<phase, station, mute, early, fault>>

service(n) ==
  /\ phase = "up"
  /\ LET r == pump(n)
         s == probe(acknowledge(r))
     IN IF r.wrong THEN close("sequence")
        ELSE IF Expired(acknowledge(r)) THEN giveUp
        ELSE Took(n, s) /\ early' = (early /\ ~ \E f \in Range(s.out) : f.kind \in {"S", "I"})
             /\ UNCHANGED <<phase, station, mute, fault>>

-----------------------------------------------------------------------------
(* The station, as the norm has it.                                        *)

Sent(kind) ==
  /\ toDriver' = Append(toDriver, IF kind \in {"I", "EI"} THEN Frame(kind, station.vs, 0)
                                  ELSE U(kind))

Acked(rsn) ==
  [station EXCEPT !.acked = rsn, !.oldest = IF rsn = station.vs THEN None
                                            ELSE IF rsn = station.acked THEN @ ELSE 0]

StationReads ==
  /\ toStation # <<>> /\ ~mute
  /\ toStation' = Tail(toStation)
  /\ LET f == Head(toStation)
     IN CASE f.kind = "STARTDT act" -> Sent("STARTDT con") /\ station' = [station EXCEPT !.started = TRUE]
          [] f.kind = "TESTFR act" -> Sent("TESTFR con") /\ UNCHANGED station
          [] f.kind = "TESTFR con" -> UNCHANGED <<toDriver, station>>
          [] f.kind \in {"S", "I"} -> station' = Acked(f.rsn) /\ UNCHANGED toDriver
  /\ UNCHANGED <<phase, drv, mute, served, early, fault>>

\* A value, or the end of its initialisation.
StationSends(kind) ==
  /\ phase # "closed" /\ station.started /\ ~mute /\ Owed < K /\ Len(toDriver) < 2 /\ Len(toStation) < 2
  /\ Sent(kind)
  /\ station' = [station EXCEPT !.vs = Next1(@), !.oldest = Counted(@)]
  /\ UNCHANGED <<phase, drv, toStation, mute, served, early, fault>>

StationTests ==
  /\ phase # "closed" /\ ~mute /\ toDriver = <<>> /\ toStation = <<>>
  /\ Sent("TESTFR act")
  /\ UNCHANGED <<phase, drv, toStation, station, mute, served, early, fault>>

Silence ==
  /\ phase # "closed" /\ ~mute /\ mute' = TRUE
  /\ UNCHANGED <<phase, drv, toStation, toDriver, station, served, early, fault>>

StationCloses ==
  /\ phase # "closed" /\ close("station")

-----------------------------------------------------------------------------
\* An age, counted up to the last that matters.
Older(age, last) == IF age = None THEN None ELSE IF age > last THEN age ELSE age + 1

\* What is under way arrives, and the link is served, within a tick.
Time ==
  /\ served /\ toDriver = <<>> /\ (toStation = <<>> \/ mute) /\ phase # "closed"
  /\ drv' = [drv EXCEPT !.first = Older(@, T2), !.silent = Older(@, T3 + T1 + 1),
                          !.test = Older(@, T1)]
  /\ station' = [station EXCEPT !.oldest = IF mute THEN @ ELSE Older(@, T2 + 1)]
  /\ served' = FALSE
  /\ UNCHANGED <<phase, toStation, toDriver, mute, early, fault>>

Next ==
  /\ UNCHANGED gi
  /\ \/ open
     \/ \E n \in 0..Len(toDriver) : starting(n) \/ service(n)
     \/ StationReads \/ StationTests \/ Silence \/ StationCloses
     \/ \E kind \in {"I", "EI"} : StationSends(kind)
     \/ Time

Spec == Init /\ [][Next]_vars

-----------------------------------------------------------------------------
(* A station that reads and answers is never given up: over TCP the        *)
(* numbers never tell of a frame lost, past their modulus too, and what    *)
(* comes from it stops the test and the delay of the opening in time.      *)
NoFalseLoss == fault \notin {"sequence", "t1"}

(* A frame is acknowledged t2 after it came at the latest, whatever the    *)
(* driver does meanwhile; but for the frames that open() has read with the *)
(* confirmation of STARTDT, which wait for the next ones.                  *)
AckedInTime ==
  phase = "up" /\ ~mute /\ ~early /\ toStation = <<>> /\ station.oldest # None =>
    station.oldest <= T2 + 1

(* A silent station is given up t1 after the test that follows t3.         *)
SilenceIsFound ==
  phase = "up" => drv.silent <= T3 + T1 + 1
=============================================================================
