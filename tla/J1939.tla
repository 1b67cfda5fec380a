------------------------------- MODULE J1939 --------------------------------
(***************************************************************************)
(* Messages of several frames, as the J1939 driver puts them together      *)
(* (j1939.hpp, on the transport of can_socket.hpp).                        *)
(*                                                                         *)
(* A source announces a transfer, by broadcast (BAM) or to one node (RTS), *)
(* then sends numbered packets that do not name their transfer: the driver *)
(* gives them to the session open for their source. Frames keep their      *)
(* order on the bus, any of them may be lost, the source may stop in the   *)
(* middle, and the bus may be lost (bus-off) and opened again, by a driver *)
(* that knows nothing of what came before. The model follows the transfers *)
(* of one source. An RTS is answered whatever its destination.             *)
(***************************************************************************)
EXTENDS Integers

CONSTANTS
  Packets,       \* packets of a transfer
  T1,            \* a session without a packet since that many ticks is dropped
  MaxTransfers,  \* bound: transfers announced
  None

VARIABLES
  asks,          \* a point asks for its group: the driver speaks on the bus
  count,         \* transfers announced
  under,         \* the source: its transfer of each kind, or None
  sess,          \* the session of the source in the driver, or None
  bus,           \* the socket is open
  ticked,        \* the driver has been served in this tick
  delivered      \* the message that the last step has delivered, or None
vars == <<asks, count, under, sess, bus, ticked, delivered>>

Kinds == {"BAM", "RTS"}
Other(kind) == IF kind = "BAM" THEN "RTS" ELSE "BAM"

TypeOK ==
  /\ asks \in BOOLEAN /\ count \in 0..MaxTransfers /\ bus \in BOOLEAN /\ ticked \in BOOLEAN
  /\ under \in [Kinds -> {None} \cup [id : 1..MaxTransfers, sent : 0..Packets]]
  /\ sess # None => bus /\ sess.id \in 1..count /\ sess.age \in 0..(T1 + 2)

Init ==
  /\ asks \in BOOLEAN /\ count = 0 /\ under = [k \in Kinds |-> None]
  /\ sess = None /\ bus = TRUE /\ ticked = TRUE /\ delivered = None

-----------------------------------------------------------------------------
(* What the driver does of a frame, then tick().                           *)

\* `excused`: what may mix two transfers without a fault of the driver.
NewSession(id, overlap) ==
  [id |-> id, got |-> [i \in 1..Packets |-> None], age |-> 0, excused |-> overlap]

\* An announcement that the driver does not take leaves the session as it is,
\* open to the packets of another transfer for the delay T1.
Missed(s) ==
  IF s # None /\ s.age <= T1 + 1 THEN [s EXCEPT !.excused = TRUE] ELSE s

\* Variant: tick() never drops a session.
purgedNever(s) == s

purged(s) == IF s # None /\ s.age > T1 THEN None ELSE s

on_cm(kind, id) ==
  IF kind = "RTS" /\ ~asks THEN Missed(sess)
  ELSE NewSession(id, under[Other(kind)] # None)

Filled(id, seq) == [sess EXCEPT !.got[seq] = id, !.age = 0]

-----------------------------------------------------------------------------
\* Announcements: heard, lost on the way, or refused for their size.
Announce(kind, how) ==
  /\ count < MaxTransfers /\ under[kind] = None /\ (bus \/ how = "lost")
  /\ count' = count + 1
  /\ under' = [under EXCEPT ![kind] = [id |-> count', sent |-> 0]]
  /\ sess' = CASE how = "heard" -> purged(on_cm(kind, count'))
               [] how = "lost" -> Missed(sess)
               [] how = "wrong" -> None
  /\ delivered' = None
  /\ UNCHANGED <<asks, bus, ticked>>

\* on_dt: the next packet of the transfer.
Packet(kind, lost) ==
  /\ under[kind] # None /\ (bus \/ lost)
  /\ LET id == under[kind].id
         seq == under[kind].sent + 1
         s == Filled(id, seq)
         full == \A i \in 1..Packets : s.got[i] # None
     IN /\ under' = [under EXCEPT ![kind] = IF seq = Packets THEN None ELSE [@ EXCEPT !.sent = seq]]
        /\ IF lost THEN UNCHANGED sess /\ delivered' = None
           ELSE IF sess = None THEN sess' = None /\ delivered' = None
           ELSE IF full THEN sess' = None /\ delivered' = s
           ELSE sess' = purged(s) /\ delivered' = None
  /\ UNCHANGED <<asks, count, bus, ticked>>

\* The source gives a transfer up; point to point it may say so.
Cut(kind, told) ==
  /\ under[kind] # None /\ (told => bus /\ kind = "RTS")
  /\ under' = [under EXCEPT ![kind] = None]
  /\ sess' = IF told THEN None ELSE sess
  /\ delivered' = None
  /\ UNCHANGED <<asks, count, bus, ticked>>

\* service without a frame.
tick ==
  /\ bus /\ ~ticked
  /\ sess' = purged(sess) /\ ticked' = TRUE /\ delivered' = None
  /\ UNCHANGED <<asks, count, under, bus>>

\* The bus is lost: service fails, and the thread of the link closes the driver.
\* Or it is opened again, by a new driver.
Bus ==
  /\ bus' = ~bus /\ sess' = None /\ delivered' = None
  /\ UNCHANGED <<asks, count, under, ticked>>

Time ==
  /\ sess # None /\ ticked
  /\ sess' = [sess EXCEPT !.age = IF @ > T1 + 1 THEN @ ELSE @ + 1]
  /\ ticked' = FALSE /\ delivered' = None
  /\ UNCHANGED <<asks, count, under, bus>>

Next ==
  \/ \E kind \in Kinds :
       \/ \E how \in {"heard", "lost", "wrong"} : Announce(kind, how)
       \/ \E no \in BOOLEAN : Packet(kind, no) \/ Cut(kind, no)
  \/ tick \/ Bus \/ Time

Spec == Init /\ [][Next]_vars

-----------------------------------------------------------------------------
(* A message delivered is made of the packets of the transfer announced,   *)
(* unless the driver missed an announcement less than T1 after a packet,   *)
(* or the source led two transfers at once: on_cm replaces the session,    *)
(* and tick() drops the one that was left.                                 *)
MessagesWhole ==
  delivered # None =>
    delivered.excused \/ \A i \in 1..Packets : delivered.got[i] = delivered.id
=============================================================================
