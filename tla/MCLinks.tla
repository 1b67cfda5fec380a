------------------------------ MODULE MCLinks ------------------------------
(***************************************************************************)
(* The links for TLC: the threads that serve them (Links), what two of     *)
(* their drivers keep of a session (Iec104) and of a message (J1939), the  *)
(* window that edits them (Config) and the one that erases them with other *)
(* settings (Reset), explored side by side: a behaviour is one of the      *)
(* five, chosen at the start, and the others stay in their initial state.  *)
(*                                                                         *)
(* Links: two links, and configurations that change the settings of a      *)
(* link, disable or remove it, or name a protocol without a driver. Under  *)
(* the fairness of Links (LiveSpec): one client, two configurations.       *)
(* Iec104: delays that keep the order t2 < t1 < t3 of the norm, numbers    *)
(* that wrap. J1939: three transfers of two packets.                       *)
(* Config: one identifier for two links, which are told apart while one of *)
(* them is badly typed or not yet validated; one point.                    *)
(* Reset: one layout on the controller, one that the browser opens; the    *)
(* skin and the captures are not ticked together.                          *)
(***************************************************************************)
EXTENDS Links, Sequences, TLC

CONSTANTS l1, l2, v1, v2, decl, unk, off, p1,
          ConfIds, ConfPoints, Bad, ConfFiles, DemoList, MaxLinks,  \* Config
          LayoutsKept,  \* layouts on the controller (Reset)
          IecT1, IecT2, IecT3, IecW, IecK, Modulus,  \* delays and windows (Iec104)
          Packets, JayT1, MaxTransfers               \* transfers (J1939)

VARIABLES
  part,
  served, mode, edited, view, at, draft, point, new, saving, loading,
  apart, since, crossed,                                          \* Config
  layouts, own, holder, session, autoload, timer, shows, step, kind,
  ticked, todo, failed, asked, fresh,                             \* Reset
  gi, phase, drv, toStation, toDriver, station, mute, linkServed, early, fault,  \* Iec104
  asks, count, under, sess, bus, purgeDone, delivered             \* J1939

Cfg(x, y) == [l \in Links |-> IF l = l1 THEN x ELSE y]
MCConfigs == {Cfg(v1, decl), Cfg(v2, Absent), Cfg(off, unk)}
LiveConfigs == {Cfg(v1, decl), Cfg(v2, Absent)}
MCDemo == Cfg(v1, decl)

Entry(id, points) == [id |-> id, points |-> points]
MCFiles == {<<>>, <<Entry(l1, {p1}), Entry(l1, {})>>}
MCDemoList == <<Entry(l1, {})>>
Co == INSTANCE Config WITH
  config <- edited,
  Ids <- ConfIds, Points <- ConfPoints, Files <- ConfFiles, Demo <- DemoList

\* What a file holds, half typed entries included.
ConfLink == [id : ConfIds \cup {Bad}, points : SUBSET (ConfPoints \cup {Bad})]
ASSUME ConfigAssumption ==
  /\ MaxLinks \in Nat /\ Bad \notin ConfIds \cup ConfPoints
  /\ \A f \in ConfFiles \cup {DemoList} : f \in Seq(ConfLink) /\ Len(f) <= MaxLinks

Re == INSTANCE Reset WITH Layouts <- LayoutsKept
\* The appearance and the capture settings are not ticked together: each is
\* erased by one request, whose outcome the steps that follow do not read.
NotBoth == ~ ({"skin", "cap"} \subseteq ticked')

Iec == INSTANCE Iec104 WITH
  T1 <- IecT1, T2 <- IecT2, T3 <- IecT3, W <- IecW, K <- IecK, served <- linkServed
\* The delays are numbers, a second at least before a test and for its answer, a
\* window holds a frame at least, and the station leaves fewer frames without an
\* acknowledgement than it has numbers, so that these tell them apart.
ASSUME SessionAssumption ==
  /\ IecT1 \in Nat \ {0} /\ IecT2 \in Nat /\ IecT3 \in Nat \ {0} /\ IecW \in Nat \ {0} /\ None \notin Nat
  /\ IecK \in Nat /\ Modulus \in Nat /\ IecK < Modulus
Jay == INSTANCE J1939 WITH T1 <- JayT1, ticked <- purgeDone

\* The sizes are numbers, and a transfer has a packet.
ASSUME TransfersAssumption ==
  Packets \in Nat \ {0} /\ JayT1 \in Nat /\ MaxTransfers \in Nat

configVars == <<served, mode, edited, view, at, draft, point, new, saving, loading,
                apart, since, crossed>>
resetVars == <<layouts, own, holder, session, autoload, timer, shows, step, kind,
               ticked, todo, failed, asked, fresh>>
iecVars == <<gi, phase, drv, toStation, toDriver, station, mute, linkServed, early, fault>>
jayVars == <<asks, count, under, sess, bus, purgeDone, delivered>>
windowVars == <<configVars, resetVars>>
driverVars == <<iecVars, jayVars>>
Symmetry == Permutations(Clients)

MCInit ==
  /\ part \in {"links", "iec104", "j1939", "config", "reset"}
  /\ Init /\ Iec!Init /\ Jay!Init /\ Co!Init /\ Re!Init
  /\ part # "iec104" => gi
  /\ part # "j1939" => asks
  /\ part # "config" => edited = <<>>
  /\ autoload

MCNext ==
  /\ part' = part
  /\ \/ part = "links" /\ Next /\ UNCHANGED <<windowVars, driverVars>>
     \/ part = "iec104" /\ Iec!Next /\ UNCHANGED <<vars, windowVars, jayVars>>
     \/ part = "j1939" /\ Jay!Next /\ UNCHANGED <<vars, windowVars, iecVars>>
     \/ part = "config" /\ Co!Next /\ UNCHANGED <<vars, resetVars, driverVars>>
     \/ part = "reset" /\ Re!Next /\ NotBoth /\ UNCHANGED <<vars, configVars, driverVars>>

MCSpec == MCInit /\ [][MCNext]_<<part, vars, windowVars, driverVars>>

\* The threads of the links, under the fairness that keeps them alive.
LiveInit == MCInit /\ part = "links"
LiveSpec ==
  /\ LiveInit
  /\ [][MCNext]_<<part, vars, windowVars, driverVars>>
  /\ Fairness

\* A session of IEC 104 is acknowledged in time, and lost for a reason.
SessionSound ==
  part = "iec104" => Iec!TypeOK /\ Iec!NoFalseLoss /\ Iec!AckedInTime /\ Iec!SilenceIsFound
\* A message of J1939 is made of one transfer.
MessagesWhole == part = "j1939" => Jay!TypeOK /\ Jay!MessagesWhole
\* The configurations sent have distinct, well-formed identifiers (normalize).
Unambiguous == part = "config" => Co!TypeOK /\ Co!Unambiguous
\* What is edited is what is sent (P.save and the forms of protocols-ui.js).
ListIsLive == part = "config" => Co!ListIsLive
\* The page reloads only if what it was asked to erase is gone (openResetModal),
\* and then opens on what the entry of the menu says (boot).
ResetSound == part = "reset" => Re!ResetSound
=============================================================================
