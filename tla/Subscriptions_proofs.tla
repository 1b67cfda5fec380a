------------------------ MODULE Subscriptions_proofs ------------------------
(***************************************************************************)
(* Proofs that the reference counts of Subscriptions are exact, for any    *)
(* number of addresses, sessions, campaigns and variables.                 *)
(***************************************************************************)
EXTENDS Subscriptions, FiniteSetTheorems, SequenceTheorems, TLAPS

\* The tickets of an address are always finitely many: each step adds at most
\* one.  Without it Cardinality would mean nothing.
FiniteTickets == \A a \in Addr : IsFiniteSet(held[a])

\* The inductive invariant.  RefsMatchHolders alone is not inductive: that a
\* new ticket is really new rests on OnlyLiveHolders and NotedOnce, and that
\* the last release leaves no session pointing at the channel on both.
IInv ==
    /\ TypeOK
    /\ FiniteTickets
    /\ RefsMatchHolders
    /\ MetaStaysValid
    /\ OnlyLiveHolders
    /\ NotedOnce
    /\ \A s \in dangling : conn[s] = "meta"

-----------------------------------------------------------------------------
\* Every request the recorder can be asked is a sequence of addresses.
LEMMA RequestType ==
    ASSUME NEW r \in Requests
    PROVE  r \in Seq(Addr) /\ Len(r) <= MaxVars
<1>1. PICK n \in 0..MaxVars : r \in [1..n -> Addr]
  BY DEF Requests
<1>2. n \in Nat /\ n <= MaxVars
  BY <1>1, SubscriptionsAssumption
<1>3. QED
  BY <1>1, <1>2, SubscriptionsAssumption

\* Adding a new ticket adds one to the cardinality, dropping one removes one.
LEMMA OneMore ==
    ASSUME NEW S, NEW t, IsFiniteSet(S), t \notin S
    PROVE  /\ IsFiniteSet(S \cup {t})
           /\ Cardinality(S \cup {t}) = Cardinality(S) + 1
  BY FS_AddElement

LEMMA OneLess ==
    ASSUME NEW S, NEW t, IsFiniteSet(S), t \in S
    PROVE  /\ IsFiniteSet(S \ {t})
           /\ Cardinality(S \ {t}) = Cardinality(S) - 1
           /\ Cardinality(S) \in Nat /\ Cardinality(S) > 0
           /\ Cardinality(S \ {t}) \in Nat
<1>1. Cardinality(S) \in Nat /\ IsFiniteSet(S \ {t})
  BY FS_CardinalityType, FS_RemoveElement
<1>2. Cardinality(S) # 0
  BY FS_EmptySet
<1>3. QED
  BY <1>1, <1>2, FS_RemoveElement, FS_CardinalityType

-----------------------------------------------------------------------------
\* A subscription keeps counts, finiteness and the type of the source's state.
LEMMA SubscribeCounts ==
    ASSUME TypeOK, FiniteTickets, RefsMatchHolders, MetaStaysValid,
           NEW a \in Addr, NEW t \in Ticket, t \notin held[a],
           Subscribe(a, t),
           \A s \in dangling : t # <<"meta", s>>
    PROVE  /\ refs' \in [Addr -> Nat] /\ held' \in [Addr -> SUBSET Ticket]
           /\ FiniteTickets' /\ RefsMatchHolders' /\ MetaStaysValid'
<1> USE DEF Subscribe, Addr
<1>1. refs' \in [Addr -> Nat] /\ held' \in [Addr -> SUBSET Ticket]
  BY DEF TypeOK
<1>2. held'[a] = held[a] \cup {t} /\ \A b \in Addr : b # a => held'[b] = held[b]
  BY DEF TypeOK
<1>3. FiniteTickets'
  BY <1>2, OneMore DEF FiniteTickets
<1>4. RefsMatchHolders'
  <2> SUFFICES ASSUME NEW b \in Inner
               PROVE  refs'[b] = Cardinality(held'[b]) + leaked'[b]
    BY DEF RefsMatchHolders
  <2>1. CASE b # a
    BY <2>1, <1>2 DEF RefsMatchHolders, TypeOK
  <2>2. CASE b = a
    <3>1. Cardinality(held'[a]) = Cardinality(held[a]) + 1 /\ Cardinality(held[a]) \in Nat
      BY <1>2, OneMore, FS_CardinalityType DEF FiniteTickets
    <3>2. refs'[a] = refs[a] + 1 /\ refs[a] \in Nat /\ leaked[a] \in Nat /\ leaked'[a] = leaked[a]
      BY DEF TypeOK
    <3>3. refs[a] = Cardinality(held[a]) + leaked[a]
      BY <2>2 DEF RefsMatchHolders
    <3>4. QED
      BY <2>2, <3>1, <3>2, <3>3
  <2>3. QED
    BY <2>1, <2>2
<1>5. MetaStaysValid'
  BY <1>2 DEF MetaStaysValid
<1>6. QED
  BY <1>1, <1>3, <1>4, <1>5

\* Releasing a noted reference keeps the counts.
LEMMA ReleaseCounts ==
    ASSUME TypeOK, FiniteTickets, RefsMatchHolders,
           NEW a \in Addr, NEW t \in held[a],
           held' = [held EXCEPT ![a] = @ \ {t}],
           refs' = Released(a),
           leaked' = leaked
    PROVE  /\ refs' \in [Addr -> Nat] /\ held' \in [Addr -> SUBSET Ticket]
           /\ FiniteTickets' /\ RefsMatchHolders'
<1> USE DEF Addr
<1>1. refs' \in [Addr -> Nat] /\ held' \in [Addr -> SUBSET Ticket]
  BY DEF TypeOK, Released
<1>2. held'[a] = held[a] \ {t} /\ \A b \in Addr : b # a => held'[b] = held[b]
  BY DEF TypeOK
<1>3. FiniteTickets'
  BY <1>2, OneLess DEF FiniteTickets
<1>4. RefsMatchHolders'
  <2> SUFFICES ASSUME NEW b \in Inner
               PROVE  refs'[b] = Cardinality(held'[b]) + leaked'[b]
    BY DEF RefsMatchHolders
  <2>1. CASE b # a
    BY <2>1, <1>2 DEF RefsMatchHolders, TypeOK, Released
  <2>2. CASE b = a
    <3>1. /\ Cardinality(held'[a]) = Cardinality(held[a]) - 1
          /\ Cardinality(held[a]) \in Nat /\ Cardinality(held[a]) > 0
      BY <1>2, OneLess DEF FiniteTickets
    <3>2. refs[a] = Cardinality(held[a]) + leaked[a] /\ leaked[a] \in Nat /\ leaked'[a] = leaked[a]
      BY <2>2 DEF RefsMatchHolders, TypeOK
    <3>3. refs'[a] = refs[a] - 1
      BY <3>1, <3>2 DEF Released, TypeOK
    <3>4. QED
      BY <2>2, <3>1, <3>2, <3>3
  <2>3. QED
    BY <2>1, <2>2
<1>5. QED
  BY <1>1, <1>3, <1>4

\* ... and a controller channel is destroyed only when no session points at it.
LEMMA ReleaseSpares ==
    ASSUME TypeOK, FiniteTickets, RefsMatchHolders, MetaStaysValid,
           NEW a \in Addr, NEW t \in held[a],
           NEW newHeld, newHeld = [held EXCEPT ![a] = @ \ {t}],
           held' = newHeld, refs' = Released(a), leaked' = leaked
    PROVE  /\ DanglingAfter(a, newHeld) = dangling
           /\ \A s \in dangling : \A b \in Inner : <<"meta", s>> \notin newHeld[b]
<1> USE DEF Addr
<1>1. newHeld[a] = held[a] \ {t} /\ \A b \in Addr : b # a => newHeld[b] = held[b]
  BY DEF TypeOK
<1>2. \A s \in dangling : \A b \in Inner : <<"meta", s>> \notin newHeld[b]
  BY <1>1 DEF MetaStaysValid
<1>3. ASSUME a \in Inner, Released(a)[a] = 0
      PROVE  newHeld[a] = {}
  <2>1. FiniteTickets' /\ RefsMatchHolders'
    BY ReleaseCounts
  <2>2. refs'[a] = 0 /\ refs'[a] = Cardinality(held'[a]) + leaked'[a]
    BY <1>3, <2>1 DEF RefsMatchHolders
  <2>3. IsFiniteSet(held'[a])
    BY <2>1 DEF FiniteTickets
  <2>4. Cardinality(held'[a]) \in Nat /\ leaked'[a] \in Nat
    BY <2>3, FS_CardinalityType DEF TypeOK
  <2>5. Cardinality(held'[a]) = 0
    BY <2>2, <2>4
  <2>6. QED
    BY <2>3, <2>5, FS_EmptySet
<1>4. DanglingAfter(a, newHeld) = dangling
  BY <1>3 DEF DanglingAfter
<1>5. QED
  BY <1>2, <1>4

-----------------------------------------------------------------------------
\* The four kinds of tickets are tickets, and distinct.
LEMMA TicketKinds ==
    /\ \A s \in Sessions : <<"ws", s>> \in Ticket /\ <<"meta", s>> \in Ticket
    /\ \A c \in Campaigns, i \in 1..MaxVars : <<"rec", c, i>> \in Ticket
    /\ <<"trig">> \in Ticket
    /\ \A s, z \in Sessions : /\ <<"ws", s>> # <<"meta", z>>
                             /\ (<<"ws", s>> = <<"ws", z>> => s = z)
                             /\ (<<"meta", s>> = <<"meta", z>> => s = z)
    /\ \A s \in Sessions, c \in Campaigns, i \in 1..MaxVars :
          /\ <<"rec", c, i>> # <<"ws", s>> /\ <<"rec", c, i>> # <<"meta", s>>
    /\ \A s \in Sessions : <<"trig">> # <<"ws", s>> /\ <<"trig">> # <<"meta", s>>
    /\ \A c \in Campaigns, i \in 1..MaxVars : <<"trig">> # <<"rec", c, i>>
    /\ \A c, d \in Campaigns, i, j \in 1..MaxVars :
          <<"rec", c, i>> = <<"rec", d, j>> => c = d /\ i = j
<1>1. \A s \in Sessions : <<"ws", s>> \in Ticket /\ <<"meta", s>> \in Ticket
  BY DEF Ticket
<1>2. \A c \in Campaigns, i \in 1..MaxVars : <<"rec", c, i>> \in Ticket
  BY DEF Ticket
<1>3. <<"trig">> \in Ticket
  BY DEF Ticket
<1>4. QED
  BY <1>1, <1>2, <1>3

LEMMA InitIInv == Init => IInv
<1> SUFFICES ASSUME Init PROVE IInv
  OBVIOUS
<1> USE SubscriptionsAssumption DEF Init, Addr
<1>1. PICK a \in Addr \cup {None} :
         /\ held = [b \in Addr |-> IF b = a THEN {<<"trig">>} ELSE {}]
         /\ refs = [b \in Addr |-> IF b = a THEN 1 ELSE 0]
  OBVIOUS
<1>2. TypeOK
  BY <1>1 DEF TypeOK, Ticket, RecIdle, TrigIdle
<1>3. FiniteTickets
  BY <1>1, FS_EmptySet, FS_Singleton DEF FiniteTickets
<1>4. RefsMatchHolders
  <2>1. ASSUME NEW b \in Inner
        PROVE  refs[b] = Cardinality(held[b]) + leaked[b]
    <3>1. Cardinality({}) = 0 /\ Cardinality({<<"trig">>}) = 1
      BY FS_EmptySet, FS_Singleton
    <3>2. CASE b = a
      BY <1>1, <3>1, <3>2
    <3>3. CASE b # a
      BY <1>1, <3>1, <3>3
    <3>4. QED
      BY <3>2, <3>3
  <2>2. QED
    BY <2>1 DEF RefsMatchHolders
<1>5. \A b \in Addr : \A t \in held[b] : t = <<"trig">> /\ b = a
  BY <1>1
<1>6. OnlyLiveHolders
  BY <1>5, TicketKinds DEF OnlyLiveHolders, LiveSessions, LiveCampaigns
<1>7. NotedOnce
  BY <1>5, TicketKinds DEF NotedOnce, RecIdle, TrigIdle
<1>8. QED
  BY <1>2, <1>3, <1>4, <1>6, <1>7 DEF IInv, MetaStaysValid

-----------------------------------------------------------------------------
\* A step that takes no ticket and touches neither recorder nor trigger keeps
\* what is said of their tickets, and that a reference is noted once.
LEMMA Shrink ==
    ASSUME IInv, NEW s \in Sessions,
           \A b \in Addr : held'[b] \subseteq held[b] \cup {<<"ws", s>>},
           UNCHANGED <<active, recOp, trigOp>>
    PROVE  LiveCampaigns' /\ NotedOnce'
<1>1. LiveCampaigns'
  BY TicketKinds DEF IInv, OnlyLiveHolders, LiveCampaigns
<1>2. /\ \A a \in Addr, z \in Sessions : <<"meta", z>> \in held'[a] => <<"meta", z>> \in held[a]
      /\ \A a \in Addr : <<"trig">> \in held'[a] => <<"trig">> \in held[a]
      /\ \A c \in Campaigns, i \in 1..MaxVars, a \in Addr :
            <<"rec", c, i>> \in held'[a] => <<"rec", c, i>> \in held[a]
  BY TicketKinds
<1>3. recOp.op = "taking" => recOp.c \in Campaigns
  BY DEF IInv, TypeOK
<1>4. QED
  BY <1>1, <1>2, <1>3 DEF IInv, NotedOnce

\* A release keeps the whole invariant, whoever the holder is.
LEMMA ReleaseStep ==
    ASSUME IInv, NEW a \in Addr, NEW t \in held[a], Unsubscribe(a, t),
           UNCHANGED <<conn, active, recOp>>,
           trigOp' = trigOp \/ \A b \in Addr : <<"trig">> \notin held'[b],
           trigOp' \in [op : {"idle", "taking"}, addr : Addr \cup {None}],
           trigOp'.op = "taking" => trigOp'.addr \in Addr
    PROVE  IInv'
<1>1. /\ TypeOK /\ FiniteTickets /\ RefsMatchHolders /\ MetaStaysValid
      /\ LiveSessions /\ LiveCampaigns /\ NotedOnce
      /\ \A z \in dangling : conn[z] = "meta"
  BY DEF IInv, OnlyLiveHolders
<1>2. /\ held' = [held EXCEPT ![a] = @ \ {t}] /\ refs' = Released(a)
      /\ dangling' = DanglingAfter(a, [held EXCEPT ![a] = @ \ {t}])
      /\ UNCHANGED <<netConf, leaked>>
  BY DEF Unsubscribe
<1>3. /\ refs' \in [Addr -> Nat] /\ held' \in [Addr -> SUBSET Ticket]
      /\ FiniteTickets' /\ RefsMatchHolders'
  BY <1>1, <1>2, ReleaseCounts
<1>4. dangling' = dangling
  BY <1>1, <1>2, ReleaseSpares
<1>5. \A b \in Addr : held'[b] \subseteq held[b]
  BY <1>1, <1>2 DEF TypeOK
<1>6. TypeOK'
  BY <1>1, <1>2, <1>3, <1>4 DEF TypeOK
<1>7. MetaStaysValid'
  BY <1>1, <1>4, <1>5 DEF MetaStaysValid, Addr
<1>8. LiveSessions' /\ LiveCampaigns'
  BY <1>1, <1>5 DEF LiveSessions, LiveCampaigns
<1>9. NotedOnce'
  BY <1>1, <1>5 DEF NotedOnce
<1>10. QED
  BY <1>1, <1>3, <1>4, <1>6, <1>7, <1>8, <1>9 DEF IInv, OnlyLiveHolders

-----------------------------------------------------------------------------
\* The sessions.
LEMMA SessionStep ==
    ASSUME IInv, NEW s \in Sessions, SessionNext(s)
    PROVE  IInv'
<1>0. /\ TypeOK /\ FiniteTickets /\ RefsMatchHolders /\ MetaStaysValid
      /\ LiveSessions /\ LiveCampaigns /\ NotedOnce
      /\ \A z \in dangling : conn[z] = "meta"
  BY DEF IInv, OnlyLiveHolders
<1>t. dangling \subseteq Sessions /\ conn \in [Sessions -> {"off", "open", "meta", "closing"}]
  BY <1>0 DEF TypeOK
<1>1. CASE WsConnect(s) \/ WsDrop(s) \/ WsGone(s)
  <2>1. /\ UNCHANGED <<refs, netConf, held, leaked, dangling, active, recOp, trigOp>>
        /\ conn[s] # "meta"
        /\ \/ conn' = [conn EXCEPT ![s] = "open"]
           \/ conn' = [conn EXCEPT ![s] = "closing"]
           \/ /\ conn' = [conn EXCEPT ![s] = "off"]
              /\ \A a \in Addr : <<"ws", s>> \notin held[a]
    BY <1>1 DEF WsConnect, WsDrop, WsGone, srcVars
  <2>2. TypeOK' /\ FiniteTickets' /\ RefsMatchHolders' /\ MetaStaysValid'
    BY <1>0, <2>1 DEF TypeOK, FiniteTickets, RefsMatchHolders, MetaStaysValid
  <2>3. LiveSessions'
    BY <1>0, <1>t, <2>1 DEF LiveSessions
  <2>4. LiveCampaigns' /\ NotedOnce'
    BY <1>0, <2>1 DEF LiveCampaigns, NotedOnce
  <2>5. \A z \in dangling' : conn'[z] = "meta"
    BY <1>0, <1>t, <2>1
  <2>6. QED
    BY <2>2, <2>3, <2>4, <2>5 DEF IInv, OnlyLiveHolders
<1>2. ASSUME NEW a \in Addr, WsSub(s, a)
      PROVE  IInv'
  <2>1. <<"meta", s>> \in Ticket /\ <<"meta", s>> \notin held[a] /\ conn[s] = "open"
    BY <1>0, <1>2, TicketKinds DEF WsSub, LiveSessions
  <2>2. \A z \in dangling : <<"meta", s>> # <<"meta", z>>
    BY <1>0, <1>t, <2>1, TicketKinds
  <2>3. Subscribe(a, <<"meta", s>>)
    BY <1>2 DEF WsSub
  <2>4. /\ refs' \in [Addr -> Nat] /\ held' \in [Addr -> SUBSET Ticket]
        /\ FiniteTickets' /\ RefsMatchHolders' /\ MetaStaysValid'
    BY <1>0, <2>1, <2>2, <2>3, SubscribeCounts
  <2>5. \A b \in Addr : held'[b] = IF b = a THEN held[b] \cup {<<"meta", s>>} ELSE held[b]
    BY <1>0, <2>3 DEF Subscribe, TypeOK
  <2>6. /\ UNCHANGED <<netConf, leaked, dangling, active, recOp, trigOp>>
        /\ conn' = [conn EXCEPT ![s] = "meta"]
    BY <1>2, <2>3 DEF WsSub, Subscribe
  <2>7. TypeOK'
    BY <1>0, <2>4, <2>6 DEF TypeOK
  <2>8. LiveSessions'
    <3>1. ASSUME NEW z \in Sessions, NEW b \in Addr
          PROVE  /\ <<"ws", z>> \in held'[b] => conn'[z] # "off"
                 /\ <<"meta", z>> \in held'[b] => conn'[z] = "meta"
      <4>1. CASE z = s
        BY <1>t, <2>6, <4>1
      <4>2. CASE z # s
        <5>1. conn'[z] = conn[z]
          BY <1>t, <2>6, <4>2
        <5>2. <<"ws", z>> # <<"meta", s>> /\ <<"meta", z>> # <<"meta", s>>
          BY <4>2
        <5>3. QED
          BY <1>0, <2>5, <5>1, <5>2 DEF LiveSessions
      <4>3. QED
        BY <4>1, <4>2
    <3>2. QED
      BY <3>1 DEF LiveSessions
  <2>r. \A b \in Addr, c \in Campaigns, i \in 1..MaxVars :
           <<"rec", c, i>> \in held'[b] <=> <<"rec", c, i>> \in held[b]
    <3>1. ASSUME NEW b \in Addr, NEW c \in Campaigns, NEW i \in 1..MaxVars
          PROVE  <<"rec", c, i>> \in held'[b] <=> <<"rec", c, i>> \in held[b]
      <4>1. <<"rec", c, i>> # <<"meta", s>>
        OBVIOUS
      <4>2. QED
        BY <2>5, <4>1
    <3>2. QED
      BY <3>1
  <2>9. LiveCampaigns'
    BY <1>0, <2>6, <2>r DEF LiveCampaigns
  <2>10. \A b \in Addr : <<"meta", s>> \notin held[b]
    BY <1>0, <2>1 DEF LiveSessions
  <2>11. NotedOnce'
    <3>1. recOp.op = "taking" => recOp.c \in Campaigns
      BY <1>0 DEF TypeOK
    <3>2. \A b \in Addr : <<"trig">> \in held'[b] <=> <<"trig">> \in held[b]
      BY <2>5, TicketKinds
    <3>3. ASSUME NEW b \in Addr, NEW d \in Addr, NEW z \in Sessions,
                 <<"meta", z>> \in held'[b] \cap held'[d]
          PROVE  b = d
      <4>1. CASE z = s
        BY <2>5, <2>10, <3>3, <4>1
      <4>2. CASE z # s
        <5>1. <<"meta", z>> # <<"meta", s>>
          BY <4>2, TicketKinds, Zenon
        <5>2. <<"meta", z>> \in held[b] \cap held[d]
          <6> DEFINE m == <<"meta", z>>
                     k == <<"meta", s>>
          <6>1. /\ m # k /\ m \in held'[b] /\ m \in held'[d]
                /\ \A e \in Addr : held'[e] = IF e = a THEN held[e] \cup {k} ELSE held[e]
            BY <2>5, <3>3, <5>1
          <6> HIDE DEF m, k
          <6>2. ASSUME NEW e \in Addr, m \in held'[e] PROVE m \in held[e]
            BY <6>1, <6>2
          <6>3. m \in held[b] \cap held[d]
            BY <6>1, <6>2
          <6>4. QED
            BY <6>3 DEF m
        <5>3. NotedOnce
          BY <1>0
        <5>4. QED
          BY <5>2, <5>3, Zenon DEF NotedOnce
      <4>3. QED
        BY <4>1, <4>2
    <3>4. QED
      BY <1>0, <2>6, <2>r, <3>1, <3>2, <3>3 DEF NotedOnce
  <2>12. \A z \in dangling' : conn'[z] = "meta"
    BY <1>0, <1>t, <2>6
  <2>13. QED
    BY <2>4, <2>7, <2>8, <2>9, <2>11, <2>12 DEF IInv, OnlyLiveHolders
<1>3. ASSUME NEW a \in Addr, WsFile(s, a)
      PROVE  IInv'
  <2>1. /\ <<"meta", s>> \in held[a] /\ <<"ws", s>> \notin held[a] /\ conn[s] = "meta"
        /\ <<"ws", s>> \in Ticket /\ <<"ws", s>> # <<"meta", s>>
    BY <1>3, TicketKinds DEF WsFile
  <2>2. /\ held' = [held EXCEPT ![a] = (@ \ {<<"meta", s>>}) \cup {<<"ws", s>>}]
        /\ UNCHANGED <<refs, netConf, leaked, active, recOp, trigOp>>
        /\ dangling' = dangling \ {s}
        /\ conn' = [conn EXCEPT ![s] = "open"]
    BY <1>3 DEF WsFile
  <2>3. \A b \in Addr : held'[b] = IF b = a THEN (held[b] \ {<<"meta", s>>}) \cup {<<"ws", s>>}
                                            ELSE held[b]
    BY <1>0, <2>2 DEF TypeOK
  <2>4. IsFiniteSet(held'[a]) /\ Cardinality(held'[a]) = Cardinality(held[a])
    <3>1. IsFiniteSet(held[a])
      BY <1>0 DEF FiniteTickets
    <3>2. /\ IsFiniteSet(held[a] \ {<<"meta", s>>})
          /\ Cardinality(held[a] \ {<<"meta", s>>}) = Cardinality(held[a]) - 1
          /\ Cardinality(held[a]) \in Nat
      BY <2>1, <3>1, OneLess
    <3>3. <<"ws", s>> \notin held[a] \ {<<"meta", s>>}
      BY <2>1
    <3>4. /\ IsFiniteSet((held[a] \ {<<"meta", s>>}) \cup {<<"ws", s>>})
          /\ Cardinality((held[a] \ {<<"meta", s>>}) \cup {<<"ws", s>>})
                = Cardinality(held[a] \ {<<"meta", s>>}) + 1
      BY <3>2, <3>3, OneMore
    <3>5. held'[a] = (held[a] \ {<<"meta", s>>}) \cup {<<"ws", s>>}
      BY <2>3
    <3>6. QED
      BY <3>2, <3>4, <3>5
  <2>5. FiniteTickets' /\ RefsMatchHolders'
    BY <1>0, <2>2, <2>3, <2>4 DEF FiniteTickets, RefsMatchHolders, Addr
  <2>6. TypeOK'
    BY <1>0, <2>1, <2>2 DEF TypeOK
  <2>7. MetaStaysValid' /\ \A z \in dangling' : conn'[z] = "meta"
    <3>1. \A b \in Addr, z \in dangling' : <<"meta", z>> \in held'[b] => <<"meta", z>> \in held[b]
      BY <1>t, <2>2, <2>3, TicketKinds
    <3>2. QED
      BY <1>0, <1>t, <2>2, <3>1 DEF MetaStaysValid, Addr
  <2>8. LiveSessions'
    <3>1. ASSUME NEW z \in Sessions, NEW b \in Addr
          PROVE  /\ <<"ws", z>> \in held'[b] => conn'[z] # "off"
                 /\ <<"meta", z>> \in held'[b] => conn'[z] = "meta"
      <4>1. CASE z = s
        <5>1. conn'[s] = "open"
          BY <1>t, <2>2
        <5>2. <<"meta", s>> \in held[b] => b = a
          BY <1>0, <2>1 DEF NotedOnce
        <5>3. <<"meta", s>> \notin held'[b]
          BY <2>1, <2>3, <5>2
        <5>4. QED
          BY <4>1, <5>1, <5>3
      <4>2. CASE z # s
        <5>1. conn'[z] = conn[z]
          BY <1>t, <2>2, <4>2
        <5>2. /\ <<"ws", z>> \in held'[b] => <<"ws", z>> \in held[b]
              /\ <<"meta", z>> \in held'[b] => <<"meta", z>> \in held[b]
          BY <2>3, <4>2, TicketKinds
        <5>3. QED
          BY <1>0, <5>1, <5>2 DEF LiveSessions
      <4>3. QED
        BY <4>1, <4>2
    <3>2. QED
      BY <3>1 DEF LiveSessions
  <2>9. LiveCampaigns' /\ NotedOnce'
    <3>1. \A b \in Addr : held'[b] \subseteq held[b] \cup {<<"ws", s>>}
      BY <2>3
    <3>2. UNCHANGED <<active, recOp, trigOp>>
      BY <2>2
    <3>3. QED
      BY <3>1, <3>2, Shrink
  <2>10. QED
    BY <2>5, <2>6, <2>7, <2>8, <2>9 DEF IInv, OnlyLiveHolders
\* The metadata leave a: sent twice, not sent, or garbage.
<1>4. ASSUME NEW a \in Addr,
             WsRepeat(s, a) \/ WsMetaFailed(s, a) \/ WsMetaGarbage(s, a)
      PROVE  IInv'
  <2>1. /\ <<"meta", s>> \in held[a]
        /\ UNCHANGED <<netConf, active, recOp, trigOp>>
        /\ held' = [held EXCEPT ![a] = @ \ {<<"meta", s>>}]
        /\ conn' = [conn EXCEPT ![s] = "open"] \/ conn' = [conn EXCEPT ![s] = "closing"]
    BY <1>4 DEF WsRepeat, WsMetaFailed, WsMetaGarbage
  <2>2. \A b \in Addr : held'[b] = IF b = a THEN held[b] \ {<<"meta", s>>} ELSE held[b]
    BY <1>0, <2>1 DEF TypeOK
  <2>3. /\ IsFiniteSet(held'[a]) /\ Cardinality(held'[a]) = Cardinality(held[a]) - 1
        /\ Cardinality(held[a]) \in Nat
    <3>1. IsFiniteSet(held[a])
      BY <1>0 DEF FiniteTickets
    <3>2. /\ IsFiniteSet(held[a] \ {<<"meta", s>>}) /\ Cardinality(held[a]) \in Nat
          /\ Cardinality(held[a] \ {<<"meta", s>>}) = Cardinality(held[a]) - 1
      BY <2>1, <3>1, OneLess
    <3>3. QED
      BY <2>2, <3>2
  <2>4. FiniteTickets' /\ held' \in [Addr -> SUBSET Ticket]
    BY <1>0, <2>1, <2>2, <2>3 DEF FiniteTickets, TypeOK
  <2>5. /\ RefsMatchHolders' /\ dangling' = dangling \ {s}
        /\ refs' \in [Addr -> Nat] /\ leaked' \in [Addr -> Nat]
    <3>1. CASE WsRepeat(s, a)
      <4>1. /\ refs' = Released(a) /\ leaked' = leaked
            /\ dangling' = DanglingAfter(a, [held EXCEPT ![a] = @ \ {<<"meta", s>>}]) \ {s}
        BY <3>1 DEF WsRepeat
      <4>2. RefsMatchHolders' /\ refs' \in [Addr -> Nat]
        BY <1>0, <2>1, <4>1, ReleaseCounts
      <4>3. DanglingAfter(a, [held EXCEPT ![a] = @ \ {<<"meta", s>>}]) = dangling
        BY <1>0, <2>1, <4>1, ReleaseSpares
      <4>4. QED
        BY <1>0, <4>1, <4>2, <4>3 DEF TypeOK
    <3>2. CASE WsMetaFailed(s, a)
      <4>1. /\ refs' = refs /\ leaked' = [leaked EXCEPT ![a] = @ + 1]
            /\ dangling' = dangling \ {s}
        BY <3>2 DEF WsMetaFailed
      <4>2. ASSUME NEW b \in Inner
            PROVE  refs'[b] = Cardinality(held'[b]) + leaked'[b]
        <5>1. CASE b = a
          <6>1. leaked[a] \in Nat /\ leaked'[a] = leaked[a] + 1
            BY <1>0, <4>1 DEF TypeOK
          <6>2. refs[a] = Cardinality(held[a]) + leaked[a]
            BY <1>0, <5>1 DEF RefsMatchHolders
          <6>3. QED
            BY <2>3, <4>1, <5>1, <6>1, <6>2
        <5>2. CASE b # a
          <6>1. leaked'[b] = leaked[b] /\ held'[b] = held[b]
            BY <1>0, <2>2, <4>1, <5>2 DEF TypeOK, Addr
          <6>2. QED
            BY <1>0, <4>1, <6>1 DEF RefsMatchHolders
        <5>3. QED
          BY <5>1, <5>2
      <4>3. QED
        BY <1>0, <4>1, <4>2 DEF RefsMatchHolders, TypeOK
    <3>3. CASE WsMetaGarbage(s, a)
      <4>1. refs' = refs /\ leaked' = leaked /\ dangling' = dangling \ {s} /\ s \in dangling
        BY <3>3 DEF WsMetaGarbage
      <4>2. a \notin Inner
        BY <1>0, <2>1, <4>1 DEF MetaStaysValid
      <4>3. \A b \in Inner : held'[b] = held[b]
        BY <2>2, <4>2 DEF Addr
      <4>4. QED
        BY <1>0, <4>1, <4>3 DEF RefsMatchHolders, TypeOK
    <3>4. QED
      BY <1>4, <3>1, <3>2, <3>3
  <2>6. TypeOK'
    BY <1>0, <2>1, <2>4, <2>5 DEF TypeOK
  <2>7. MetaStaysValid' /\ \A z \in dangling' : conn'[z] = "meta"
    <3>1. \A b \in Inner : held'[b] \subseteq held[b]
      BY <2>2 DEF Addr
    <3>2. MetaStaysValid'
      BY <1>0, <2>5, <3>1 DEF MetaStaysValid
    <3>3. \A z \in dangling' : conn'[z] = conn[z]
      BY <1>t, <2>1, <2>5
    <3>4. QED
      BY <1>0, <2>5, <3>2, <3>3
  <2>8. LiveSessions'
    <3>1. ASSUME NEW z \in Sessions, NEW b \in Addr
          PROVE  /\ <<"ws", z>> \in held'[b] => conn'[z] # "off"
                 /\ <<"meta", z>> \in held'[b] => conn'[z] = "meta"
      <4>1. CASE z = s
        <5>1. conn'[s] # "off"
          BY <1>t, <2>1
        <5>2. <<"meta", s>> \in held[b] => b = a
          BY <1>0, <2>1 DEF NotedOnce
        <5>3. <<"meta", s>> \notin held'[b]
          BY <2>2, <5>2
        <5>4. QED
          BY <4>1, <5>1, <5>3
      <4>2. CASE z # s
        <5>1. conn'[z] = conn[z] /\ held'[b] \subseteq held[b]
          BY <1>t, <2>1, <2>2, <4>2
        <5>2. QED
          BY <1>0, <5>1 DEF LiveSessions
      <4>3. QED
        BY <4>1, <4>2
    <3>2. QED
      BY <3>1 DEF LiveSessions
  <2>9. LiveCampaigns' /\ NotedOnce'
    <3>1. \A b \in Addr : held'[b] \subseteq held[b] \cup {<<"ws", s>>}
      BY <2>2
    <3>2. UNCHANGED <<active, recOp, trigOp>>
      BY <2>1
    <3>3. QED
      BY <3>1, <3>2, Shrink
  <2>10. QED
    BY <2>4, <2>5, <2>6, <2>7, <2>8, <2>9 DEF IInv, OnlyLiveHolders
<1>5. ASSUME NEW a \in Addr, WsUnsub(s, a) \/ WsRelease(s, a)
      PROVE  IInv'
  <2>1. /\ <<"ws", s>> \in held[a] /\ Unsubscribe(a, <<"ws", s>>)
        /\ UNCHANGED <<conn, active, recOp, trigOp>>
    BY <1>5 DEF WsUnsub, WsRelease
  <2>2. QED
    BY <1>0, <2>1, ReleaseStep DEF TypeOK
<1>6. QED
  BY <1>1, <1>2, <1>3, <1>4, <1>5 DEF SessionNext

-----------------------------------------------------------------------------
\* Steps that call no source keep what is said of the source and the sessions.
LEMMA QuietStep ==
    ASSUME IInv, UNCHANGED <<refs, netConf, held, leaked, dangling, conn>>,
           active' \in SUBSET Campaigns,
           recOp' \in [op : {"idle", "stopping", "taking", "undoing"},
                       c : Campaigns \cup {None}, todo : Seq(Addr)],
           Len(recOp'.todo) <= MaxVars,
           recOp'.op # "idle" => recOp'.c \in Campaigns,
           trigOp' \in [op : {"idle", "taking"}, addr : Addr \cup {None}],
           trigOp'.op = "taking" => trigOp'.addr \in Addr,
           LiveCampaigns', NotedOnce'
    PROVE  IInv'
<1>1. TypeOK'
  BY DEF IInv, TypeOK
<1>2. FiniteTickets' /\ RefsMatchHolders' /\ MetaStaysValid' /\ LiveSessions'
  BY DEF IInv, FiniteTickets, RefsMatchHolders, MetaStaysValid, OnlyLiveHolders, LiveSessions
<1>3. \A z \in dangling' : conn'[z] = "meta"
  BY DEF IInv
<1>4. QED
  BY <1>1, <1>2, <1>3 DEF IInv, OnlyLiveHolders

\* A reference taken by a campaign or by the trigger.
LEMMA TakeStep ==
    ASSUME IInv, NEW a \in Addr, NEW t \in Ticket, t \notin held[a],
           Subscribe(a, t),
           \A s \in Sessions : t # <<"ws", s>> /\ t # <<"meta", s>>,
           UNCHANGED <<conn, active>>,
           recOp' \in [op : {"idle", "stopping", "taking", "undoing"},
                       c : Campaigns \cup {None}, todo : Seq(Addr)],
           Len(recOp'.todo) <= MaxVars,
           recOp'.op # "idle" => recOp'.c \in Campaigns,
           trigOp' \in [op : {"idle", "taking"}, addr : Addr \cup {None}],
           trigOp'.op = "taking" => trigOp'.addr \in Addr,
           LiveCampaigns', NotedOnce'
    PROVE  IInv'
<1>1. /\ TypeOK /\ FiniteTickets /\ RefsMatchHolders /\ MetaStaysValid /\ LiveSessions
      /\ \A z \in dangling : conn[z] = "meta"
      /\ dangling \subseteq Sessions
  BY DEF IInv, OnlyLiveHolders, TypeOK
<1>2. /\ refs' \in [Addr -> Nat] /\ held' \in [Addr -> SUBSET Ticket]
      /\ FiniteTickets' /\ RefsMatchHolders' /\ MetaStaysValid'
  BY <1>1, SubscribeCounts
<1>3. UNCHANGED <<netConf, leaked, dangling>>
  BY DEF Subscribe
<1>4. TypeOK'
  BY <1>1, <1>2, <1>3 DEF TypeOK
<1>5. \A b \in Addr : held'[b] \subseteq held[b] \cup {t}
  BY <1>1 DEF Subscribe, TypeOK
<1>6. LiveSessions'
  BY <1>1, <1>5 DEF LiveSessions
<1>7. QED
  BY <1>1, <1>2, <1>3, <1>4, <1>6 DEF IInv, OnlyLiveHolders

-----------------------------------------------------------------------------
\* The recorder.
LEMMA RecorderStep ==
    ASSUME IInv, RecorderNext
    PROVE  IInv'
<1>0. TypeOK /\ LiveCampaigns /\ NotedOnce
  BY DEF IInv, OnlyLiveHolders
<1>t. /\ recOp \in [op : {"idle", "stopping", "taking", "undoing"},
                    c : Campaigns \cup {None}, todo : Seq(Addr)]
      /\ Len(recOp.todo) <= MaxVars /\ Len(recOp.todo) \in Nat
      /\ recOp.op # "idle" => recOp.c \in Campaigns
      /\ active \in SUBSET Campaigns
      /\ trigOp \in [op : {"idle", "taking"}, addr : Addr \cup {None}]
      /\ trigOp.op = "taking" => trigOp.addr \in Addr
      /\ RecIdle \in [op : {"idle", "stopping", "taking", "undoing"},
                      c : Campaigns \cup {None}, todo : Seq(Addr)]
      /\ RecIdle.op = "idle" /\ RecIdle.todo = << >> /\ Len(RecIdle.todo) = 0
      /\ MaxVars \in Nat
  BY <1>0, SubscriptionsAssumption DEF TypeOK, RecIdle
<1>1. ASSUME NEW c \in Campaigns, NEW request \in Requests, RecBegin(c, request)
      PROVE  IInv'
  <2>1. /\ recOp.op = "idle"
        /\ recOp' = [op |-> "stopping", c |-> c, todo |-> request]
        /\ UNCHANGED <<refs, netConf, held, leaked, dangling, conn, active, trigOp>>
    BY <1>1, <1>t DEF RecBegin, srcVars
  <2>2. LiveCampaigns' /\ NotedOnce'
    BY <1>0, <2>1 DEF LiveCampaigns, NotedOnce
  <2>3. request \in Seq(Addr) /\ Len(request) <= MaxVars
    BY RequestType
  <2>4. QED
    BY <1>t, <2>1, <2>2, <2>3, QuietStep
<1>2. ASSUME NEW a \in Addr, NEW i \in 1..MaxVars, RecRelease(a, i)
      PROVE  IInv'
  <2>1. /\ <<"rec", recOp.c, i>> \in held[a] /\ Unsubscribe(a, <<"rec", recOp.c, i>>)
        /\ UNCHANGED <<conn, active, recOp, trigOp>>
    BY <1>2 DEF RecRelease
  <2>2. QED
    BY <1>t, <2>1, ReleaseStep
<1>3. CASE RecErased
  <2>1. /\ recOp.op = "stopping" /\ NoEntry(recOp.c) /\ active' = active \ {recOp.c}
        /\ recOp' = IF recOp.todo = << >> THEN RecIdle ELSE [recOp EXCEPT !.op = "taking"]
        /\ UNCHANGED <<refs, netConf, held, leaked, dangling, conn, trigOp>>
    BY <1>3 DEF RecErased, srcVars
  <2>2. /\ recOp' \in [op : {"idle", "stopping", "taking", "undoing"},
                       c : Campaigns \cup {None}, todo : Seq(Addr)]
        /\ Len(recOp'.todo) <= MaxVars
        /\ recOp'.op # "idle" => recOp'.c = recOp.c
    BY <1>t, <2>1
  <2>3. LiveCampaigns'
    BY <1>0, <1>t, <2>1, <2>2 DEF LiveCampaigns, NoEntry
  <2>4. NotedOnce'
    BY <1>0, <1>t, <2>1, <2>2 DEF NotedOnce, NoEntry
  <2>5. QED
    BY <1>t, <2>1, <2>2, <2>3, <2>4, QuietStep
<1>4. CASE RecTake
  <2>1. /\ recOp.op = "taking" /\ recOp.todo # << >>
        /\ recOp' = [recOp EXCEPT !.todo = Tail(@)]
        /\ UNCHANGED <<conn, active, trigOp>>
    BY <1>4 DEF RecTake
  <2>2. /\ Head(recOp.todo) \in Addr /\ Len(recOp.todo) \in 1..MaxVars
        /\ Tail(recOp.todo) \in Seq(Addr) /\ Len(Tail(recOp.todo)) = Len(recOp.todo) - 1
    BY <1>t, <2>1
  <2>3. /\ recOp' \in [op : {"idle", "stopping", "taking", "undoing"},
                       c : Campaigns \cup {None}, todo : Seq(Addr)]
        /\ recOp'.todo = Tail(recOp.todo) /\ recOp'.op = "taking" /\ recOp'.c = recOp.c
        /\ Len(recOp'.todo) = Len(recOp.todo) - 1
        /\ Len(recOp'.todo) <= MaxVars /\ recOp.c \in Campaigns
    <3>1. /\ recOp' = [op |-> recOp.op, c |-> recOp.c, todo |-> Tail(recOp.todo)]
          /\ recOp.c \in Campaigns
      BY <1>t, <2>1
    <3>2. Len(Tail(recOp.todo)) <= MaxVars
      BY <1>t, <2>2
    <3>3. QED
      BY <1>t, <2>1, <2>2, <3>1, <3>2
  <2>4. CASE Subscribable(Head(recOp.todo))
    <3> DEFINE a == Head(recOp.todo)
               n == Len(recOp.todo)
               t == <<"rec", recOp.c, n>>
    <3>1. Subscribe(a, t)
      BY <1>4, <2>4 DEF RecTake
    <3>2. /\ t \in Ticket
          /\ \A s \in Sessions : t # <<"ws", s>> /\ t # <<"meta", s>>
          /\ t # <<"trig">>
      BY <2>2, <2>3, TicketKinds
    <3>3. t \notin held[a]
      BY <1>0, <2>1, <2>2 DEF NotedOnce
    <3>4. \A b \in Addr : held'[b] = IF b = a THEN held[b] \cup {t} ELSE held[b]
      BY <1>0, <3>1 DEF Subscribe, TypeOK
    <3>5. \A d \in Campaigns, i \in 1..MaxVars : <<"rec", d, i>> = t => d = recOp.c /\ i = n
      OBVIOUS
    <3> HIDE DEF t, n, a
    <3>6. LiveCampaigns'
      <4>1. ASSUME NEW d \in Campaigns, NEW i \in 1..MaxVars, NEW b \in Addr,
                   <<"rec", d, i>> \in held'[b]
            PROVE  d \in active' \/ (recOp'.op \in {"taking", "undoing"} /\ recOp'.c = d)
        <5>1. CASE <<"rec", d, i>> = t
          <6>1. d = recOp.c
            BY <3>5, <5>1
          <6>2. QED
            BY <2>3, <6>1
        <5>2. CASE <<"rec", d, i>> # t
          <6>1. <<"rec", d, i>> \in held[b]
            BY <3>4, <4>1, <5>2
          <6>2. QED
            BY <1>0, <2>1, <2>3, <6>1 DEF LiveCampaigns
        <5>3. QED
          BY <5>1, <5>2
      <4>2. QED
        BY <4>1 DEF LiveCampaigns
    <3>7. NotedOnce'
      <4>1. \A b \in Addr : <<"trig">> \in held'[b] => <<"trig">> \in held[b]
        BY <3>2, <3>4
      <4>2. \A b \in Addr, s \in Sessions : <<"meta", s>> \in held'[b] => <<"meta", s>> \in held[b]
        BY <3>2, <3>4
      <4>3. ASSUME NEW b \in Addr, NEW i \in 1..MaxVars, <<"rec", recOp.c, i>> \in held'[b]
            PROVE  i > Len(recOp'.todo)
        <5>1. CASE <<"rec", recOp.c, i>> = t
          BY <2>2, <2>3, <3>5, <5>1 DEF n
        <5>2. CASE <<"rec", recOp.c, i>> # t
          <6>1. <<"rec", recOp.c, i>> \in held[b]
            BY <3>4, <4>3, <5>2
          <6>2. i > Len(recOp.todo)
            BY <1>0, <2>1, <6>1 DEF NotedOnce
          <6>3. QED
            BY <2>2, <2>3, <6>2
        <5>3. QED
          BY <5>1, <5>2
      <4>4. QED
        BY <1>0, <2>1, <2>3, <4>1, <4>2, <4>3 DEF NotedOnce
    <3>8. a \in Addr
      BY <2>2 DEF a
    <3>9. QED
      BY <1>t, <2>1, <2>3, <3>1, <3>2, <3>3, <3>6, <3>7, <3>8, TakeStep
  <2>5. CASE ~ Subscribable(Head(recOp.todo))
    <3>1. UNCHANGED <<refs, netConf, held, leaked, dangling>>
      BY <1>4, <2>5 DEF RecTake, srcVars
    <3>2. LiveCampaigns'
      BY <1>0, <2>1, <2>3, <3>1 DEF LiveCampaigns
    <3>3. NotedOnce'
      BY <1>0, <1>t, <2>1, <2>2, <2>3, <3>1 DEF NotedOnce
    <3>4. QED
      BY <1>t, <2>1, <2>3, <3>1, <3>2, <3>3, QuietStep
  <2>6. QED
    BY <2>4, <2>5
\* The campaign is open, or nothing of it is left, or its file will not open.
<1>5. CASE RecNothing \/ RecUndone
  <2>1. /\ NoEntry(recOp.c) /\ recOp' = RecIdle
        /\ UNCHANGED <<refs, netConf, held, leaked, dangling, conn, active, trigOp>>
    BY <1>5 DEF RecNothing, RecUndone, srcVars
  <2>2. LiveCampaigns' /\ NotedOnce'
    BY <1>0, <1>t, <2>1 DEF LiveCampaigns, NotedOnce, NoEntry
  <2>3. QED
    BY <1>t, <2>1, <2>2, QuietStep
<1>6. CASE RecOpened
  <2>1. /\ recOp.op = "taking" /\ active' = active \cup {recOp.c} /\ recOp' = RecIdle
        /\ UNCHANGED <<refs, netConf, held, leaked, dangling, conn, trigOp>>
    BY <1>6 DEF RecOpened, srcVars
  <2>2. LiveCampaigns' /\ NotedOnce'
    BY <1>0, <1>t, <2>1 DEF LiveCampaigns, NotedOnce
  <2>3. QED
    BY <1>t, <2>1, <2>2, QuietStep
<1>7. CASE RecOpenFailed
  <2>1. /\ recOp.op = "taking" /\ recOp' = [recOp EXCEPT !.op = "undoing"]
        /\ UNCHANGED <<refs, netConf, held, leaked, dangling, conn, active, trigOp>>
    BY <1>7 DEF RecOpenFailed, srcVars
  <2>2. /\ recOp' \in [op : {"idle", "stopping", "taking", "undoing"},
                       c : Campaigns \cup {None}, todo : Seq(Addr)]
        /\ recOp'.op = "undoing" /\ recOp'.c = recOp.c /\ recOp'.todo = recOp.todo
    BY <1>t, <2>1
  <2>3. LiveCampaigns' /\ NotedOnce'
    BY <1>0, <1>t, <2>1, <2>2 DEF LiveCampaigns, NotedOnce
  <2>4. QED
    BY <1>t, <2>1, <2>2, <2>3, QuietStep
<1>8. QED
  BY <1>1, <1>2, <1>3, <1>4, <1>5, <1>6, <1>7 DEF RecorderNext

-----------------------------------------------------------------------------
\* The trigger of the capture.
LEMMA TriggerStep ==
    ASSUME IInv, TriggerNext
    PROVE  IInv'
<1>0. TypeOK /\ LiveCampaigns /\ NotedOnce
  BY DEF IInv, OnlyLiveHolders
<1>t. /\ recOp \in [op : {"idle", "stopping", "taking", "undoing"},
                    c : Campaigns \cup {None}, todo : Seq(Addr)]
      /\ Len(recOp.todo) <= MaxVars
      /\ recOp.op # "idle" => recOp.c \in Campaigns
      /\ active \in SUBSET Campaigns
      /\ trigOp \in [op : {"idle", "taking"}, addr : Addr \cup {None}]
      /\ trigOp.op = "taking" => trigOp.addr \in Addr
      /\ TrigIdle \in [op : {"idle", "taking"}, addr : Addr \cup {None}]
      /\ TrigIdle.op = "idle"
  BY <1>0 DEF TypeOK, TrigIdle
<1>1. ASSUME NEW old \in Addr, NEW a \in Addr \cup {None}, TrigRelease(old, a)
      PROVE  IInv'
  <2>1. /\ <<"trig">> \in held[old] /\ Unsubscribe(old, <<"trig">>)
        /\ trigOp' = IF a = None THEN TrigIdle ELSE [op |-> "taking", addr |-> a]
        /\ UNCHANGED <<conn, active, recOp>>
    BY <1>1 DEF TrigRelease
  <2>2. \A b \in Addr : <<"trig">> \notin held'[b]
    BY <1>0, <2>1 DEF Unsubscribe, NotedOnce, TypeOK
  <2>3. trigOp' \in [op : {"idle", "taking"}, addr : Addr \cup {None}]
        /\ (trigOp'.op = "taking" => trigOp'.addr \in Addr)
    BY <1>t, <2>1
  <2>4. QED
    BY <2>1, <2>2, <2>3, ReleaseStep
<1>2. ASSUME NEW a \in Addr, TrigBegin(a)
      PROVE  IInv'
  <2>1. /\ \A b \in Addr : <<"trig">> \notin held[b]
        /\ trigOp' = [op |-> "taking", addr |-> a]
        /\ UNCHANGED <<refs, netConf, held, leaked, dangling, conn, active, recOp>>
    BY <1>2 DEF TrigBegin, srcVars
  <2>2. LiveCampaigns' /\ NotedOnce'
    BY <1>0, <2>1 DEF LiveCampaigns, NotedOnce
  <2>3. QED
    BY <1>t, <2>1, <2>2, QuietStep
<1>3. CASE TrigTake
  <2>1. trigOp.op = "taking" /\ trigOp' = TrigIdle /\ UNCHANGED <<conn, active, recOp>>
    BY <1>3 DEF TrigTake
  <2>2. \A b \in Addr : <<"trig">> \notin held[b]
    BY <1>0, <2>1 DEF NotedOnce
  <2>3. CASE Subscribable(trigOp.addr)
    <3> DEFINE a == trigOp.addr
    <3>1. Subscribe(a, <<"trig">>) /\ a \in Addr
      BY <1>3, <1>t, <2>1, <2>3 DEF TrigTake
    <3>2. \A b \in Addr : held'[b] = IF b = a THEN held[b] \cup {<<"trig">>} ELSE held[b]
      BY <1>0, <3>1 DEF Subscribe, TypeOK
    <3> HIDE DEF a
    <3>3. \A c \in Campaigns, i \in 1..MaxVars, b \in Addr :
             <<"rec", c, i>> \in held'[b] <=> <<"rec", c, i>> \in held[b]
      <4>1. ASSUME NEW c \in Campaigns, NEW i \in 1..MaxVars, NEW b \in Addr
            PROVE  <<"rec", c, i>> \in held'[b] <=> <<"rec", c, i>> \in held[b]
        <5>1. <<"rec", c, i>> # <<"trig">>
          BY TicketKinds
        <5>2. QED
          BY <3>2, <5>1
      <4>2. QED
        BY <4>1
    <3>4. \A s \in Sessions, b \in Addr : <<"meta", s>> \in held'[b] <=> <<"meta", s>> \in held[b]
      BY <3>2, TicketKinds
    <3>5. \A b \in Addr : <<"trig">> \in held'[b] => b = a
      BY <2>2, <3>2
    <3>6. LiveCampaigns'
      BY <1>0, <2>1, <3>3 DEF LiveCampaigns
    <3>7. NotedOnce'
      BY <1>0, <1>t, <2>1, <3>3, <3>4, <3>5 DEF NotedOnce
    <3>8. /\ <<"trig">> \in Ticket /\ <<"trig">> \notin held[a]
          /\ \A s \in Sessions : <<"trig">> # <<"ws", s>> /\ <<"trig">> # <<"meta", s>>
      BY <2>2, <3>1, TicketKinds
    <3>9. QED
      BY <1>t, <2>1, <3>1, <3>6, <3>7, <3>8, TakeStep
  <2>4. CASE ~ Subscribable(trigOp.addr)
    <3>1. UNCHANGED <<refs, netConf, held, leaked, dangling>>
      BY <1>3, <2>4 DEF TrigTake, srcVars
    <3>2. LiveCampaigns' /\ NotedOnce'
      BY <1>0, <1>t, <2>1, <3>1 DEF LiveCampaigns, NotedOnce
    <3>3. QED
      BY <1>t, <2>1, <3>1, <3>2, QuietStep
  <2>5. QED
    BY <2>3, <2>4
<1>4. QED
  BY <1>1, <1>2, <1>3 DEF TriggerNext

-----------------------------------------------------------------------------
\* A new network configuration leaves the controller's counts alone; the
\* sessions it leaves pointing nowhere asked for a network point.
LEMMA ApplyStep ==
    ASSUME IInv, NEW conf \in SUBSET Net, Apply(conf)
    PROVE  IInv'
<1>0. /\ TypeOK /\ FiniteTickets /\ RefsMatchHolders /\ MetaStaysValid
      /\ LiveSessions /\ LiveCampaigns /\ NotedOnce
      /\ \A z \in dangling : conn[z] = "meta"
  BY DEF IInv, OnlyLiveHolders
<1>1. /\ netConf' = conf /\ UNCHANGED <<held, conn, active, recOp, trigOp>>
      /\ refs' = [a \in Addr |-> IF a \in Net THEN 0 ELSE refs[a]]
      /\ leaked' = [a \in Addr |-> IF a \in Net THEN 0 ELSE leaked[a]]
      /\ dangling' = dangling \cup UNION {Pointing(a) : a \in Net}
  BY DEF Apply
<1>2. \A z \in dangling' :
         /\ z \in Sessions
         /\ z \in dangling \/ \E a \in Net : <<"meta", z>> \in held[a]
  BY <1>0, <1>1 DEF Pointing, TypeOK
<1>3. TypeOK'
  <2>1. refs' \in [Addr -> Nat] /\ leaked' \in [Addr -> Nat]
    BY <1>0, <1>1 DEF TypeOK
  <2>2. dangling' \in SUBSET Sessions
    BY <1>2
  <2>3. QED
    BY <1>0, <1>1, <2>1, <2>2 DEF TypeOK
<1>4. FiniteTickets' /\ LiveSessions' /\ LiveCampaigns' /\ NotedOnce'
  BY <1>0, <1>1 DEF FiniteTickets, LiveSessions, LiveCampaigns, NotedOnce
<1>5. RefsMatchHolders'
  <2>1. \A a \in Inner : refs'[a] = refs[a] /\ leaked'[a] = leaked[a] /\ held'[a] = held[a]
    BY <1>1, SubscriptionsAssumption DEF Addr
  <2>2. QED
    BY <1>0, <2>1 DEF RefsMatchHolders
<1>6. MetaStaysValid'
  <2>1. ASSUME NEW z \in dangling', NEW a \in Inner, <<"meta", z>> \in held[a]
        PROVE  FALSE
    <3>1. z \notin dangling
      BY <1>0, <2>1 DEF MetaStaysValid
    <3>2. PICK b \in Net : <<"meta", z>> \in held[b]
      BY <1>2, <3>1
    <3>3. a # b /\ a \in Addr /\ b \in Addr
      BY SubscriptionsAssumption DEF Addr
    <3>4. z \in Sessions
      BY <1>2
    <3>5. QED
      BY <1>0, <2>1, <3>2, <3>3, <3>4 DEF NotedOnce
  <2>2. QED
    BY <1>1, <2>1 DEF MetaStaysValid
<1>7. \A z \in dangling' : conn'[z] = "meta"
  BY <1>0, <1>1, <1>2 DEF LiveSessions, Addr
<1>8. QED
  BY <1>3, <1>4, <1>5, <1>6, <1>7 DEF IInv, OnlyLiveHolders

LEMMA StutterStep == ASSUME IInv, UNCHANGED vars PROVE IInv'
<1>1. UNCHANGED <<refs, netConf, held, leaked, dangling, conn, active, recOp, trigOp>>
  BY DEF vars
<1>2. LiveCampaigns' /\ NotedOnce'
  BY <1>1 DEF IInv, OnlyLiveHolders, LiveCampaigns, NotedOnce
<1>3. QED
  BY <1>1, <1>2, QuietStep DEF IInv, TypeOK

LEMMA NextIInv == IInv /\ [Next]_vars => IInv'
<1> SUFFICES ASSUME IInv, [Next]_vars PROVE IInv'
  OBVIOUS
<1>1. ASSUME NEW s \in Sessions, SessionNext(s) PROVE IInv'
  BY <1>1, SessionStep
<1>2. CASE RecorderNext
  BY <1>2, RecorderStep
<1>3. CASE TriggerNext
  BY <1>3, TriggerStep
<1>4. ASSUME NEW conf \in SUBSET Net, Apply(conf) PROVE IInv'
  BY <1>4, ApplyStep
<1>5. CASE UNCHANGED vars
  BY <1>5, StutterStep
<1>6. QED
  BY <1>1, <1>2, <1>3, <1>4, <1>5 DEF Next

-----------------------------------------------------------------------------
\* The inductive invariant holds of every behaviour of the sources and their
\* holders; the theorems below read their property off it.
THEOREM Inductive == Spec => []IInv
  BY InitIInv, NextIInv, PTL DEF Spec

\* The state of the sources and of their holders always has its type.
THEOREM TypeCorrect == Spec => []TypeOK
<1>1. IInv => TypeOK
  BY DEF IInv
<1>2. QED
  BY <1>1, Inductive, PTL

\* Channel::refs of a controller variable always counts its holders exactly,
\* plus the references that failed metadata sends dropped: no holder ever loses
\* the sampling it asked for because another one released.
THEOREM CountsExact == Spec => []RefsMatchHolders
<1>1. IInv => RefsMatchHolders
  BY DEF IInv
<1>2. QED
  BY <1>1, Inductive, PTL

\* The metadata pointer that subscribe() returns without the mutex stays valid
\* for a controller variable until the session has filed the address.
THEOREM MetadataSafe == Spec => []MetaStaysValid
<1>1. IInv => MetaStaysValid
  BY DEF IInv
<1>2. QED
  BY <1>1, Inductive, PTL

\* No reference is noted by a holder that is gone.
THEOREM HoldersLive == Spec => []OnlyLiveHolders
<1>1. IInv => OnlyLiveHolders
  BY DEF IInv
<1>2. QED
  BY <1>1, Inductive, PTL

\* No note of a reference is ever written over another one.
THEOREM NotesUnique == Spec => []NotedOnce
<1>1. IInv => NotedOnce
  BY DEF IInv
<1>2. QED
  BY <1>1, Inductive, PTL
=============================================================================
