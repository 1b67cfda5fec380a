--------------------------- MODULE Stream_proofs ---------------------------
(***************************************************************************)
(* The stream of a page, for any addresses, clocks, histories and lives of *)
(* the server: a confirmed write was done; curves are in order and whole;  *)
(* a server that has not restarted empties nothing; and the journal passes *)
(* over nothing that the page shows without a break.                       *)
(*                                                                         *)
(* Typed is the type of the state.  The invariants after it rest on it.    *)
(***************************************************************************)
EXTENDS Stream, FiniteSetTheorems, TLAPS

Sample == [t : Nat, life : 1 .. MaxLives, step : Nat \ {0}]
InOrder(s) == \A i, j \in 1 .. Len(s) : i < j => s[i].t < s[j].t
Ordered == {s \in Seq(Sample) : InOrder(s)}
Command == [c : {"sub", "unsub"}, addr : Addrs] \cup [c : {"set"}, addr : Addrs, id : Requests]
Event == [e : {"hello"}, now : Nat, life : 1 .. MaxLives]
    \cup [e : {"d"}, s : [Addrs -> Ordered]]
    \cup [e : {"set"}, addr : Addrs, ok : BOOLEAN]

TypedServer ==
    /\ time \in 0 .. MaxTime
    /\ server \in [up : BOOLEAN, life : 1 .. MaxLives, boot : Nat, done : SUBSET Requests]
    /\ server.boot <= time
    /\ session \in [live : BOOLEAN, cursor : [Addrs -> Int \cup {None}]]
    /\ session.live = TRUE => server.up = TRUE
    /\ server.up = TRUE \/ server.life < MaxLives

TypedPage ==
    /\ page \in [source : {"probing", "choosing", "ws", "sim"},
                 sock : {"none", "opening", "open", "closing"}, settled : BOOLEAN,
                 retrying : BOOLEAN, running : BOOLEAN, hello : Nat]
    /\ page.retrying = TRUE => page.sock = "none" /\ page.settled = TRUE

TypedChans ==
    /\ chans \in [Addrs -> [refs : 0 .. MaxRefs, ts : Ordered]]
    /\ \A a \in Addrs : chans[a].refs = 0 => chans[a].ts = <<>>

Records == [pending : [Addrs -> 0 .. MaxRequests], outcome : [Requests -> Outcomes \cup {None}],
            addr : [Requests -> Addrs \cup {None}]]

TypedWrites ==
    /\ writes \in Records
    /\ \A a \in Addrs : writes.pending[a] # 0 => writes.outcome[writes.pending[a]] = "waiting"
    /\ \A a, b \in Addrs : writes.pending[a] # 0 /\ writes.pending[a] = writes.pending[b] => a = b

Typed ==
    /\ TypedServer /\ TypedPage /\ TypedChans /\ TypedWrites
    /\ toServer \in Seq(Command) /\ toClient \in Seq(Event)

-----------------------------------------------------------------------------
(* Samples in order.                                                       *)

\* The numbers of a set closed downwards are the first ones.
LEMMA Downwards ==
    ASSUME NEW n \in Nat, NEW S \in SUBSET (1 .. n), \A i, j \in 1 .. n : i < j /\ j \in S => i \in S
    PROVE  \E k \in 0 .. n : S = 1 .. k
<1>1. IsFiniteSet(1 .. n) /\ Cardinality(1 .. n) = n
    BY FS_Interval
<1>2. IsFiniteSet(S) /\ Cardinality(S) \in Nat /\ Cardinality(S) <= n
    BY <1>1, FS_Subset, FS_CardinalityType
<1> DEFINE k == Cardinality(S)
<1>3. ASSUME NEW j \in S PROVE j <= k
    <2>1. (1 .. j) \subseteq S
        OBVIOUS
    <2>2. Cardinality(1 .. j) = j
        BY FS_Interval
    <2>3. QED
        BY <1>2, <2>1, <2>2, FS_Subset
<1>4. ASSUME NEW j \in 1 .. n, j \notin S PROVE k < j
    <2>1. S \subseteq 1 .. j - 1
        BY <1>4
    <2>2. IsFiniteSet(1 .. j - 1) /\ Cardinality(1 .. j - 1) = j - 1
        BY FS_Interval
    <2>3. Cardinality(S) <= Cardinality(1 .. j - 1)
        BY <2>1, <2>2, FS_Subset, ZenonT(30)
    <2>4. k <= j - 1
        BY <2>2, <2>3
    <2>5. QED
        BY <1>2, <2>4
<1> HIDE DEF k
<1>5. k \in 0 .. n
    BY <1>2 DEF k
<1>6. S \subseteq 1 .. k
    BY <1>2, <1>3, <1>5
<1>7. ASSUME NEW j \in 1 .. k PROVE j \in S
    <2>1. j \in 1 .. n /\ ~ (k < j)
        BY <1>5
    <2>2. QED
        BY <1>4, <2>1
<1>8. QED
    BY <1>5, <1>6, <1>7

\* What follows a date is the end of the samples, from the first later one.
EndPast(u, s, d) == \E k \in 0 .. Len(s) :
    /\ Len(u) = Len(s) - k
    /\ \A i \in 1 .. Len(u) : u[i] = s[k + i] /\ s[k + i].t > d
    /\ \A i \in 1 .. k : s[i].t <= d

LEMMA LaterIs ==
    ASSUME NEW s \in Seq(Sample), InOrder(s), NEW d \in Int
    PROVE  Later(s, d) \in Seq(Sample) /\ EndPast(Later(s, d), s, d)
<1> DEFINE n == Len(s)
           S == {i \in 1 .. n : s[i].t <= d}
           P(i) == /\ \A j \in 1 .. i - 1 : s[j].t <= d
                   /\ i <= n => s[i].t > d
           i0 == CHOOSE i \in 1 .. n + 1 : P(i)
<1>0. n \in Nat /\ \A i \in 1 .. n : s[i] \in Sample
    OBVIOUS
<1>1. n \in Nat /\ \A i \in 1 .. n : s[i].t \in Nat
    BY <1>0 DEF Sample
<1>2. \A i, j \in 1 .. n : i < j /\ j \in S => i \in S
    BY <1>1 DEF InOrder
<1>3. PICK k \in 0 .. n : S = 1 .. k
    BY <1>1, <1>2, Downwards
<1>4. P(k + 1) /\ k + 1 \in 1 .. n + 1
    <2>1. k + 1 \in 1 .. n + 1 /\ k + 1 \notin S /\ k \in Nat
        BY <1>1, <1>3
    <2>2. \A j \in 1 .. (k + 1) - 1 : j \in S
        BY <1>3, <2>1
    <2>3. k + 1 <= n => s[k + 1].t > d
        BY <1>1, <2>1
    <2>4. QED
        BY <2>1, <2>2, <2>3
<1>5. i0 \in 1 .. n + 1 /\ P(i0)
    BY <1>4
<1>6. Later(s, d) = SubSeq(s, i0, n)
    BY DEF Later
<1> HIDE DEF i0
<1>7. DEFINE u == SubSeq(s, i0, n)
<1>8. u \in Seq(Sample) /\ Len(u) = n - (i0 - 1) /\ \A i \in 1 .. Len(u) : u[i] = s[i0 - 1 + i]
    BY <1>1, <1>5
<1> HIDE DEF u
<1>9. i0 - 1 \in 0 .. n /\ \A i \in 1 .. i0 - 1 : s[i].t <= d
    BY <1>1, <1>5
<1>10. ASSUME NEW i \in 1 .. Len(u) PROVE s[i0 - 1 + i].t > d
    <2>1. i0 - 1 + i \in i0 .. n
        BY <1>1, <1>5, <1>8
    <2>2. s[i0].t > d /\ i0 \in 1 .. n
        BY <1>5, <2>1
    <2>3. s[i0].t <= s[i0 - 1 + i].t
        <3>1. CASE i = 1
            BY <1>1, <2>2, <3>1
        <3>2. CASE i > 1
            <4>1. i0 < i0 - 1 + i /\ i0 - 1 + i \in 1 .. n
                BY <1>5, <2>1, <3>2
            <4>2. QED
                BY <1>1, <2>2, <4>1, SMTT(30) DEF InOrder
        <3>3. QED
            BY <1>8, <3>1, <3>2
    <2>4. QED
        BY <1>1, <2>1, <2>2, <2>3, SMTT(30)
<1>11. EndPast(u, s, d)
    BY <1>8, <1>9, <1>10 DEF EndPast
<1>12. QED
    BY <1>6, <1>8, <1>11 DEF u

-----------------------------------------------------------------------------
(* Types.                                                                  *)

LEMMA Given ==
    /\ IsFiniteSet(Addrs) /\ Ahead \in [Addrs -> Nat] /\ Slack \in Nat /\ History \in Nat
    /\ MaxTime \in Nat /\ MaxRefs \in Nat /\ MaxRequests \in Nat
    /\ MaxPoints \in Nat \ {0} /\ MaxLives \in Nat \ {0}
    /\ None \notin Int /\ None \notin Outcomes /\ 0 \in 0 .. MaxRequests
    BY StreamAssumption

\* A division rounded up.
LEMMA CeilIs ==
    ASSUME NEW n \in Nat, NEW d \in Nat \ {0}
    PROVE  /\ CeilDiv(n, d) \in Nat
           /\ n <= CeilDiv(n, d) * d /\ (CeilDiv(n, d) - 1) * d < n
           /\ n > 0 => CeilDiv(n, d) > 0
<1> DEFINE q == (n + d - 1) \div d
           m == (n + d - 1) % d
<1>1. n + d - 1 \in Nat
    OBVIOUS
<1>2. q \in Nat /\ m \in 0 .. d - 1 /\ n + d - 1 = q * d + m
    BY <1>1, SMTT(30)
<1>3. CeilDiv(n, d) = q
    BY DEF CeilDiv
<1> HIDE DEF q, m
<1>4. n <= q * d
    BY <1>2, SMTT(30)
<1>5. q * d < n + d /\ (q - 1) * d = q * d - d
    BY <1>2, SMTT(30)
<1>6. (q - 1) * d < n
    BY <1>2, <1>5, SMTT(30)
<1>7. n > 0 => q > 0
    BY <1>2, <1>4, SMTT(30)
<1>8. QED
    BY <1>2, <1>3, <1>4, <1>6, <1>7

LEMMA Multiples == \A i, j, d \in Nat : i <= j => i * d <= j * d /\ i * d \in Nat
    BY SMTT(30)

\* Every d-th date from f on, and the last one.
Date(f, n, d, i) == IF (i - 1) * d < n THEN f + (i - 1) * d ELSE f + n

Spread(f, n, d, q) ==
    /\ Date(f, n, d, 1) = f /\ Date(f, n, d, q + 1) = f + n
    /\ \A i \in 1 .. q + 1 : /\ Date(f, n, d, i) \in Nat
                             /\ f <= Date(f, n, d, i) /\ Date(f, n, d, i) <= f + n
    /\ \A i \in 1 .. q : /\ Date(f, n, d, i) < Date(f, n, d, i + 1)
                         /\ Date(f, n, d, i + 1) <= Date(f, n, d, i) + d
    /\ \A i, j \in 1 .. q + 1 : i < j => Date(f, n, d, i) < Date(f, n, d, j)

LEMMA DatesStep ==
    ASSUME NEW f \in Nat, NEW n \in Nat, NEW d \in Nat \ {0}, NEW q \in Nat,
           n <= q * d, (q - 1) * d < n
    PROVE  Spread(f, n, d, q)
<1>1. \A i \in 1 .. q : (i - 1) * d \in Nat /\ (i - 1) * d < n /\ Date(f, n, d, i) = f + (i - 1) * d
    <2>1. ASSUME NEW i \in 1 .. q PROVE (i - 1) * d \in Nat /\ (i - 1) * d < n
        <3>1. i - 1 \in Nat /\ q - 1 \in Nat /\ i - 1 <= q - 1 /\ d \in Nat
            OBVIOUS
        <3>2. (i - 1) * d <= (q - 1) * d /\ (i - 1) * d \in Nat /\ (q - 1) * d \in Nat
            BY <3>1, Multiples
        <3>3. QED
            BY <3>2
    <2>2. QED
        BY <2>1 DEF Date
<1>2. Date(f, n, d, q + 1) = f + n
    <2>1. (q + 1) - 1 = q
        OBVIOUS
    <2>2. q * d \in Nat
        BY Multiples
    <2>3. QED
        BY <2>1, <2>2 DEF Date
<1>3. Date(f, n, d, 1) = f
    <2>1. (1 - 1) * d = 0
        OBVIOUS
    <2>2. n > 0 \/ n = 0
        OBVIOUS
    <2>3. QED
        BY <2>1, <2>2 DEF Date
<1>4. ASSUME NEW i \in 1 .. q + 1
      PROVE  /\ Date(f, n, d, i) \in Nat
             /\ f <= Date(f, n, d, i) /\ Date(f, n, d, i) <= f + n
    <2>1. CASE i = q + 1
        BY <1>2, <2>1
    <2>2. CASE i # q + 1
        <3>1. i \in 1 .. q
            BY <2>2
        <3>2. QED
            BY <1>1, <3>1
    <2>3. QED
        BY <2>1, <2>2
<1>5. ASSUME NEW i \in 1 .. q
      PROVE  /\ Date(f, n, d, i) < Date(f, n, d, i + 1)
             /\ Date(f, n, d, i + 1) <= Date(f, n, d, i) + d
    <2>1. i * d = (i - 1) * d + d /\ (i + 1) - 1 = i
        BY SMTT(30)
    <2>2. (i - 1) * d \in Nat /\ (i - 1) * d < n /\ Date(f, n, d, i) = f + (i - 1) * d
        BY <1>1
    <2>3. CASE i = q
        <3>1. Date(f, n, d, i + 1) = f + n /\ n <= i * d
            BY <1>2, <2>3
        <3>2. QED
            BY <2>1, <2>2, <3>1
    <2>4. CASE i # q
        <3>1. i + 1 \in 1 .. q
            BY <2>4
        <3>2. Date(f, n, d, i + 1) = f + ((i + 1) - 1) * d
            BY <1>1, <3>1
        <3>3. Date(f, n, d, i + 1) = f + i * d
            BY <2>1, <3>2
        <3>4. QED
            BY <2>1, <2>2, <3>3
    <2>5. QED
        BY <2>3, <2>4
<1>6. ASSUME NEW i \in 1 .. q + 1, NEW j \in 1 .. q + 1, i < j
      PROVE  Date(f, n, d, i) < Date(f, n, d, j)
    <2>1. i \in 1 .. q /\ i * d = (i - 1) * d + d
        BY <1>6, SMTT(30)
    <2>2. (i - 1) * d \in Nat /\ (i - 1) * d < n /\ Date(f, n, d, i) = f + (i - 1) * d
        BY <1>1, <2>1
    <2>3. CASE j = q + 1
        BY <1>2, <2>2, <2>3
    <2>4. CASE j # q + 1
        <3>1. j \in 1 .. q /\ i \in Nat /\ j - 1 \in Nat /\ i <= j - 1 /\ d \in Nat
            BY <1>6, <2>4
        <3>2. i * d <= (j - 1) * d
            BY <3>1, Multiples
        <3>3. (j - 1) * d \in Nat /\ Date(f, n, d, j) = f + (j - 1) * d
            BY <1>1, <3>1
        <3>4. QED
            BY <2>1, <2>2, <3>2, <3>3
    <2>5. QED
        BY <2>3, <2>4
<1>7. QED
    BY <1>2, <1>3, <1>4, <1>5, <1>6 DEF Spread

\* What the server reads: dates of its present life, from the first one after
\* the cursor to the last one there is, a step apart at most.
First(a, c) == IF c < Ahead[a] THEN Ahead[a] ELSE c + 1

Stepped(s) == \A i \in 1 .. Len(s) - 1 : s[i].t < s[i + 1].t /\ s[i + 1].t <= s[i].t + s[i + 1].step

\* One date in d, or none, from f on.
Sampled(s, f, n, d, q, l) ==
    s = [i \in 1 .. 1 + q |-> [t |-> Date(f, n, d, i), life |-> l, step |-> d]]

LEMMA SampledIs ==
    ASSUME NEW f \in Nat, NEW n \in Nat, NEW d \in Nat \ {0}, NEW l \in 1 .. MaxLives, NEW s,
           Sampled(s, f, n, d, CeilDiv(n, d), l)
    PROVE  /\ s \in Seq(Sample) /\ Len(s) > 0 /\ s[1].t = f /\ s[Len(s)].t = f + n
           /\ \A i \in 1 .. Len(s) : s[i].life = l /\ f <= s[i].t /\ s[i].t <= f + n
           /\ Stepped(s) /\ InOrder(s)
<1>1. PICK q \in Nat : q = CeilDiv(n, d) /\ n <= q * d /\ (q - 1) * d < n
    BY CeilIs
<1>2. Spread(f, n, d, q)
    BY <1>1, DatesStep
<1>3. s = [i \in 1 .. q + 1 |-> [t |-> Date(f, n, d, i), life |-> l, step |-> d]]
    BY <1>1 DEF Sampled
<1>4. \A i \in 1 .. q + 1 : [t |-> Date(f, n, d, i), life |-> l, step |-> d] \in Sample
    BY <1>2 DEF Sample, Spread
<1>5. s \in Seq(Sample) /\ Len(s) = q + 1
    BY <1>3, <1>4
<1>6. \A i \in 1 .. q + 1 : s[i].t = Date(f, n, d, i) /\ s[i].life = l /\ s[i].step = d
    BY <1>3
<1>7. s[1].t = f /\ s[Len(s)].t = f + n
    <2>1. 1 \in 1 .. q + 1 /\ q + 1 \in 1 .. q + 1
        OBVIOUS
    <2>2. s[1].t = Date(f, n, d, 1) /\ s[q + 1].t = Date(f, n, d, q + 1)
        BY <1>6, <2>1
    <2>3. Date(f, n, d, 1) = f /\ Date(f, n, d, q + 1) = f + n
        BY <1>2 DEF Spread
    <2>4. QED
        BY <1>5, <2>2, <2>3
<1>8. \A i \in 1 .. Len(s) : s[i].life = l /\ f <= s[i].t /\ s[i].t <= f + n
    BY <1>2, <1>5, <1>6 DEF Spread
<1>9. Stepped(s)
    <2>1. ASSUME NEW i \in 1 .. q
          PROVE  s[i].t < s[i + 1].t /\ s[i + 1].t <= s[i].t + s[i + 1].step
        <3>1. i \in 1 .. q + 1 /\ i + 1 \in 1 .. q + 1
            OBVIOUS
        <3>2. s[i].t = Date(f, n, d, i) /\ s[i + 1].t = Date(f, n, d, i + 1) /\ s[i + 1].step = d
            BY <1>6, <3>1
        <3>3. QED
            BY <1>2, <3>2 DEF Spread
    <2>2. Len(s) - 1 = q
        BY <1>5
    <2>3. QED
        BY <2>1, <2>2 DEF Stepped
<1>10. InOrder(s)
    BY <1>2, <1>5, <1>6 DEF InOrder, Spread
<1>11. QED
    BY <1>5, <1>7, <1>8, <1>9, <1>10

LEMMA NothingLeft == \A x \in Int : x <= -1 => 1 .. 1 + CeilDiv(x, 1) = {}
<1>1. \A x \in Int : (x + 1 - 1) \div 1 = x
    BY SMTT(30)
<1>2. QED
    BY <1>1 DEF CeilDiv

LEMMA ReadIs ==
    ASSUME TypedServer, NEW a \in Addrs, NEW c \in Int
    PROVE  /\ First(a, c) \in Nat /\ First(a, c) >= Ahead[a]
           /\ Read(a, c) \in Ordered /\ Stepped(Read(a, c))
           /\ \A i \in 1 .. Len(Read(a, c)) :
                /\ Read(a, c)[i].life = server.life
                /\ First(a, c) <= Read(a, c)[i].t /\ Read(a, c)[i].t <= ServerNow + Ahead[a]
           /\ Len(Read(a, c)) > 0 => /\ Read(a, c)[1].t = First(a, c)
                                     /\ Read(a, c)[Len(Read(a, c))].t = ServerNow + Ahead[a]
<1> DEFINE f == First(a, c)
           last == ServerNow + Ahead[a]
           avail == last - f + 1
           d == IF avail > MaxPoints THEN CeilDiv(avail, MaxPoints) ELSE 1
           r == [i \in 1 .. 1 + CeilDiv(avail - 1, d) |->
                   [t |-> IF (i - 1) * d < avail - 1 THEN f + (i - 1) * d ELSE last,
                    life |-> server.life, step |-> d]]
<1>1. Ahead[a] \in Nat /\ ServerNow \in Nat /\ server.life \in 1 .. MaxLives
    BY Given DEF TypedServer, ServerNow
<1>2. f \in Nat /\ f >= Ahead[a]
    BY <1>1 DEF First
<1>3. Read(a, c) = r
    BY DEF Read, First
<1>4. last \in Nat
    BY <1>1
<1> HIDE DEF f, last
<1>5. CASE f <= last
    <2>1. PICK n \in Nat : n = avail - 1 /\ f + n = last
        BY <1>2, <1>4, <1>5
    <2>2. d \in Nat \ {0}
        <3>1. avail \in Nat
            BY <1>2, <1>4, <2>1
        <3>2. avail > MaxPoints => avail > 0 /\ avail \in Nat
            BY <3>1, Given
        <3>3. avail > MaxPoints => CeilDiv(avail, MaxPoints) \in Nat \ {0}
            BY <3>2, Given, CeilIs
        <3>4. QED
            BY <3>3
    <2> HIDE DEF avail, d
    <2>3. r = [i \in 1 .. 1 + CeilDiv(n, d) |-> [t |-> Date(f, n, d, i), life |-> server.life, step |-> d]]
        BY <2>1 DEF Date
    <2> HIDE DEF r
    <2>4. Sampled(r, f, n, d, CeilDiv(n, d), server.life)
        BY <2>3 DEF Sampled
    <2>5. /\ r \in Seq(Sample) /\ Len(r) > 0 /\ r[1].t = f /\ r[Len(r)].t = f + n
          /\ \A i \in 1 .. Len(r) : r[i].life = server.life /\ f <= r[i].t /\ r[i].t <= f + n
          /\ Stepped(r) /\ InOrder(r)
        BY ONLY <1>1, <1>2, <2>2, <2>4, SampledIs, n \in Nat
    <2>6. /\ Read(a, c) \in Ordered /\ Stepped(Read(a, c))
          /\ \A i \in 1 .. Len(Read(a, c)) :
               /\ Read(a, c)[i].life = server.life
               /\ f <= Read(a, c)[i].t /\ Read(a, c)[i].t <= last
          /\ Read(a, c)[1].t = f /\ Read(a, c)[Len(Read(a, c))].t = last
        BY <1>3, <2>1, <2>5 DEF Ordered
    <2>7. QED
        BY <1>2, <2>6 DEF f, last
<1>6. CASE ~ (f <= last)
    <2>1. avail - 1 \in Int /\ avail - 1 <= -1 /\ avail \in Int /\ avail <= 0
        BY <1>2, <1>4, <1>6
    <2>2. d = 1
        BY <2>1, Given
    <2>3. 1 .. 1 + CeilDiv(avail - 1, d) = {}
        BY <2>1, <2>2, NothingLeft
    <2>4. r = <<>>
        BY <2>3
    <2>5. Read(a, c) = <<>> /\ Len(<<>>) = 0
        BY <1>3, <2>4
    <2>6. QED
        BY <1>2, <2>5 DEF Stepped, Ordered, InOrder, f
<1>7. QED
    BY <1>5, <1>6

\* A command served.
LEMMA ServeTyped == ASSUME Typed, Serve PROVE Typed'
<1> DEFINE m == Head(toServer)
<1>1. /\ toServer \in Seq(Command) /\ toServer # <<>> /\ session.live = TRUE
      /\ toServer' = Tail(toServer) /\ UNCHANGED <<time, page, chans, writes, log>>
    BY DEF Serve, Typed, TypedServer
<1>2. toServer' \in Seq(Command) /\ m \in Command
    BY <1>1
<1>3. TypedPage' /\ TypedChans' /\ TypedWrites'
    BY <1>1 DEF Typed, TypedPage, TypedChans, TypedWrites
<1>4. CASE m.c = "set"
    <2>1. PICK ok \in BOOLEAN :
             /\ server' = IF ok THEN [server EXCEPT !.done = @ \cup {m.id}] ELSE server
             /\ toClient' = Append(toClient, [e |-> "set", addr |-> m.addr, ok |-> ok])
             /\ UNCHANGED session
        BY <1>4 DEF Serve
    <2>2. m.addr \in Addrs /\ m.id \in Requests
        BY <1>2, <1>4 DEF Command
    <2>3. toClient' \in Seq(Event)
        BY <2>1, <2>2 DEF Typed, Event
    <2>4. TypedServer'
        BY <1>1, <2>1, <2>2 DEF Typed, TypedServer
    <2>5. QED
        BY <1>2, <1>3, <2>3, <2>4 DEF Typed
<1>5. CASE m.c # "set"
    <2>1. UNCHANGED <<server, toClient>> /\ m.addr \in Addrs
        BY <1>2, <1>5 DEF Serve, Command
    <2>2. \/ session' = session
          \/ session' = [session EXCEPT !.cursor[m.addr] = ServerNow - History]
          \/ session' = [session EXCEPT !.cursor[m.addr] = None]
        BY <1>5 DEF Serve
    <2>3. ServerNow - History \in Int
        BY Given DEF Typed, TypedServer, ServerNow
    <2>4. session \in [live : BOOLEAN, cursor : [Addrs -> Int \cup {None}]]
        BY DEF Typed, TypedServer
    <2>5. session' \in [live : BOOLEAN, cursor : [Addrs -> Int \cup {None}]] /\ session'.live = session.live
        BY <2>1, <2>2, <2>3, <2>4
    <2>6. TypedServer'
        BY <1>1, <2>1, <2>5 DEF Typed, TypedServer
    <2>7. QED
        BY <1>2, <1>3, <2>1, <2>6 DEF Typed
<1>6. QED
    BY <1>4, <1>5

\* What a turn of the loop sends.
News(a) == IF session.cursor[a] = None THEN <<>> ELSE Read(a, session.cursor[a])

LEMMA FlushIs ==
    ASSUME Typed, Flush
    PROVE  LET batch == [a \in Addrs |-> News(a)]
           IN /\ batch \in [Addrs -> Ordered] /\ session.live = TRUE
              /\ [e |-> "d", s |-> batch] \in Event
              /\ toClient' = Append(toClient, [e |-> "d", s |-> batch])
              /\ session' \in [live : BOOLEAN, cursor : [Addrs -> Int \cup {None}]]
              /\ session'.live = session.live
              /\ \A a \in Addrs : session'.cursor[a] =
                   IF News(a) = <<>> THEN session.cursor[a] ELSE News(a)[Len(News(a))].t
              /\ UNCHANGED <<time, server, toServer, page, chans, writes, log>>
<1> DEFINE batch == [a \in Addrs |-> News(a)]
<1>1. TypedServer
    BY DEF Typed
<1>2. ASSUME NEW a \in Addrs
      PROVE  News(a) \in Ordered
    <2>1. CASE session.cursor[a] = None
        BY <2>1 DEF News, Ordered, InOrder
    <2>2. CASE session.cursor[a] # None
        <3>1. session.cursor[a] \in Int
            BY <1>1, <2>2 DEF TypedServer
        <3>2. News(a) = Read(a, session.cursor[a])
            BY <2>2 DEF News
        <3>3. QED
            BY <1>1, <3>1, <3>2, ReadIs
    <2>3. QED
        BY <2>1, <2>2
<1>3. batch \in [Addrs -> Ordered]
    BY <1>2
<1>4. /\ session.live = TRUE
      /\ toClient' = Append(toClient, [e |-> "d", s |-> batch])
      /\ session' = [session EXCEPT !.cursor =
                      [a \in Addrs |-> IF batch[a] = <<>> THEN session.cursor[a] ELSE Last(batch[a]).t]]
      /\ UNCHANGED <<time, server, toServer, page, chans, writes, log>>
    BY <1>1 DEF Flush, News, TypedServer
<1>5. \A a \in Addrs : batch[a] = News(a)
    OBVIOUS
<1> DEFINE cur == [a \in Addrs |-> IF batch[a] = <<>> THEN session.cursor[a] ELSE Last(batch[a]).t]
<1>6. session' = [live |-> session.live, cursor |-> cur]
    BY <1>1, <1>4 DEF TypedServer
<1> HIDE DEF batch
<1>7. \A a \in Addrs : cur[a] = IF News(a) = <<>> THEN session.cursor[a] ELSE News(a)[Len(News(a))].t
    BY <1>5 DEF Last
<1>8. \A a \in Addrs : cur[a] \in Int \cup {None}
    <2>1. ASSUME NEW a \in Addrs, News(a) # <<>> PROVE News(a)[Len(News(a))].t \in Int
        <3>1. Len(News(a)) \in 1 .. Len(News(a))
            BY <1>2, <2>1 DEF Ordered
        <3>2. News(a)[Len(News(a))] \in Sample
            BY <1>2, <3>1 DEF Ordered
        <3>3. QED
            BY <3>2 DEF Sample
    <2>2. QED
        BY <1>1, <1>7, <2>1 DEF TypedServer
<1> HIDE DEF cur
<1>9. cur \in [Addrs -> Int \cup {None}]
    BY <1>8 DEF cur
<1>10. /\ session' \in [live : BOOLEAN, cursor : [Addrs -> Int \cup {None}]]
       /\ session'.live = session.live /\ session'.cursor = cur
    BY <1>1, <1>6, <1>9 DEF TypedServer
<1>11. [e |-> "d", s |-> batch] \in Event
    BY <1>3 DEF Event
<1>12. QED
    BY <1>3, <1>4, <1>7, <1>10, <1>11 DEF batch

LEMMA FlushTyped == ASSUME Typed, Flush PROVE Typed'
<1>1. PICK b \in Event : toClient' = Append(toClient, b)
    BY FlushIs
<1>2. toClient' \in Seq(Event)
    BY <1>1 DEF Typed
<1>3. /\ session' \in [live : BOOLEAN, cursor : [Addrs -> Int \cup {None}]]
      /\ session'.live = session.live
      /\ UNCHANGED <<time, server, toServer, page, chans, writes, log>>
    BY FlushIs
<1>4. QED
    BY <1>2, <1>3 DEF Typed, TypedServer, TypedPage, TypedChans, TypedWrites

LEMMA NoSessionIs ==
    /\ NoSession \in [live : BOOLEAN, cursor : [Addrs -> Int \cup {None}]]
    /\ NoSession.live = FALSE /\ \A a \in Addrs : NoSession.cursor[a] = None
    BY DEF NoSession

\* The server and the connection.
LEMMA NetTyped ==
    ASSUME Typed, Cut \/ Crash \/ Reboot \/ Tick \/ Probe \/ Reconnect \/ GiveUp \/ Refused \/ Dropped
    PROVE  Typed'
<1>1. UNCHANGED <<chans, writes, log>>
    BY DEF Cut, Crash, Reboot, Tick, Probe, Reconnect, GiveUp, Refused, Dropped, network
<1>2. toServer' = toServer \/ toServer' = <<>>
    BY DEF Cut, Crash, Reboot, Tick, Probe, Reconnect, GiveUp, Refused, Dropped, network
<1>3. toClient' = toClient \/ toClient' = <<>>
    BY DEF Cut, Crash, Reboot, Tick, Probe, Reconnect, GiveUp, Refused, Dropped, network
<1>4. toServer' \in Seq(Command) /\ toClient' \in Seq(Event)
    <2>1. <<>> \in Seq(Command) /\ <<>> \in Seq(Event)
        OBVIOUS
    <2>2. QED
        BY <1>2, <1>3, <2>1 DEF Typed
<1>5. TypedChans' /\ TypedWrites'
    BY <1>1 DEF Typed, TypedChans, TypedWrites
<1>6. TypedServer'
    <2>1. CASE Cut
        BY <2>1, NoSessionIs DEF Cut, Typed, TypedServer
    <2>2. CASE Crash
        BY <2>2, NoSessionIs DEF Crash, Typed, TypedServer
    <2>3. CASE Reboot
        <3>0. TypedServer /\ ~server.up
            BY <2>3 DEF Reboot, Typed
        <3>0a. ~ (server.up = TRUE)
            BY <3>0, Zenon
        <3>1. server.life + 1 \in 1 .. MaxLives /\ session.live # TRUE
            <4>1. server.life \in 1 .. MaxLives /\ server.life < MaxLives /\ MaxLives \in Nat
                BY <3>0, <3>0a, Given DEF TypedServer
            <4>2. session.live # TRUE
                BY <3>0, <3>0a DEF TypedServer
            <4>3. server.life + 1 \in 1 .. MaxLives
                BY <4>1
            <4>4. QED
                BY <4>2, <4>3, Zenon
        <3>2. server' = [server EXCEPT !.up = TRUE, !.life = server.life + 1, !.boot = time]
            BY <2>3 DEF Reboot, Typed, TypedServer
        <3>3. QED
            <4>1. time' = time /\ session' = session /\ time \in Nat
                BY <2>3, <3>0, Given DEF Reboot, network, TypedServer
            <4>2. server' = [up |-> TRUE, life |-> server.life + 1, boot |-> time, done |-> server.done]
                BY <3>0, <3>2 DEF TypedServer
            <4>3. QED
                BY <3>0, <3>1, <4>1, <4>2 DEF TypedServer
    <2>4. CASE Tick
        BY <2>4, Given DEF Tick, network, Typed, TypedServer
    <2>5. CASE GiveUp
        BY <2>5, NoSessionIs DEF GiveUp, Typed, TypedServer
    <2>6. CASE Probe \/ Reconnect \/ Refused \/ Dropped
        BY <2>6 DEF Probe, Reconnect, Refused, Dropped, network, Typed, TypedServer
    <2>7. QED
        BY <2>1, <2>2, <2>3, <2>4, <2>5, <2>6
<1>7. TypedPage'
    <2>1. TypedPage
        BY DEF Typed
    <2>2. CASE Cut \/ Crash \/ Reboot \/ Tick
        BY <2>1, <2>2 DEF Cut, Crash, Reboot, Tick, TypedPage
    <2>3. CASE Probe
        BY <2>1, <2>3 DEF Probe, Connecting, TypedPage
    <2>4. CASE Reconnect
        BY <2>1, <2>4 DEF Reconnect, Connecting, TypedPage
    <2>5. CASE GiveUp
        <3>1. page' = [page EXCEPT !.settled = TRUE, !.sock = "closing",
                            !.source = IF page.source = "choosing" THEN "sim" ELSE page.source]
            BY <2>5 DEF GiveUp
        <3>2. page.retrying # TRUE
            BY <2>1, <2>5 DEF GiveUp, TypedPage
        <3>3. QED
            BY <2>1, <3>1, <3>2 DEF TypedPage
    <2>6. CASE Refused
        <3>1. page' = [page EXCEPT !.settled = TRUE, !.sock = "none",
                            !.source = IF page.source = "choosing" THEN "sim" ELSE page.source]
            BY <2>6 DEF Refused
        <3>2. QED
            BY <2>1, <3>1 DEF TypedPage
    <2>7. CASE Dropped
        BY <2>1, <2>7 DEF Dropped, TypedPage
    <2>8. QED
        BY <2>2, <2>3, <2>4, <2>5, <2>6, <2>7
<1>8. QED
    BY <1>4, <1>5, <1>6, <1>7 DEF Typed

\* The subscriptions that the page sends when the connection opens.
LEMMA SubsAre ==
    LET S == {[c |-> "sub", addr |-> a] : a \in Held}
    IN  SetToSeq(S) \in Seq(S) /\ S \subseteq Command /\ \A m \in S : m.c = "sub"
<1> DEFINE S == {[c |-> "sub", addr |-> a] : a \in Held}
           f == [a \in Held |-> [c |-> "sub", addr |-> a]]
<1>1. IsFiniteSet(Held)
    BY Given, FS_Subset DEF Held
<1>2. f \in [Held -> S] /\ \A x, y \in Held : f[x] = f[y] => x = y
    OBVIOUS
<1>3. \A s \in S : \E x \in Held : f[x] = s
    OBVIOUS
<1> HIDE DEF f
<1>4. f \in Bijection(Held, S)
    BY <1>2, <1>3 DEF Bijection, Injection, Surjection, IsInjective
<1>5. ExistsBijection(Held, S)
    BY <1>4 DEF ExistsBijection
<1> HIDE DEF S
<1>6. IsFiniteSet(S)
    BY <1>1, <1>5, FS_Bijection
<1>7. Cardinality(S) \in Nat /\ Bijection(1 .. Cardinality(S), S) # {}
    BY <1>6, FS_CardinalityType DEF ExistsBijection
<1>8. \E g \in [1 .. Cardinality(S) -> S] : IsInjective(g)
    BY <1>7 DEF Bijection, Injection
<1>9. SetToSeq(S) \in [1 .. Cardinality(S) -> S]
    BY <1>8 DEF SetToSeq
<1>10. SetToSeq(S) \in Seq(S)
    BY <1>7, <1>9
<1>11. S \subseteq Command /\ \A m \in S : m.c = "sub"
    BY DEF S, Command, Held
<1>12. QED
    BY <1>10, <1>11 DEF S

LEMMA OpenIs ==
    ASSUME Typed, Open
    PROVE  /\ page.sock = "opening" /\ server.up = TRUE
           /\ page' = [page EXCEPT !.sock = "open"]
           /\ session' \in [live : BOOLEAN, cursor : [Addrs -> Int \cup {None}]]
           /\ session'.live = TRUE /\ \A a \in Addrs : session'.cursor[a] = None
           /\ toClient' = <<[e |-> "hello", now |-> ServerNow, life |-> server.life]>>
           /\ [e |-> "hello", now |-> ServerNow, life |-> server.life] \in Event
           /\ toServer' \in Seq(Command)
           /\ \A i \in 1 .. Len(toServer') : toServer'[i].c = "sub"
           /\ UNCHANGED <<time, server, chans, writes, log>>
<1>1. /\ page.sock = "opening" /\ server.up = TRUE
      /\ page' = [page EXCEPT !.sock = "open"]
      /\ session' = [NoSession EXCEPT !.live = TRUE]
      /\ toClient' = <<[e |-> "hello", now |-> ServerNow, life |-> server.life]>>
      /\ UNCHANGED <<time, server, chans, writes, log>>
    BY DEF Open, Typed, TypedServer
<1>2. /\ session' \in [live : BOOLEAN, cursor : [Addrs -> Int \cup {None}]]
      /\ session'.live = TRUE /\ \A a \in Addrs : session'.cursor[a] = None
    BY <1>1 DEF NoSession
<1>3. ServerNow \in Nat /\ server.life \in 1 .. MaxLives
    BY DEF Typed, TypedServer, ServerNow
<1>4. [e |-> "hello", now |-> ServerNow, life |-> server.life] \in Event
    BY <1>3 DEF Event
<1> DEFINE S == {[c |-> "sub", addr |-> a] : a \in Held}
<1>5. toServer' = SetToSeq(S)
    BY DEF Open
<1>6. SetToSeq(S) \in Seq(S) /\ S \subseteq Command /\ \A m \in S : m.c = "sub"
    BY SubsAre
<1> HIDE DEF S
<1>7. toServer' \in Seq(Command) /\ \A i \in 1 .. Len(toServer') : toServer'[i] \in S
    BY <1>5, <1>6
<1>8. QED
    BY <1>1, <1>2, <1>4, <1>6, <1>7

LEMMA OpenTyped == ASSUME Typed, Open PROVE Typed'
<1>1. TypedPage'
    BY OpenIs DEF Typed, TypedPage
<1>2. TypedServer'
    BY OpenIs DEF Typed, TypedServer
<1>3. TypedChans' /\ TypedWrites'
    <2>1. UNCHANGED <<chans, writes>> /\ TypedChans /\ TypedWrites
        BY OpenIs DEF Typed
    <2>2. QED
        BY <2>1 DEF TypedChans, TypedWrites
<1>4. toClient' \in Seq(Event)
    <2>1. PICK b \in Event : toClient' = <<b>>
        BY OpenIs
    <2>2. QED
        BY <2>1
<1>5. QED
    BY <1>1, <1>2, <1>3, <1>4, OpenIs DEF Typed

\* What is recorded: all of the first batch, then what is later than the newest.
LEMMA RecordedIs ==
    ASSUME NEW ts \in Ordered, NEW new \in Ordered
    PROVE  \E u \in Seq(Sample) :
             /\ Recorded(ts, new) = ts \o u /\ Recorded(ts, new) \in Ordered
             /\ ts = <<>> => u = new
             /\ ts # <<>> => EndPast(u, new, Newest(ts))
<1> DEFINE u == IF ts = <<>> THEN new ELSE Later(new, Newest(ts))
           r == ts \o u
<1>1. /\ ts \in Seq(Sample) /\ new \in Seq(Sample) /\ InOrder(ts) /\ InOrder(new)
      /\ \A i \in 1 .. Len(ts) : ts[i].t \in Nat
      /\ \A i \in 1 .. Len(new) : new[i].t \in Nat
    <2>1. ts \in Seq(Sample) /\ new \in Seq(Sample) /\ InOrder(ts) /\ InOrder(new)
        BY DEF Ordered
    <2>2. (\A i \in 1 .. Len(ts) : ts[i] \in Sample) /\ \A i \in 1 .. Len(new) : new[i] \in Sample
        BY <2>1
    <2>3. QED
        BY <2>1, <2>2 DEF Sample
<1>2. Recorded(ts, new) = r
    BY DEF Recorded
<1>3. CASE ts = <<>>
    <2>1. u = new /\ r = new
        BY <1>1, <1>3
    <2>2. QED
        BY <1>1, <1>2, <1>3, <2>1
<1>4. CASE ts # <<>>
    <2>1. Newest(ts) = ts[Len(ts)].t /\ Len(ts) \in 1 .. Len(ts) /\ Newest(ts) \in Nat
        BY <1>1, <1>4 DEF Newest, Last
    <2>2. u = Later(new, Newest(ts))
        BY <1>4
    <2>3. u \in Seq(Sample) /\ EndPast(u, new, Newest(ts))
        <3>1. Newest(ts) \in Int
            BY <2>1
        <3>2. Later(new, Newest(ts)) \in Seq(Sample) /\ EndPast(Later(new, Newest(ts)), new, Newest(ts))
            BY <1>1, <3>1, LaterIs
        <3> HIDE DEF u
        <3>3. QED
            BY <2>2, <3>2
    <2> HIDE DEF u
    <2>4. /\ r \in Seq(Sample) /\ Len(r) = Len(ts) + Len(u)
          /\ \A i \in 1 .. Len(r) : r[i] = IF i <= Len(ts) THEN ts[i] ELSE u[i - Len(ts)]
        BY <1>1, <2>3
    <2>5. PICK k \in 0 .. Len(new) :
             /\ Len(u) = Len(new) - k
             /\ \A i \in 1 .. Len(u) : u[i] = new[k + i] /\ new[k + i].t > Newest(ts)
        BY <2>3 DEF EndPast
    <2>6. \A i \in 1 .. Len(ts) : ts[i].t <= Newest(ts)
        BY <1>1, <2>1 DEF InOrder
    <2>7. ASSUME NEW i \in 1 .. Len(r), NEW j \in 1 .. Len(r), i < j
          PROVE  r[i].t < r[j].t
        <3>1. CASE j <= Len(ts)
            BY <1>1, <2>4, <2>7, <3>1 DEF InOrder
        <3>2. CASE i <= Len(ts) /\ ~ (j <= Len(ts))
            <4>1. r[i] = ts[i] /\ r[j] = u[j - Len(ts)] /\ j - Len(ts) \in 1 .. Len(u) /\ i \in 1 .. Len(ts)
                BY <1>1, <2>3, <2>4, <3>2
            <4>2. r[j].t = new[k + (j - Len(ts))].t /\ new[k + (j - Len(ts))].t > Newest(ts)
                BY <2>5, <4>1
            <4>3. k + (j - Len(ts)) \in 1 .. Len(new)
                BY <1>1, <2>3, <2>5, <4>1
            <4>4. QED
                <5>1. ts[i].t \in Nat /\ ts[i].t <= Newest(ts)
                    BY <1>1, <2>6, <4>1
                <5>2. r[j].t \in Nat /\ r[j].t > Newest(ts)
                    BY <1>1, <4>2, <4>3
                <5>3. QED
                    BY <2>1, <4>1, <5>1, <5>2, SMTT(30)
        <3>3. CASE ~ (i <= Len(ts)) /\ ~ (j <= Len(ts))
            <4>1. /\ r[i] = u[i - Len(ts)] /\ i - Len(ts) \in 1 .. Len(u)
                  /\ r[j] = u[j - Len(ts)] /\ j - Len(ts) \in 1 .. Len(u)
                BY <1>1, <2>3, <2>4, <3>3
            <4>2. r[i] = new[k + (i - Len(ts))] /\ r[j] = new[k + (j - Len(ts))]
                BY <2>5, <4>1
            <4>3. /\ k + (i - Len(ts)) \in 1 .. Len(new) /\ k + (j - Len(ts)) \in 1 .. Len(new)
                  /\ k + (i - Len(ts)) < k + (j - Len(ts))
                BY <1>1, <2>3, <2>5, <2>7, <4>1, SMTT(30)
            <4>4. QED
                BY <1>1, <4>2, <4>3 DEF InOrder
        <3>4. QED
            BY <2>7, <3>1, <3>2, <3>3
    <2>8. r \in Ordered
        BY <2>4, <2>7 DEF Ordered, InOrder
    <2>9. QED
        BY <1>2, <1>4, <2>3, <2>8
<1>5. QED
    BY <1>3, <1>4

\* A channel after what a batch brings it.
Fed(ts, new) == IF page.running = TRUE THEN Recorded(ts, new) ELSE ts

LEMMA DataIs ==
    ASSUME Typed, NEW m \in Event, m.e = "d", Data(m)
    PROVE  /\ m.s \in [Addrs -> Ordered] /\ UNCHANGED <<page, writes, log>>
           /\ \A a \in Addrs :
                /\ chans'[a].refs = chans[a].refs
                /\ a \in Held => chans'[a].ts = Fed(chans[a].ts, m.s[a])
                /\ a \notin Held => chans'[a].ts = chans[a].ts
                /\ Fed(chans[a].ts, m.s[a]) \in Ordered
           /\ chans' = [a \in Addrs |-> [refs |-> chans[a].refs, ts |-> chans'[a].ts]]
<1>1. m.s \in [Addrs -> Ordered]
    BY DEF Event
<1>2. chans \in [Addrs -> [refs : 0 .. MaxRefs, ts : Ordered]] /\ page.running \in BOOLEAN
    BY DEF Typed, TypedChans, TypedPage
<1>3. \A a \in Addrs : Recorded(chans[a].ts, m.s[a]) \in Ordered
    BY <1>1, <1>2, RecordedIs
<1>4. \A a \in Addrs : Fed(chans[a].ts, m.s[a]) \in Ordered
    BY <1>2, <1>3 DEF Fed
<1>5. chans' = [a \in Addrs |-> IF a \in Held /\ page.running = TRUE
                    THEN [chans[a] EXCEPT !.ts = Recorded(chans[a].ts, m.s[a])] ELSE chans[a]]
    <2>1. CASE page.running = TRUE
        BY <1>2, <2>1 DEF Data
    <2>2. CASE page.running # TRUE
        <3>1. chans' = chans
            BY <1>2, <2>2 DEF Data
        <3>2. QED
            BY <1>2, <2>2, <3>1
    <2>3. QED
        BY <2>1, <2>2
<1>6. ASSUME NEW a \in Addrs
      PROVE  /\ chans'[a] = [refs |-> chans[a].refs, ts |-> chans'[a].ts]
             /\ a \in Held => chans'[a].ts = Fed(chans[a].ts, m.s[a])
             /\ a \notin Held => chans'[a].ts = chans[a].ts
    <2>1. chans[a] \in [refs : 0 .. MaxRefs, ts : Ordered]
        BY <1>2
    <2>2. chans'[a] = IF a \in Held /\ page.running = TRUE
                      THEN [chans[a] EXCEPT !.ts = Recorded(chans[a].ts, m.s[a])] ELSE chans[a]
        BY <1>5
    <2>3. CASE a \in Held /\ page.running = TRUE
        BY <2>1, <2>2, <2>3 DEF Fed
    <2>4. CASE ~ (a \in Held /\ page.running = TRUE)
        BY <2>1, <2>2, <2>4 DEF Fed
    <2>5. QED
        BY <2>3, <2>4
<1>7. chans' = [a \in Addrs |-> chans'[a]]
    BY <1>5
<1>8. UNCHANGED <<page, writes, log>>
    BY DEF Data
<1>9. QED
    BY <1>1, <1>4, <1>6, <1>7, <1>8

\* Channels emptied.
LEMMA EmptiedIs ==
    ASSUME TypedChans
    PROVE  /\ Emptied \in [Addrs -> [refs : 0 .. MaxRefs, ts : Ordered]]
           /\ \A a \in Addrs : Emptied[a].ts = <<>> /\ Emptied[a].refs = chans[a].refs
<1>1. <<>> \in Ordered
    BY DEF Ordered, InOrder
<1>2. \A a \in Addrs : chans[a] \in [refs : 0 .. MaxRefs, ts : Ordered]
    BY DEF TypedChans
<1>3. QED
    BY <1>1, <1>2 DEF Emptied

\* A request that is resolved waits no more.
LEMMA WritesAre ==
    ASSUME TypedWrites
    PROVE  /\ writes.pending \in [Addrs -> 0 .. MaxRequests]
           /\ writes.outcome \in [Requests -> Outcomes \cup {None}]
           /\ writes.addr \in [Requests -> Addrs \cup {None}]
           /\ writes = [pending |-> writes.pending, outcome |-> writes.outcome, addr |-> writes.addr]
           /\ \A a \in Addrs : writes.pending[a] # 0 => writes.pending[a] \in Requests
<1>1. writes \in Records
    BY DEF TypedWrites
<1>2. /\ writes.pending \in [Addrs -> 0 .. MaxRequests]
      /\ writes.outcome \in [Requests -> Outcomes \cup {None}]
      /\ writes.addr \in [Requests -> Addrs \cup {None}]
      /\ writes = [pending |-> writes.pending, outcome |-> writes.outcome, addr |-> writes.addr]
    BY <1>1 DEF Records
<1>3. \A a \in Addrs : writes.pending[a] # 0 => writes.pending[a] \in Requests
    BY <1>2, Given DEF Requests
<1>4. QED
    BY <1>2, <1>3

LEMMA ResolvedIs ==
    ASSUME TypedWrites, NEW a \in Addrs, NEW o \in Outcomes
    PROVE  /\ Resolved(writes, a, o) \in Records
           /\ Resolved(writes, a, o).pending = [writes.pending EXCEPT ![a] = 0]
           /\ Resolved(writes, a, o).outcome =
                [r \in Requests |-> IF r = writes.pending[a] THEN o ELSE writes.outcome[r]]
           /\ Resolved(writes, a, o).addr = writes.addr
<1>1. /\ writes.pending \in [Addrs -> 0 .. MaxRequests] /\ 0 \in 0 .. MaxRequests
      /\ writes.outcome \in [Requests -> Outcomes \cup {None}]
      /\ writes.addr \in [Requests -> Addrs \cup {None}]
      /\ writes = [pending |-> writes.pending, outcome |-> writes.outcome, addr |-> writes.addr]
    BY Given, WritesAre
<1>2. CASE writes.pending[a] = 0
    <2>1. Resolved(writes, a, o) = writes /\ 0 \notin Requests
        BY <1>2 DEF Resolved, Requests
    <2>2. [writes.pending EXCEPT ![a] = 0] = writes.pending
        BY <1>1, <1>2
    <2>3. writes.outcome = [r \in Requests |-> IF r = writes.pending[a] THEN o ELSE writes.outcome[r]]
        BY <1>1, <1>2, <2>1
    <2>4. QED
        BY <2>1, <2>2, <2>3 DEF TypedWrites
<1>3. CASE writes.pending[a] # 0
    <2>1. Resolved(writes, a, o) =
            [writes EXCEPT !.pending[a] = 0, !.outcome[writes.pending[a]] = o]
        BY <1>3 DEF Resolved
    <2>2. Resolved(writes, a, o) =
            [pending |-> [writes.pending EXCEPT ![a] = 0],
             outcome |-> [writes.outcome EXCEPT ![writes.pending[a]] = o],
             addr |-> writes.addr]
        BY <1>1, <2>1
    <2>3. /\ [writes.pending EXCEPT ![a] = 0] \in [Addrs -> 0 .. MaxRequests]
          /\ [writes.outcome EXCEPT ![writes.pending[a]] = o] \in [Requests -> Outcomes \cup {None}]
        BY <1>1
    <2>4. [writes.outcome EXCEPT ![writes.pending[a]] = o] =
            [r \in Requests |-> IF r = writes.pending[a] THEN o ELSE writes.outcome[r]]
        BY <1>1
    <2>5. Resolved(writes, a, o) \in Records
        BY <1>1, <2>2, <2>3 DEF Records
    <2>6. QED
        BY <2>2, <2>4, <2>5
<1>4. QED
    BY <1>2, <1>3

LEMMA ResolvedTyped ==
    ASSUME TypedWrites, NEW a \in Addrs, NEW o \in Outcomes, writes' = Resolved(writes, a, o)
    PROVE  TypedWrites'
<1>1. writes' \in Records
    BY ResolvedIs
<1>2. \A x \in Addrs : writes'.pending[x] = IF x = a THEN 0 ELSE writes.pending[x]
    <2>1. writes'.pending = [writes.pending EXCEPT ![a] = 0]
        BY ResolvedIs
    <2>2. writes.pending \in [Addrs -> 0 .. MaxRequests]
        BY WritesAre
    <2>3. QED
        BY <2>1, <2>2
<1>6. \A r \in Requests : writes'.outcome[r] = IF r = writes.pending[a] THEN o ELSE writes.outcome[r]
    <2>1. writes'.outcome = [r \in Requests |-> IF r = writes.pending[a] THEN o ELSE writes.outcome[r]]
        BY ResolvedIs
    <2>2. QED
        BY <2>1
<1>3. ASSUME NEW x \in Addrs, writes'.pending[x] # 0
      PROVE  writes'.outcome[writes'.pending[x]] = "waiting"
    <2>1. x # a /\ writes'.pending[x] = writes.pending[x] /\ writes.pending[x] \in Requests
        BY <1>2, <1>3, WritesAre
    <2>2. writes.pending[x] # writes.pending[a]
        BY <1>3, <2>1 DEF TypedWrites
    <2>3. writes'.outcome[writes.pending[x]] = writes.outcome[writes.pending[x]]
        BY <1>6, <2>1, <2>2
    <2>4. QED
        BY <1>3, <2>1, <2>3 DEF TypedWrites
<1>4. \A x, y \in Addrs : writes'.pending[x] # 0 /\ writes'.pending[x] = writes'.pending[y] => x = y
    BY <1>2 DEF TypedWrites
<1>5. QED
    BY <1>1, <1>3, <1>4 DEF TypedWrites

LEMMA ReceiveIs ==
    ASSUME Typed, Receive
    PROVE  /\ page.sock = "open" /\ toClient # <<>> /\ Head(toClient) \in Event
           /\ toClient' = Tail(toClient) /\ toClient' \in Seq(Event)
           /\ UNCHANGED <<time, server, session, toServer>>
           /\ \/ Head(toClient).e = "hello" /\ Hello(Head(toClient))
              \/ Head(toClient).e = "d" /\ Data(Head(toClient))
              \/ Head(toClient).e = "set" /\ SetAnswer(Head(toClient))
<1>1. toClient \in Seq(Event) /\ toClient # <<>> /\ toClient' = Tail(toClient)
    BY DEF Typed, Receive
<1>2. Head(toClient) \in Event /\ toClient' \in Seq(Event)
    BY <1>1
<1>3. QED
    BY <1>1, <1>2 DEF Receive, IsOpen

LEMMA HelloIs ==
    ASSUME Typed, NEW m \in Event, m.e = "hello", Hello(m)
    PROVE  /\ TypedPage' /\ page'.hello = m.now /\ page'.sock = page.sock
           /\ page'.running = page.running /\ UNCHANGED <<writes, log>>
           /\ m.now \in Nat /\ m.life \in 1 .. MaxLives
           /\ Purged(m.now) => chans' = Emptied
           /\ ~Purged(m.now) => chans' = chans
<1>1. m.now \in Nat /\ m.life \in 1 .. MaxLives
    BY DEF Event
<1>2. page' = [page EXCEPT !.settled = TRUE, !.hello = m.now,
                            !.source = IF page.source = "choosing" THEN "ws" ELSE page.source]
    BY DEF Hello
<1>3. TypedPage' /\ page'.hello = m.now /\ page'.sock = page.sock /\ page'.running = page.running
    BY <1>1, <1>2 DEF Typed, TypedPage
<1>4. QED
    BY <1>1, <1>3 DEF Hello

LEMMA ReceiveTyped == ASSUME Typed, Receive PROVE Typed'
<1> DEFINE m == Head(toClient)
<1>1. TypedServer' /\ toServer' \in Seq(Command) /\ toClient' \in Seq(Event) /\ m \in Event
    BY ReceiveIs DEF Typed, TypedServer
<1> HIDE DEF m
<1>2. CASE m.e = "hello" /\ Hello(m)
    <2>1. TypedPage' /\ UNCHANGED writes /\ (chans' = Emptied \/ chans' = chans)
        BY <1>1, <1>2, HelloIs
    <2>2. TypedChans'
        BY <2>1, EmptiedIs DEF Typed, TypedChans
    <2>3. TypedWrites'
        BY <2>1 DEF Typed, TypedWrites
    <2>4. QED
        BY <1>1, <2>1, <2>2, <2>3 DEF Typed
<1>3. CASE m.e = "d" /\ Data(m)
    <2>1. UNCHANGED <<page, writes>>
        BY <1>3 DEF Data
    <2>2. ASSUME NEW a \in Addrs
          PROVE  chans'[a].ts \in Ordered /\ (chans[a].refs = 0 => chans'[a].ts = <<>>)
        <3>1. chans[a] \in [refs : 0 .. MaxRefs, ts : Ordered]
            BY DEF Typed, TypedChans
        <3>2. chans[a].refs = 0 => a \notin Held /\ chans[a].ts = <<>>
            BY DEF Held, Typed, TypedChans
        <3>3. QED
            BY <1>1, <1>3, <3>1, <3>2, DataIs
    <2>3. chans' = [a \in Addrs |-> [refs |-> chans[a].refs, ts |-> chans'[a].ts]]
        BY <1>1, <1>3, DataIs
    <2>4. \A a \in Addrs : chans[a].refs \in 0 .. MaxRefs
        BY DEF Typed, TypedChans
    <2>5. TypedChans'
        <3>1. chans' \in [Addrs -> [refs : 0 .. MaxRefs, ts : Ordered]]
            BY <2>2, <2>3, <2>4
        <3>2. \A a \in Addrs : chans'[a].refs = chans[a].refs
            BY <2>3
        <3>3. QED
            BY <2>2, <3>1, <3>2 DEF TypedChans
    <2>6. QED
        BY <1>1, <2>1, <2>5 DEF Typed, TypedPage, TypedWrites
<1>4. CASE m.e = "set" /\ SetAnswer(m)
    <2>1. UNCHANGED <<page, chans>> /\ m.addr \in Addrs
        BY <1>1, <1>4 DEF SetAnswer, Event
    <2>2. PICK o \in Outcomes : writes' = Resolved(writes, m.addr, o)
        BY <1>4 DEF SetAnswer, Outcomes
    <2>3. TypedWrites'
        BY <2>1, <2>2, ResolvedTyped DEF Typed
    <2>4. QED
        BY <1>1, <2>1, <2>3 DEF Typed, TypedPage, TypedChans
<1>5. QED
    BY <1>2, <1>3, <1>4, ReceiveIs DEF m

\* A frame handed to the socket.
Sent(m) == toServer' = toServer \/ toServer' = Append(toServer, m)

\* A write: the request before it, if one waits, is replaced.
Asked(a, id) ==
    /\ writes.outcome[id] = None /\ \A r \in 1 .. id - 1 : writes.outcome[r] # None
    /\ writes' \in Records
    /\ \A x \in Addrs : writes'.pending[x] = IF x = a THEN id ELSE writes.pending[x]
    /\ \A r \in Requests :
         /\ writes'.outcome[r] = IF r = id THEN "waiting"
                                 ELSE IF r = writes.pending[a] THEN "replaced" ELSE writes.outcome[r]
         /\ writes'.addr[r] = IF r = id THEN a ELSE writes.addr[r]
    /\ toServer' = (IF session.live = TRUE
                    THEN Append(toServer, [c |-> "set", addr |-> a, id |-> id]) ELSE toServer)
    /\ [c |-> "set", addr |-> a, id |-> id] \in Command
    /\ UNCHANGED <<time, server, session, toClient, page, chans, log>>

LEMMA WriteIs ==
    ASSUME Typed, NEW a \in Addrs, Write(a)
    PROVE  \E id \in Requests : Asked(a, id)
<1>1. PICK id \in Requests :
       /\ writes.outcome[id] = None
       /\ \A r \in 1 .. id - 1 : writes.outcome[r] # None
       /\ writes' = [Resolved(writes, a, "replaced") EXCEPT !.pending[a] = id,
                                                            !.outcome[id] = "waiting",
                                                            !.addr[id] = a]
       /\ Send([c |-> "set", addr |-> a, id |-> id])
    BY DEF Write
<1> DEFINE w == Resolved(writes, a, "replaced")
<1>2. /\ w \in Records /\ w.addr = writes.addr
      /\ w.pending = [writes.pending EXCEPT ![a] = 0]
      /\ w.outcome = [r \in Requests |-> IF r = writes.pending[a] THEN "replaced" ELSE writes.outcome[r]]
    <2>1. "replaced" \in Outcomes /\ TypedWrites
        BY DEF Outcomes, Typed
    <2> HIDE DEF w
    <2>2. QED
        BY <2>1, ResolvedIs DEF w
<1> HIDE DEF w
<1>3. writes' = [pending |-> [w.pending EXCEPT ![a] = id], outcome |-> [w.outcome EXCEPT ![id] = "waiting"],
                 addr |-> [w.addr EXCEPT ![id] = a]]
    BY <1>1, <1>2 DEF w, Records
<1>4. id \in 0 .. MaxRequests /\ "waiting" \in Outcomes
    BY Given DEF Requests, Outcomes
<1>5. /\ writes.pending \in [Addrs -> 0 .. MaxRequests]
      /\ writes.addr \in [Requests -> Addrs \cup {None}]
      /\ w.outcome \in [Requests -> Outcomes \cup {None}]
    BY <1>2, WritesAre DEF Typed, Records
<1>6. writes' \in Records
    BY <1>2, <1>3, <1>4, <1>5 DEF Records
<1>7. \A x \in Addrs : writes'.pending[x] = IF x = a THEN id ELSE writes.pending[x]
    BY <1>2, <1>3, <1>5
<1>8. \A r \in Requests : writes'.outcome[r] =
         IF r = id THEN "waiting" ELSE IF r = writes.pending[a] THEN "replaced" ELSE writes.outcome[r]
    BY <1>2, <1>3
<1>9. \A r \in Requests : writes'.addr[r] = IF r = id THEN a ELSE writes.addr[r]
    BY <1>2, <1>3, <1>5
<1>10. toServer' = IF session.live = TRUE
                   THEN Append(toServer, [c |-> "set", addr |-> a, id |-> id]) ELSE toServer
    BY <1>1 DEF Send, Typed, TypedServer
<1>11. [c |-> "set", addr |-> a, id |-> id] \in Command
    BY DEF Command
<1>12. UNCHANGED <<time, server, session, toClient, page, chans, log>>
    BY DEF Write
<1>13. Asked(a, id)
    BY <1>1, <1>6, <1>7, <1>8, <1>9, <1>10, <1>11, <1>12 DEF Asked
<1>14. QED
    BY <1>13

\* What the operator does, and the timers of the page.
LEMMA CallTyped ==
    ASSUME Typed, NEW a \in Addrs, Subscribe(a) \/ Unsubscribe(a)
    PROVE  Typed'
<1>1. UNCHANGED <<time, server, session, toClient, page, writes>>
    BY DEF Subscribe, Unsubscribe
<1>2. TypedServer' /\ TypedPage' /\ TypedWrites'
    BY <1>1 DEF Typed, TypedServer, TypedPage, TypedWrites
<1>3. \E m \in Command : Sent(m)
    <2>1. /\ [c |-> "sub", addr |-> a] \in Command
          /\ [c |-> "unsub", addr |-> a] \in Command
        BY DEF Command
    <2>2. CASE Subscribe(a)
        <3>1. Sent([c |-> "sub", addr |-> a])
            BY <2>2 DEF Subscribe, Send, Sent
        <3>2. QED
            BY <2>1, <3>1
    <2>3. CASE Unsubscribe(a)
        <3>1. Sent([c |-> "unsub", addr |-> a])
            BY <2>3 DEF Unsubscribe, Send, Sent
        <3>2. QED
            BY <2>1, <3>1
    <2>4. QED
        BY <2>2, <2>3
<1>4. toServer' \in Seq(Command) /\ toClient' \in Seq(Event)
    BY <1>1, <1>3 DEF Typed, Sent
<1>5. TypedChans'
    <2>0. chans \in [Addrs -> [refs : 0 .. MaxRefs, ts : Ordered]] /\ chans[a].refs \in 0 .. MaxRefs
        BY DEF Typed, TypedChans
    <2>1. CASE Subscribe(a)
        <3>1. chans' = [chans EXCEPT ![a].refs = chans[a].refs + 1] /\ chans[a].refs + 1 \in 1 .. MaxRefs
            BY <2>0, <2>1, Given DEF Subscribe
        <3>2. chans[a].refs + 1 \in 0 .. MaxRefs /\ chans[a].refs + 1 # 0
            BY <2>0, <3>1, Given
        <3>3. \A x \in Addrs : chans'[x] = IF x = a THEN [chans[a] EXCEPT !.refs = chans[a].refs + 1] ELSE chans[x]
            BY <2>0, <3>1
        <3>4. [chans[a] EXCEPT !.refs = chans[a].refs + 1] \in [refs : 0 .. MaxRefs, ts : Ordered]
            BY <2>0, <3>2
        <3>5. chans' \in [Addrs -> [refs : 0 .. MaxRefs, ts : Ordered]]
            BY <2>0, <3>1, <3>4
        <3>6. ASSUME NEW x \in Addrs, chans'[x].refs = 0 PROVE chans'[x].ts = <<>>
            <4>1. x # a
                BY <2>0, <3>2, <3>3, <3>6
            <4>2. QED
                BY <3>3, <3>6, <4>1 DEF TypedChans, Typed
        <3>7. QED
            BY <3>5, <3>6 DEF TypedChans
    <2>2. CASE Unsubscribe(a)
        <3>1. chans[a].refs - 1 \in 0 .. MaxRefs /\ <<>> \in Ordered
            BY <2>0, <2>2, Given, SMTT(30) DEF Unsubscribe, Ordered, InOrder
        <3>2. chans' = [chans EXCEPT ![a] = IF chans[a].refs - 1 = 0 THEN [refs |-> 0, ts |-> <<>>]
                                            ELSE [chans[a] EXCEPT !.refs = chans[a].refs - 1]]
            BY <2>2 DEF Unsubscribe
        <3>3. QED
            BY <2>0, <3>1, <3>2, Given DEF TypedChans, Typed
    <2>3. QED
        BY <2>1, <2>2
<1>6. QED
    BY <1>2, <1>4, <1>5 DEF Typed

LEMMA WriteTyped ==
    ASSUME Typed, NEW a \in Addrs, Write(a) \/ WriteTimeout(a)
    PROVE  Typed'
<1>1. CASE Write(a)
    <2>0. PICK id \in Requests : Asked(a, id)
        BY <1>1, WriteIs
    <2>1. /\ writes.outcome[id] = None /\ writes' \in Records
          /\ \A x \in Addrs : writes'.pending[x] = IF x = a THEN id ELSE writes.pending[x]
          /\ \A r \in Requests : writes'.outcome[r] =
               IF r = id THEN "waiting" ELSE IF r = writes.pending[a] THEN "replaced" ELSE writes.outcome[r]
          /\ Sent([c |-> "set", addr |-> a, id |-> id])
          /\ [c |-> "set", addr |-> a, id |-> id] \in Command
          /\ UNCHANGED <<time, server, session, toClient, page, chans, log>>
        BY <2>0 DEF Asked, Sent
    <2>2. ASSUME NEW x \in Addrs, x # a, writes.pending[x] # 0
          PROVE  /\ writes.pending[x] \in Requests /\ writes.pending[x] # id
                 /\ writes.pending[x] # writes.pending[a]
        <3>1. writes.pending[x] \in Requests /\ writes.outcome[writes.pending[x]] = "waiting"
            BY <2>2, WritesAre DEF Typed, TypedWrites
        <3>2. writes.pending[x] # id
            BY <2>1, <3>1, Given DEF Outcomes
        <3>3. writes.pending[x] # writes.pending[a]
            BY <2>2 DEF Typed, TypedWrites
        <3>4. QED
            BY <3>1, <3>2, <3>3
    <2>3. TypedWrites'
        <3>1. ASSUME NEW x \in Addrs, writes'.pending[x] # 0
              PROVE  writes'.outcome[writes'.pending[x]] = "waiting"
            <4>1. CASE x = a
                BY <2>1, <4>1
            <4>2. CASE x # a
                <5>1. writes'.pending[x] = writes.pending[x] /\ writes.pending[x] # 0
                    BY <2>1, <3>1, <4>2
                <5>2. writes.outcome[writes.pending[x]] = "waiting"
                    BY <5>1 DEF Typed, TypedWrites
                <5>3. QED
                    BY <2>1, <2>2, <4>2, <5>1, <5>2
            <4>3. QED
                BY <4>1, <4>2
        <3>2. ASSUME NEW x \in Addrs, NEW y \in Addrs,
                     writes'.pending[x] # 0, writes'.pending[x] = writes'.pending[y]
              PROVE  x = y
            BY <2>1, <2>2, <3>2 DEF Typed, TypedWrites
        <3>3. QED
            BY <2>1, <3>1, <3>2 DEF TypedWrites
    <2>4. toServer' \in Seq(Command)
        BY <2>1, SMTT(30) DEF Typed, Sent
    <2>5. QED
        BY <2>1, <2>3, <2>4 DEF Typed, TypedServer, TypedPage, TypedChans
<1>2. CASE WriteTimeout(a)
    <2>1. UNCHANGED <<time, server, session, toServer, toClient, page, chans>>
        BY <1>2 DEF WriteTimeout, network
    <2>2. writes' = Resolved(writes, a, "late") /\ "late" \in Outcomes
        BY <1>2 DEF WriteTimeout, Outcomes
    <2>3. TypedWrites'
        BY <2>2, ResolvedTyped DEF Typed
    <2>4. QED
        BY <2>1, <2>3 DEF Typed, TypedServer, TypedPage, TypedChans
<1>3. QED
    BY <1>1, <1>2

LEMMA PageTyped ==
    ASSUME Typed, Stop \/ Start \/ LogEnable \/ LogDisable \/ LogTick
    PROVE  Typed'
<1>1. UNCHANGED <<time, server, session, toServer, toClient, writes>>
    BY DEF Stop, Start, LogEnable, LogDisable, LogTick, network
<1>2. TypedServer' /\ TypedWrites' /\ toServer' \in Seq(Command) /\ toClient' \in Seq(Event)
    BY <1>1 DEF Typed, TypedServer, TypedWrites
<1>3. TypedPage'
    <2>1. \/ page' = page
          \/ page' = [page EXCEPT !.running = TRUE]
          \/ page' = [page EXCEPT !.running = FALSE]
        BY DEF Stop, Start, LogEnable, LogDisable, LogTick
    <2>2. QED
        BY <2>1 DEF Typed, TypedPage
<1>4. TypedChans'
    <2>1. chans' = chans \/ chans' = Emptied
        BY DEF Stop, Start, LogEnable, LogDisable, LogTick
    <2>2. QED
        BY <2>1, EmptiedIs DEF Typed, TypedChans
<1>5. QED
    BY <1>2, <1>3, <1>4 DEF Typed

\* The actions of a step.
LEMMA Steps ==
    ASSUME [Next]_vars
    PROVE  \/ Serve \/ Flush \/ Open \/ Receive
           \/ Cut \/ Crash \/ Reboot \/ Tick \/ Probe \/ Reconnect \/ GiveUp \/ Refused \/ Dropped
           \/ \E a \in Addrs : Subscribe(a) \/ Unsubscribe(a)
           \/ \E a \in Addrs : Write(a) \/ WriteTimeout(a)
           \/ Stop \/ Start \/ LogEnable \/ LogDisable \/ LogTick
           \/ UNCHANGED vars
    BY DEF Next, System, Environment

LEMMA StepTyped == ASSUME Typed, [Next]_vars PROVE Typed'
<1>1. CASE UNCHANGED vars
    BY <1>1 DEF vars, network, Typed, TypedServer, TypedPage, TypedChans, TypedWrites
<1>2. QED
    BY <1>1, Steps, ServeTyped, FlushTyped, OpenTyped, ReceiveTyped, NetTyped, CallTyped,
       WriteTyped, PageTyped

LEMMA InitTyped == ASSUME Init PROVE Typed
<1>1. <<>> \in Ordered /\ <<>> \in Seq(Command) /\ <<>> \in Seq(Event)
    BY DEF Ordered, InOrder
<1>2. TypedServer
    BY NoSessionIs, Given DEF Init, TypedServer
<1>3. TypedPage
    BY DEF Init, TypedPage
<1>4. TypedChans
    BY <1>1, Given DEF Init, TypedChans
<1>5. TypedWrites
    BY Given DEF Init, TypedWrites, Records
<1>6. QED
    BY <1>1, <1>2, <1>3, <1>4, <1>5 DEF Init, Typed

LEMMA AlwaysTyped == Spec => []Typed
<1>1. Init => Typed
    BY InitTyped
<1>2. Typed /\ [Next]_vars => Typed'
    BY StepTyped
<1>3. QED
    BY <1>1, <1>2, PTL DEF Spec

-----------------------------------------------------------------------------
(* Writes.  At most one message of an address, the request or its answer,  *)
(* is under way, and it is that of the request that waits, until a request *)
(* of that address is given up.                                            *)

To(a, q)   == {i \in 1 .. Len(q) : q[i].c = "set" /\ q[i].addr = a}
From(a, q) == {i \in 1 .. Len(q) : q[i].e = "set" /\ q[i].addr = a}

GivenUp == {"replaced", "late"}

Spoiled(a) == \E q \in Requests :
    /\ writes.addr[q] = a /\ writes.outcome[q] \in GivenUp
    /\ writes.pending[a] # 0 => q < writes.pending[a]

Matched(a) ==
    /\ \A i, j \in To(a, toServer) : i = j
    /\ \A i, j \in From(a, toClient) : i = j
    /\ To(a, toServer) = {} \/ From(a, toClient) = {}
    /\ \A i \in To(a, toServer) : toServer[i].id = writes.pending[a]
    /\ \A i \in From(a, toClient) :
         /\ writes.pending[a] # 0
         /\ toClient[i].ok = TRUE => writes.pending[a] \in server.done

Issued ==
    /\ \A q, r \in Requests : q < r /\ writes.outcome[r] # None => writes.outcome[q] # None
    /\ \A a \in Addrs : writes.pending[a] # 0 => writes.addr[writes.pending[a]] = a

Confirmed == Issued /\ (\A a \in Addrs : Spoiled(a) \/ Matched(a)) /\ ConfirmedWasDone

\* Nothing new of an address in a queue.
KeptTo(a, u, q)   == \E d \in {0, 1} : \A i \in To(a, u) : i + d \in To(a, q) /\ u[i] = q[i + d]
KeptFrom(a, u, q) == \E d \in {0, 1} : \A i \in From(a, u) : i + d \in From(a, q) /\ u[i] = q[i + d]

LEMMA QueueKept ==
    ASSUME NEW a \in Addrs
    PROVE  /\ \A q \in Seq(Command) : KeptTo(a, q, q) /\ KeptTo(a, <<>>, q)
           /\ \A q \in Seq(Event) : KeptFrom(a, q, q) /\ KeptFrom(a, <<>>, q)
           /\ \A q \in Seq(Command) : q # <<>> => KeptTo(a, Tail(q), q)
           /\ \A q \in Seq(Event) : q # <<>> => KeptFrom(a, Tail(q), q)
           /\ \A q \in Seq(Command), m \in Command :
                ~ (m.c = "set" /\ m.addr = a) => KeptTo(a, Append(q, m), q)
           /\ \A q \in Seq(Event), m \in Event :
                ~ (m.e = "set" /\ m.addr = a) => KeptFrom(a, Append(q, m), q)
<1>1. ASSUME NEW q \in Seq(Command)
      PROVE  /\ KeptTo(a, q, q) /\ KeptTo(a, <<>>, q)
             /\ q # <<>> => KeptTo(a, Tail(q), q)
             /\ \A m \in Command : ~ (m.c = "set" /\ m.addr = a) => KeptTo(a, Append(q, m), q)
    <2>1. \A i \in To(a, q) : i + 0 \in To(a, q) /\ q[i] = q[i + 0]
        BY DEF To
    <2>2. \A i \in To(a, <<>>) : i + 0 \in To(a, q) /\ <<>>[i] = q[i + 0]
        BY DEF To
    <2>3. ASSUME q # <<>>, NEW i \in To(a, Tail(q)) PROVE i + 1 \in To(a, q) /\ Tail(q)[i] = q[i + 1]
        <3>1. /\ i \in 1 .. Len(Tail(q)) /\ Tail(q)[i].c = "set" /\ Tail(q)[i].addr = a
              /\ Len(Tail(q)) = Len(q) - 1
            BY <2>3 DEF To
        <3>2. Tail(q)[i] = q[i + 1] /\ i + 1 \in 1 .. Len(q)
            BY <2>3, <3>1
        <3>3. QED
            BY <3>1, <3>2 DEF To
    <2>4. ASSUME NEW m \in Command, ~ (m.c = "set" /\ m.addr = a), NEW i \in To(a, Append(q, m))
          PROVE  i + 0 \in To(a, q) /\ Append(q, m)[i] = q[i + 0]
        <3> DEFINE u == Append(q, m)
        <3>0. Len(u) = Len(q) + 1 /\ u[Len(q) + 1] = m /\ \A k \in 1 .. Len(q) : u[k] = q[k]
            OBVIOUS
        <3> HIDE DEF u
        <3>1. i \in 1 .. Len(u) /\ u[i].c = "set" /\ u[i].addr = a
            BY <2>4 DEF To, u
        <3>2. i # Len(q) + 1
            BY <2>4, <3>0, <3>1
        <3>3. i \in 1 .. Len(q) /\ u[i] = q[i] /\ i + 0 = i
            BY <3>0, <3>1, <3>2
        <3>4. QED
            BY <3>1, <3>3 DEF To, u
    <2>5. QED
        BY <2>1, <2>2, <2>3, <2>4 DEF KeptTo
<1>2. ASSUME NEW q \in Seq(Event)
      PROVE  /\ KeptFrom(a, q, q) /\ KeptFrom(a, <<>>, q)
             /\ q # <<>> => KeptFrom(a, Tail(q), q)
             /\ \A m \in Event : ~ (m.e = "set" /\ m.addr = a) => KeptFrom(a, Append(q, m), q)
    <2>1. \A i \in From(a, q) : i + 0 \in From(a, q) /\ q[i] = q[i + 0]
        BY DEF From
    <2>2. \A i \in From(a, <<>>) : i + 0 \in From(a, q) /\ <<>>[i] = q[i + 0]
        BY DEF From
    <2>3. ASSUME q # <<>>, NEW i \in From(a, Tail(q)) PROVE i + 1 \in From(a, q) /\ Tail(q)[i] = q[i + 1]
        <3>1. /\ i \in 1 .. Len(Tail(q)) /\ Tail(q)[i].e = "set" /\ Tail(q)[i].addr = a
              /\ Len(Tail(q)) = Len(q) - 1
            BY <2>3 DEF From
        <3>2. Tail(q)[i] = q[i + 1] /\ i + 1 \in 1 .. Len(q)
            BY <2>3, <3>1
        <3>3. QED
            BY <3>1, <3>2 DEF From
    <2>4. ASSUME NEW m \in Event, ~ (m.e = "set" /\ m.addr = a), NEW i \in From(a, Append(q, m))
          PROVE  i + 0 \in From(a, q) /\ Append(q, m)[i] = q[i + 0]
        <3> DEFINE u == Append(q, m)
        <3>0. Len(u) = Len(q) + 1 /\ u[Len(q) + 1] = m /\ \A k \in 1 .. Len(q) : u[k] = q[k]
            OBVIOUS
        <3> HIDE DEF u
        <3>1. i \in 1 .. Len(u) /\ u[i].e = "set" /\ u[i].addr = a
            BY <2>4 DEF From, u
        <3>2. i # Len(q) + 1
            BY <2>4, <3>0, <3>1
        <3>3. i \in 1 .. Len(q) /\ u[i] = q[i] /\ i + 0 = i
            BY <3>0, <3>1, <3>2
        <3>4. QED
            BY <3>1, <3>3 DEF From, u
    <2>5. QED
        BY <2>1, <2>2, <2>3, <2>4 DEF KeptFrom
<1>3. QED
    BY <1>1, <1>2

\* An address of which nothing new is under way stays matched.
LEMMA StillMatched ==
    ASSUME NEW a \in Addrs, Matched(a), KeptTo(a, toServer', toServer), KeptFrom(a, toClient', toClient),
           writes'.pending[a] = writes.pending[a], server.done \subseteq server'.done
    PROVE  Matched(a)'
<1>1. PICK d \in {0, 1} : \A i \in To(a, toServer') : i + d \in To(a, toServer) /\ toServer'[i] = toServer[i + d]
    BY DEF KeptTo
<1>2. PICK e \in {0, 1} : \A i \in From(a, toClient') : i + e \in From(a, toClient) /\ toClient'[i] = toClient[i + e]
    BY DEF KeptFrom
<1>3. \A i, j \in To(a, toServer') : i = j
    <2>1. \A i \in To(a, toServer') : i \in Int
        BY DEF To
    <2>2. ASSUME NEW i \in To(a, toServer'), NEW j \in To(a, toServer') PROVE i = j
        <3>1. i + d \in To(a, toServer) /\ j + d \in To(a, toServer)
            BY <1>1
        <3>2. i + d = j + d
            BY <3>1 DEF Matched
        <3>3. i \in Int /\ j \in Int /\ d \in Int
            BY <2>1
        <3>4. QED
            BY <3>2, <3>3
    <2>3. QED
        BY <2>2
<1>4. \A i, j \in From(a, toClient') : i = j
    <2>1. \A i \in From(a, toClient') : i \in Int
        BY DEF From
    <2>2. ASSUME NEW i \in From(a, toClient'), NEW j \in From(a, toClient') PROVE i = j
        <3>1. i + e \in From(a, toClient) /\ j + e \in From(a, toClient)
            BY <1>2
        <3>2. i + e = j + e
            BY <3>1 DEF Matched
        <3>3. i \in Int /\ j \in Int /\ e \in Int
            BY <2>1
        <3>4. QED
            BY <3>2, <3>3
    <2>3. QED
        BY <2>2
<1>5. To(a, toServer') = {} \/ From(a, toClient') = {}
    BY <1>1, <1>2 DEF Matched
<1>6. \A i \in To(a, toServer') : toServer'[i].id = writes'.pending[a]
    BY <1>1 DEF Matched
<1>7. \A i \in From(a, toClient') :
         /\ writes'.pending[a] # 0
         /\ toClient'[i].ok = TRUE => writes'.pending[a] \in server'.done
    BY <1>2 DEF Matched
<1>8. QED
    BY <1>3, <1>4, <1>5, <1>6, <1>7 DEF Matched

\* Steps by which no write moves.
LEMMA OthersKeepConfirmed ==
    ASSUME Typed, Confirmed, writes' = writes, server.done \subseteq server'.done,
           \A a \in Addrs : KeptTo(a, toServer', toServer) /\ KeptFrom(a, toClient', toClient)
    PROVE  Confirmed'
<1>1. Issued'
    BY DEF Confirmed, Issued
<1>2. ASSUME NEW a \in Addrs PROVE Spoiled(a)' \/ Matched(a)'
    <2>1. CASE Spoiled(a)
        BY <2>1 DEF Spoiled
    <2>2. CASE Matched(a)
        BY <2>2, StillMatched
    <2>3. QED
        BY <2>1, <2>2 DEF Confirmed
<1>3. ConfirmedWasDone'
    BY DEF Confirmed, ConfirmedWasDone
<1>4. QED
    BY <1>1, <1>2, <1>3 DEF Confirmed

LEMMA ServeKeepsConfirmed == ASSUME Typed, Confirmed, Serve PROVE Confirmed'
<1> DEFINE m == Head(toServer)
<1>1. /\ toServer \in Seq(Command) /\ toServer # <<>> /\ toClient \in Seq(Event)
      /\ toServer' = Tail(toServer) /\ writes' = writes /\ m = toServer[1]
    BY DEF Serve, Typed
<1>2. m \in Command
    BY <1>1
<1>3. \A a \in Addrs : KeptTo(a, toServer', toServer)
    BY <1>1, QueueKept
<1>4. CASE m.c # "set"
    <2>1. UNCHANGED <<server, toClient>>
        BY <1>4 DEF Serve
    <2>2. \A a \in Addrs : KeptFrom(a, toClient', toClient)
        BY <1>1, <2>1, QueueKept
    <2>3. QED
        BY <1>1, <1>3, <2>1, <2>2, OthersKeepConfirmed
<1>5. CASE m.c = "set"
    <2>1. PICK ok \in BOOLEAN :
             /\ server' = IF ok THEN [server EXCEPT !.done = @ \cup {m.id}] ELSE server
             /\ toClient' = Append(toClient, [e |-> "set", addr |-> m.addr, ok |-> ok])
        BY <1>5 DEF Serve
    <2> DEFINE b == m.addr
               n == [e |-> "set", addr |-> b, ok |-> ok]
    <2>2. b \in Addrs /\ m.id \in Requests /\ n \in Event
        BY <1>2, <1>5 DEF Command, Event
    <2>3. server.done \subseteq server'.done /\ (ok = TRUE => m.id \in server'.done)
        BY <2>1 DEF Typed, TypedServer
    <2>4. Issued' /\ ConfirmedWasDone'
        BY <1>1, <2>3 DEF Confirmed, Issued, ConfirmedWasDone
    <2>5. ASSUME NEW a \in Addrs PROVE Spoiled(a)' \/ Matched(a)'
        <3>1. CASE Spoiled(a)
            BY <1>1, <3>1 DEF Spoiled
        <3>2. CASE Matched(a) /\ a # b
            <4>1. KeptFrom(a, toClient', toClient)
                BY <1>1, <2>1, <2>2, <3>2, QueueKept
            <4>2. QED
                BY <1>1, <1>3, <2>3, <3>2, <4>1, StillMatched
        <3>3. CASE Matched(a) /\ a = b
            <4>1. 1 \in To(a, toServer)
                BY <1>1, <1>5, <3>3 DEF To
            <4>2. writes.pending[a] = m.id /\ m.id # 0 /\ From(a, toClient) = {}
                BY <1>1, <2>2, <3>3, <4>1 DEF Matched, Requests
            <4>3. To(a, toServer') = {}
                <5>1. ASSUME NEW i \in To(a, toServer') PROVE FALSE
                    <6>1. i \in 1 .. Len(Tail(toServer)) /\ Len(Tail(toServer)) = Len(toServer) - 1
                        BY <1>1, <5>1 DEF To
                    <6>2. Tail(toServer)[i] = toServer[i + 1] /\ i + 1 \in 1 .. Len(toServer) /\ i + 1 # 1
                        BY <1>1, <6>1
                    <6>3. i + 1 \in To(a, toServer)
                        BY <1>1, <5>1, <6>2 DEF To
                    <6>4. QED
                        BY <3>3, <4>1, <6>2, <6>3 DEF Matched
                <5>2. QED
                    BY <5>1
            <4>4. ASSUME NEW i \in From(a, toClient') PROVE i = Len(toClient) + 1 /\ toClient'[i] = n
                <5>1. Len(toClient') = Len(toClient) + 1 /\ toClient'[Len(toClient) + 1] = n
                    BY <1>1, <2>1, <2>2
                <5>2. \A k \in 1 .. Len(toClient) : toClient'[k] = toClient[k]
                    BY <1>1, <2>1, <2>2
                <5>3. i \notin 1 .. Len(toClient)
                    BY <4>2, <4>4, <5>2 DEF From
                <5>4. i \in 1 .. Len(toClient) + 1
                    BY <4>4, <5>1 DEF From
                <5>5. i = Len(toClient) + 1
                    BY <1>1, <5>3, <5>4
                <5>6. QED
                    BY <5>1, <5>5
            <4>5. \A i \in From(a, toClient') :
                     /\ writes'.pending[a] # 0
                     /\ toClient'[i].ok = TRUE => writes'.pending[a] \in server'.done
                BY <1>1, <2>3, <4>2, <4>4
            <4>6. Matched(a)'
                BY <4>3, <4>4, <4>5 DEF Matched
            <4>7. QED
                BY <4>6
        <3>4. QED
            BY <3>1, <3>2, <3>3 DEF Confirmed
    <2>6. QED
        BY <2>4, <2>5 DEF Confirmed
<1>6. QED
    BY <1>4, <1>5

LEMMA WriteKeepsConfirmed ==
    ASSUME Typed, Confirmed, NEW b \in Addrs, Write(b)
    PROVE  Confirmed'
<1>1. PICK id \in Requests : Asked(b, id)
    BY WriteIs
<1> DEFINE n == [c |-> "set", addr |-> b, id |-> id]
<1>2. /\ writes.outcome[id] = None /\ \A r \in 1 .. id - 1 : writes.outcome[r] # None
      /\ \A x \in Addrs : writes'.pending[x] = IF x = b THEN id ELSE writes.pending[x]
      /\ \A r \in Requests :
           /\ writes'.outcome[r] = IF r = id THEN "waiting"
                                   ELSE IF r = writes.pending[b] THEN "replaced" ELSE writes.outcome[r]
           /\ writes'.addr[r] = IF r = id THEN b ELSE writes.addr[r]
      /\ toServer' = toServer \/ toServer' = Append(toServer, n)
      /\ n \in Command /\ UNCHANGED <<server, toClient>>
    BY <1>1 DEF Asked
<1>3. \A r \in Requests : writes.outcome[r] # None => r < id
    <2>1. ASSUME NEW r \in Requests, writes.outcome[r] # None PROVE r < id
        <3>1. r \in Int /\ id \in Int /\ r # id
            BY <1>2, <2>1 DEF Requests
        <3>2. ~ (id < r)
            BY <1>2, <2>1 DEF Confirmed, Issued
        <3>3. QED
            BY <3>1, <3>2
    <2>2. QED
        BY <2>1
<1>4. ASSUME NEW a \in Addrs, writes.pending[a] # 0
      PROVE  /\ writes.pending[a] \in Requests /\ writes.outcome[writes.pending[a]] = "waiting"
             /\ writes.pending[a] < id /\ writes.addr[writes.pending[a]] = a
             /\ a # b => writes.pending[a] # writes.pending[b]
    <2>1. writes.pending[a] \in Requests /\ writes.outcome[writes.pending[a]] = "waiting"
        BY <1>4, WritesAre DEF Typed, TypedWrites
    <2>2. writes.outcome[writes.pending[a]] # None
        BY <2>1, Given DEF Outcomes
    <2>3. QED
        BY <1>3, <1>4, <2>1, <2>2 DEF Typed, TypedWrites, Confirmed, Issued
<1>5. Issued'
    <2>1. ASSUME NEW q \in Requests, NEW r \in Requests, q < r, writes'.outcome[r] # None
          PROVE  writes'.outcome[q] # None
        <3>0. "waiting" # None /\ "replaced" # None
            BY Given DEF Outcomes
        <3>1. CASE r = id
            <4>1. q \in 1 .. id - 1
                BY <2>1, <3>1 DEF Requests
            <4>2. QED
                BY <1>2, <3>0, <4>1
        <3>2. CASE r # id
            <4>1. writes.outcome[r] # None
                BY <1>2, <1>4, <2>1, <3>0, <3>2 DEF Requests
            <4>2. writes.outcome[q] # None
                BY <2>1, <4>1 DEF Confirmed, Issued
            <4>3. QED
                BY <1>2, <3>0, <4>2
        <3>3. QED
            BY <3>1, <3>2
    <2>2. ASSUME NEW a \in Addrs, writes'.pending[a] # 0 PROVE writes'.addr[writes'.pending[a]] = a
        <3>1. CASE a = b
            BY <1>2, <3>1
        <3>2. CASE a # b
            <4>1. writes'.pending[a] = writes.pending[a] /\ writes.pending[a] # 0
                BY <1>2, <2>2, <3>2
            <4>2. writes.pending[a] \in Requests /\ writes.pending[a] # id /\ writes.addr[writes.pending[a]] = a
                BY <1>4, <4>1 DEF Requests
            <4>3. QED
                BY <1>2, <4>1, <4>2
        <3>3. QED
            BY <3>1, <3>2
    <2>3. QED
        BY <2>1, <2>2 DEF Issued
<1>6. \A q \in Requests : writes.outcome[q] \in GivenUp =>
         writes'.outcome[q] = writes.outcome[q] /\ writes'.addr[q] = writes.addr[q] /\ q < id
    <2>1. ASSUME NEW q \in Requests, writes.outcome[q] \in GivenUp
          PROVE  writes'.outcome[q] = writes.outcome[q] /\ writes'.addr[q] = writes.addr[q] /\ q < id
        <3>1. writes.outcome[q] # None /\ writes.outcome[q] # "waiting"
            BY <2>1, Given DEF GivenUp, Outcomes
        <3>2. q # id /\ q < id
            BY <1>2, <1>3, <3>1
        <3>3. q # writes.pending[b]
            BY <1>4, <3>1 DEF Requests
        <3>4. QED
            BY <1>2, <3>2, <3>3
    <2>2. QED
        BY <2>1
<1>7. ASSUME NEW a \in Addrs PROVE Spoiled(a)' \/ Matched(a)'
    <2>1. CASE Spoiled(a)
        <3>1. PICK q \in Requests : /\ writes.addr[q] = a /\ writes.outcome[q] \in GivenUp
                                    /\ writes.pending[a] # 0 => q < writes.pending[a]
            BY <2>1 DEF Spoiled
        <3>2. writes'.pending[a] # 0 => q < writes'.pending[a]
            BY <1>2, <1>6, <3>1
        <3>3. QED
            BY <1>6, <3>1, <3>2 DEF Spoiled
    <2>2. CASE Matched(a) /\ a # b
        <3>1. KeptTo(a, toServer', toServer) /\ KeptFrom(a, toClient', toClient)
            BY <1>2, <2>2, QueueKept DEF Typed
        <3>2. writes'.pending[a] = writes.pending[a] /\ server'.done = server.done
            BY <1>2, <2>2
        <3>3. QED
            BY <2>2, <3>1, <3>2, StillMatched
    <2>3. CASE a = b /\ writes.pending[b] # 0
        <3>1. /\ writes'.outcome[writes.pending[b]] \in GivenUp /\ writes'.addr[writes.pending[b]] = b
              /\ writes.pending[b] \in Requests /\ writes.pending[b] < writes'.pending[b]
            BY <1>2, <1>4, <2>3 DEF GivenUp, Requests
        <3>2. QED
            BY <2>3, <3>1 DEF Spoiled
    <2>4. CASE Matched(a) /\ a = b /\ writes.pending[b] = 0
        <3>1. To(a, toServer) = {} /\ From(a, toClient) = {}
            <4>1. \A i \in To(a, toServer) : toServer[i].id \in Requests
                <5>1. ASSUME NEW i \in To(a, toServer) PROVE toServer[i].id \in Requests
                    <6>1. toServer[i] \in Command /\ toServer[i].c = "set"
                        BY <5>1 DEF To, Typed
                    <6>2. QED
                        BY <6>1 DEF Command
                <5>2. QED
                    BY <5>1
            <4>2. QED
                BY <2>4, <4>1 DEF Matched, Requests
        <3>2. ASSUME NEW i \in To(a, toServer') PROVE i = Len(toServer) + 1 /\ toServer'[i] = n
            <4>1. toServer' = Append(toServer, n) /\ toServer \in Seq(Command)
                BY <1>2, <3>1, <3>2 DEF Typed
            <4>2. /\ Len(toServer') = Len(toServer) + 1 /\ toServer'[Len(toServer) + 1] = n
                  /\ \A k \in 1 .. Len(toServer) : toServer'[k] = toServer[k]
                BY <1>2, <4>1
            <4>3. i \notin 1 .. Len(toServer)
                BY <3>1, <3>2, <4>2 DEF To
            <4>4. i \in 1 .. Len(toServer) + 1
                BY <3>2, <4>2 DEF To
            <4>5. i = Len(toServer) + 1
                BY <4>1, <4>3, <4>4
            <4>6. QED
                BY <4>2, <4>5
        <3>3. From(a, toClient') = {}
            BY <1>2, <3>1
        <3>4. \A i \in To(a, toServer') : toServer'[i].id = writes'.pending[a]
            BY <1>2, <2>4, <3>2
        <3>5. QED
            BY <3>2, <3>3, <3>4 DEF Matched
    <2>5. QED
        BY <2>1, <2>2, <2>3, <2>4 DEF Confirmed
<1>8. ConfirmedWasDone'
    <2>1. ASSUME NEW r \in Requests, writes'.outcome[r] = "ok"
          PROVE  \/ r \in server'.done
                 \/ \E q \in 1 .. r - 1 : writes'.addr[q] = writes'.addr[r] /\ writes'.outcome[q] \in GivenUp
        <3>1. r # id /\ writes.outcome[r] = "ok" /\ writes'.addr[r] = writes.addr[r]
            BY <1>2, <2>1
        <3>2. CASE r \in server.done
            BY <1>2, <3>2
        <3>3. CASE r \notin server.done
            <4>1. PICK q \in 1 .. r - 1 : writes.addr[q] = writes.addr[r] /\ writes.outcome[q] \in GivenUp
                BY <3>1, <3>3 DEF Confirmed, ConfirmedWasDone, GivenUp
            <4>2. q \in Requests
                BY <4>1, Given DEF Requests
            <4>3. QED
                BY <1>6, <3>1, <4>1, <4>2
        <3>4. QED
            BY <3>2, <3>3
    <2>2. QED
        BY <2>1 DEF ConfirmedWasDone, GivenUp
<1>9. QED
    BY <1>5, <1>7, <1>8 DEF Confirmed

\* A request resolved.
LEMMA ResolvedKeeps ==
    ASSUME Typed, Confirmed, NEW b \in Addrs, NEW o \in Outcomes, writes' = Resolved(writes, b, o),
           server' = server,
           o = "ok" /\ writes.pending[b] # 0 => writes.pending[b] \in server.done \/ Spoiled(b)
    PROVE  /\ Issued' /\ ConfirmedWasDone'
           /\ \A a \in Addrs : /\ writes'.pending[a] = IF a = b THEN 0 ELSE writes.pending[a]
                               /\ Spoiled(a) => Spoiled(a)'
           /\ o \in GivenUp /\ writes.pending[b] # 0 => Spoiled(b)'
<1>0. TypedWrites
    BY DEF Typed
<1>1. /\ \A a \in Addrs : writes'.pending[a] = IF a = b THEN 0 ELSE writes.pending[a]
      /\ \A r \in Requests : /\ writes'.outcome[r] = IF r = writes.pending[b] THEN o ELSE writes.outcome[r]
                             /\ writes'.addr[r] = writes.addr[r]
    <2>1. /\ writes'.pending = [writes.pending EXCEPT ![b] = 0]
          /\ writes'.outcome = [r \in Requests |-> IF r = writes.pending[b] THEN o ELSE writes.outcome[r]]
          /\ writes'.addr = writes.addr
        BY <1>0, ResolvedIs
    <2>2. writes.pending \in [Addrs -> 0 .. MaxRequests]
        BY <1>0, WritesAre
    <2>3. QED
        BY <2>1, <2>2
<1>2. ASSUME NEW a \in Addrs, writes.pending[a] # 0
      PROVE  /\ writes.pending[a] \in Requests /\ writes.outcome[writes.pending[a]] = "waiting"
             /\ writes.addr[writes.pending[a]] = a
    BY <1>0, <1>2, WritesAre DEF TypedWrites, Confirmed, Issued
<1>3. ASSUME NEW r \in Requests, r = writes.pending[b]
      PROVE  writes.pending[b] # 0 /\ writes.outcome[r] = "waiting" /\ writes.addr[r] = b
    <2>1. writes.pending[b] # 0
        BY <1>3 DEF Requests
    <2>2. QED
        BY <1>2, <1>3, <2>1
<1>4. None # "waiting" /\ None # o /\ "waiting" \notin GivenUp /\ None \notin GivenUp /\ "waiting" # "ok"
    BY Given DEF Outcomes, GivenUp
<1>5. \A r \in Requests : writes'.outcome[r] # None <=> writes.outcome[r] # None
    BY <1>1, <1>3, <1>4
<1>6. Issued'
    <2>1. ASSUME NEW a \in Addrs, writes'.pending[a] # 0 PROVE writes'.addr[writes'.pending[a]] = a
        <3>1. writes'.pending[a] = writes.pending[a] /\ writes.pending[a] # 0
            BY <1>1, <2>1
        <3>2. QED
            BY <1>1, <1>2, <3>1
    <2>2. QED
        BY <1>5, <2>1 DEF Issued, Confirmed
<1>7. \A q \in Requests : writes.outcome[q] \in GivenUp =>
         writes'.outcome[q] = writes.outcome[q] /\ writes'.addr[q] = writes.addr[q]
    BY <1>1, <1>3, <1>4
<1>8. ASSUME NEW a \in Addrs, Spoiled(a) PROVE Spoiled(a)'
    <2>1. PICK q \in Requests : /\ writes.addr[q] = a /\ writes.outcome[q] \in GivenUp
                                /\ writes.pending[a] # 0 => q < writes.pending[a]
        BY <1>8 DEF Spoiled
    <2>2. writes'.pending[a] # 0 => q < writes'.pending[a]
        BY <1>1, <2>1
    <2>3. QED
        BY <1>7, <2>1, <2>2 DEF Spoiled
<1>9. ASSUME o \in GivenUp, writes.pending[b] # 0 PROVE Spoiled(b)'
    <2>1. /\ writes'.outcome[writes.pending[b]] \in GivenUp /\ writes'.addr[writes.pending[b]] = b
          /\ writes.pending[b] \in Requests /\ writes'.pending[b] = 0
        BY <1>1, <1>2, <1>9
    <2>2. QED
        BY <2>1 DEF Spoiled
<1>10. ASSUME NEW r \in Requests, writes'.outcome[r] = "ok"
       PROVE  \/ r \in server'.done
              \/ \E q \in 1 .. r - 1 : writes'.addr[q] = writes'.addr[r] /\ writes'.outcome[q] \in GivenUp
    <2>1. CASE r \in server.done
        BY <2>1
    <2>2. CASE r # writes.pending[b] /\ r \notin server.done
        <3>1. PICK q \in 1 .. r - 1 : writes.addr[q] = writes.addr[r] /\ writes.outcome[q] \in GivenUp
            BY <1>1, <1>10, <2>2 DEF Confirmed, ConfirmedWasDone, GivenUp
        <3>2. q \in Requests
            BY <3>1, Given DEF Requests
        <3>3. QED
            BY <1>1, <1>7, <3>1, <3>2
    <2>3. CASE r = writes.pending[b] /\ r \notin server.done
        <3>1. o = "ok" /\ writes.pending[b] # 0 /\ writes.addr[r] = b
            BY <1>1, <1>3, <1>10, <2>3
        <3>2. PICK q \in Requests : writes.addr[q] = b /\ writes.outcome[q] \in GivenUp /\ q < writes.pending[b]
            BY <2>3, <3>1 DEF Spoiled
        <3>3. q \in 1 .. r - 1
            BY <2>3, <3>2 DEF Requests
        <3>4. QED
            BY <1>1, <1>7, <3>1, <3>2, <3>3
    <2>4. QED
        BY <2>1, <2>2, <2>3
<1>11. ConfirmedWasDone'
    BY <1>10 DEF ConfirmedWasDone, GivenUp
<1>12. QED
    BY <1>1, <1>6, <1>8, <1>9, <1>11

LEMMA TimeoutKeepsConfirmed ==
    ASSUME Typed, Confirmed, NEW b \in Addrs, WriteTimeout(b)
    PROVE  Confirmed'
<1>1. /\ writes.pending[b] # 0 /\ writes' = Resolved(writes, b, "late") /\ "late" \in Outcomes
      /\ UNCHANGED <<server, toServer, toClient>> /\ "late" \in GivenUp /\ "late" # "ok"
    BY DEF WriteTimeout, network, Outcomes, GivenUp
<1>2. /\ Issued' /\ ConfirmedWasDone' /\ Spoiled(b)'
      /\ \A a \in Addrs : /\ writes'.pending[a] = IF a = b THEN 0 ELSE writes.pending[a]
                          /\ Spoiled(a) => Spoiled(a)'
    BY <1>1, ResolvedKeeps
<1>3. \A a \in Addrs : KeptTo(a, toServer', toServer) /\ KeptFrom(a, toClient', toClient)
    BY <1>1, QueueKept DEF Typed
<1>4. \A a \in Addrs : a # b /\ Matched(a) => Matched(a)'
    BY <1>1, <1>2, <1>3, StillMatched
<1>5. QED
    BY <1>2, <1>4 DEF Confirmed

LEMMA AnswerKeepsConfirmed ==
    ASSUME Typed, Confirmed, Receive, Head(toClient).e = "set", SetAnswer(Head(toClient))
    PROVE  Confirmed'
<1> DEFINE m == Head(toClient)
           b == m.addr
<1>1. /\ toClient \in Seq(Event) /\ toClient # <<>> /\ toClient' = Tail(toClient) /\ m \in Event
      /\ UNCHANGED <<server, toServer>> /\ m = toClient[1]
    BY ReceiveIs DEF Typed
<1>2. b \in Addrs /\ m.ok \in BOOLEAN
    BY <1>1 DEF Event
<1>3. PICK o \in Outcomes : writes' = Resolved(writes, b, o) /\ (o = "ok" => m.ok = TRUE)
    <2>1. CASE m.ok = TRUE
        <3>1. writes' = Resolved(writes, b, "ok") /\ "ok" \in Outcomes
            BY <2>1 DEF SetAnswer, Outcomes
        <3>2. QED
            BY <2>1, <3>1
    <2>2. CASE m.ok = FALSE
        <3>1. writes' = Resolved(writes, b, "refused") /\ "refused" \in Outcomes /\ "refused" # "ok"
            BY <2>2 DEF SetAnswer, Outcomes
        <3>2. QED
            BY <3>1
    <2>3. QED
        BY <1>2, <2>1, <2>2
<1>4. 1 \in From(b, toClient)
    BY <1>1 DEF From
<1>5. o = "ok" /\ writes.pending[b] # 0 => writes.pending[b] \in server.done \/ Spoiled(b)
    BY <1>1, <1>2, <1>3, <1>4 DEF Confirmed, Matched
<1> HIDE DEF b, m
<1>6. /\ Issued' /\ ConfirmedWasDone'
      /\ \A a \in Addrs : /\ writes'.pending[a] = IF a = b THEN 0 ELSE writes.pending[a]
                          /\ Spoiled(a) => Spoiled(a)'
    BY <1>1, <1>2, <1>3, <1>5, ResolvedKeeps
<1>7. \A a \in Addrs : KeptTo(a, toServer', toServer) /\ KeptFrom(a, toClient', toClient)
    BY <1>1, QueueKept DEF Typed
<1>8. \A a \in Addrs : a # b /\ Matched(a) => Matched(a)'
    BY <1>1, <1>6, <1>7, StillMatched
<1>9. ASSUME NEW a \in Addrs, a = b, Matched(a) PROVE Matched(a)'
    <2>1. To(a, toServer') = {}
        BY <1>1, <1>4, <1>9 DEF Matched
    <2>2. ASSUME NEW i \in From(a, toClient') PROVE FALSE
        <3>1. i \in 1 .. Len(Tail(toClient)) /\ Len(Tail(toClient)) = Len(toClient) - 1
            BY <1>1, <2>2 DEF From
        <3>2. Tail(toClient)[i] = toClient[i + 1] /\ i + 1 \in 1 .. Len(toClient) /\ i + 1 # 1
            BY <1>1, <3>1
        <3>3. i + 1 \in From(a, toClient)
            BY <1>1, <2>2, <3>2 DEF From
        <3>4. QED
            BY <1>4, <1>9, <3>2, <3>3 DEF Matched
    <2>3. QED
        BY <2>1, <2>2 DEF Matched
<1>10. QED
    BY <1>2, <1>6, <1>8, <1>9 DEF Confirmed

\* The other steps bring no write to a queue.
LEMMA OtherStepsKeepConfirmed ==
    ASSUME Typed, Confirmed, [Next]_vars, ~Serve,
           ~ (Receive /\ Head(toClient).e = "set" /\ SetAnswer(Head(toClient))),
           \A a \in Addrs : ~ Write(a) /\ ~ WriteTimeout(a)
    PROVE  Confirmed'
<1> DEFINE Quiet == /\ writes' = writes /\ server.done \subseteq server'.done
                    /\ \A a \in Addrs : KeptTo(a, toServer', toServer) /\ KeptFrom(a, toClient', toClient)
<1>0. toServer \in Seq(Command) /\ toClient \in Seq(Event)
    BY DEF Typed
<1>1. ASSUME Flush PROVE Quiet
    <2>1. PICK n \in Event : n.e = "d" /\ toClient' = Append(toClient, n)
        BY <1>1, FlushIs
    <2>2. \A a \in Addrs : KeptFrom(a, toClient', toClient)
        <3>1. n.e # "set"
            BY <2>1
        <3>2. QED
            BY <1>0, <2>1, <3>1, QueueKept
    <2>3. UNCHANGED <<server, toServer, writes>>
        BY <1>1 DEF Flush
    <2>4. QED
        BY <1>0, <2>2, <2>3, QueueKept
<1>2. ASSUME Open PROVE Quiet
    <2>1. /\ toServer' \in Seq(Command) /\ \A i \in 1 .. Len(toServer') : toServer'[i].c = "sub"
          /\ toClient' = <<[e |-> "hello", now |-> ServerNow, life |-> server.life]>>
          /\ UNCHANGED <<server, writes>>
        BY <1>2, OpenIs
    <2>2. \A a \in Addrs : To(a, toServer') = {} /\ From(a, toClient') = {}
        <3>1. \A i \in 1 .. Len(toClient') : toClient'[i].e = "hello"
            BY <2>1
        <3>2. QED
            BY <2>1, <3>1 DEF To, From
    <2>3. QED
        BY <2>1, <2>2 DEF KeptTo, KeptFrom
<1>3. ASSUME Receive PROVE Quiet
    <2>1. /\ toClient # <<>> /\ toClient' = Tail(toClient) /\ UNCHANGED <<server, toServer>>
          /\ Hello(Head(toClient)) \/ Data(Head(toClient))
        BY <1>3, ReceiveIs
    <2>2. writes' = writes
        BY <2>1 DEF Hello, Data
    <2>3. QED
        BY <1>0, <2>1, <2>2, QueueKept
<1>4. ASSUME Cut \/ Crash \/ Reboot \/ Tick \/ Probe \/ Reconnect \/ GiveUp \/ Refused \/ Dropped
      PROVE  Quiet
    <2>1. writes' = writes
        BY <1>4 DEF Cut, Crash, Reboot, Tick, Probe, Reconnect, GiveUp, Refused, Dropped, network
    <2>2. toServer' = toServer \/ toServer' = <<>>
        BY <1>4 DEF Cut, Crash, Reboot, Tick, Probe, Reconnect, GiveUp, Refused, Dropped, network
    <2>3. toClient' = toClient \/ toClient' = <<>>
        BY <1>4 DEF Cut, Crash, Reboot, Tick, Probe, Reconnect, GiveUp, Refused, Dropped, network
    <2>4. server'.done = server.done
        BY <1>4 DEF Cut, Crash, Reboot, Tick, Probe, Reconnect, GiveUp, Refused, Dropped, network,
                    Typed, TypedServer
    <2>5. QED
        BY <1>0, <2>1, <2>2, <2>3, <2>4, QueueKept
<1>5. ASSUME NEW a \in Addrs, Subscribe(a) \/ Unsubscribe(a) PROVE Quiet
    <2>1. PICK m \in Command : m.c # "set" /\ Sent(m)
        <3>1. /\ [c |-> "sub", addr |-> a] \in Command /\ [c |-> "unsub", addr |-> a] \in Command
              /\ [c |-> "sub", addr |-> a].c # "set" /\ [c |-> "unsub", addr |-> a].c # "set"
            BY DEF Command
        <3>2. Sent([c |-> "sub", addr |-> a]) \/ Sent([c |-> "unsub", addr |-> a])
            BY <1>5 DEF Subscribe, Unsubscribe, Send, Sent
        <3>3. QED
            BY <3>1, <3>2
    <2>2. UNCHANGED <<server, toClient, writes>>
        BY <1>5 DEF Subscribe, Unsubscribe
    <2>3. \A x \in Addrs : KeptTo(x, toServer', toServer)
        BY <1>0, <2>1, QueueKept DEF Sent
    <2>4. QED
        BY <1>0, <2>2, <2>3, QueueKept
<1>6. ASSUME Stop \/ Start \/ LogEnable \/ LogDisable \/ LogTick \/ UNCHANGED vars PROVE Quiet
    <2>1. UNCHANGED <<server, toServer, toClient, writes>>
        BY <1>6 DEF Stop, Start, LogEnable, LogDisable, LogTick, vars, network
    <2>2. QED
        BY <1>0, <2>1, QueueKept
<1> HIDE DEF Quiet
<1>7. Quiet
    BY <1>1, <1>2, <1>3, <1>4, <1>5, <1>6, Steps
<1>8. QED
    BY <1>7, OthersKeepConfirmed DEF Quiet

LEMMA StepConfirmed == ASSUME Typed, Confirmed, [Next]_vars PROVE Confirmed'
    BY ServeKeepsConfirmed, WriteKeepsConfirmed, TimeoutKeepsConfirmed, AnswerKeepsConfirmed,
       OtherStepsKeepConfirmed

LEMMA InitConfirmed == ASSUME Init PROVE Confirmed
<1>1. /\ \A r \in Requests : writes.outcome[r] = None
      /\ \A a \in Addrs : writes.pending[a] = 0
      /\ toServer = <<>> /\ toClient = <<>>
    BY DEF Init
<1>2. Issued
    BY <1>1 DEF Issued
<1>3. \A a \in Addrs : Matched(a)
    BY <1>1 DEF Matched, To, From
<1>4. ConfirmedWasDone
    BY <1>1, Given DEF ConfirmedWasDone, Outcomes
<1>5. QED
    BY <1>2, <1>3, <1>4 DEF Confirmed

\* A request of forcing that the page reports as done was done by the server,
\* unless an earlier request of the same address was given up.
THEOREM ConfirmationsAreTrue == Spec => []ConfirmedWasDone
<1>1. Init => Confirmed
    BY InitConfirmed
<1>2. Typed /\ Confirmed /\ [Next]_vars => Confirmed'
    BY StepConfirmed
<1>3. Confirmed => ConfirmedWasDone
    BY DEF Confirmed
<1>4. QED
    BY <1>1, <1>2, <1>3, AlwaysTyped, PTL DEF Spec

-----------------------------------------------------------------------------
(* What is held and what is under way to the page.  Conn(L) speaks of the  *)
(* life L of the server at the other end of the present connection, or of  *)
(* the last one.                                                           *)

Below(a, t, d) == t <= d + Slack \/ t <= d + Ahead[a]

AllBelow(C, d) == \A a \in Addrs : \A i \in 1 .. Len(C[a].ts) : Below(a, C[a].ts[i].t, d)

HasLife(C, l) == \E a \in Addrs : \E i \in 1 .. Len(C[a].ts) : C[a].ts[i].life = l

HelloWaits(q) == q # <<>> /\ q[1].e = "hello"

\* A hello under way, and a batch of samples under way.
HelloFits(m, L) ==
    /\ m.life = L /\ (L = server.life => m.now <= ServerNow)
    /\ HasLife(chans, L) => AllBelow(chans, m.now)

BatchFits(a, s, L) == Stepped(s) /\ \A k \in 1 .. Len(s) :
    /\ s[k].life = L /\ s[k].t >= Ahead[a]
    /\ L = server.life => s[k].t <= ServerNow + Ahead[a]

Peers(L) ==
    /\ L \in 1 .. server.life
    /\ session.live = TRUE => L = server.life /\ page.sock = "open"
    /\ page.source = "probing" => page.sock = "none" /\ page.retrying # TRUE
    /\ \A a \in Addrs : session.cursor[a] # None => session.live = TRUE
    /\ \A a \in Addrs : \A i \in 1 .. Len(chans[a].ts) :
         chans[a].ts[i].life <= L /\ chans[a].ts[i].t >= Ahead[a]

Mail(L) == \A i \in 1 .. Len(toClient) :
    /\ toClient[i].e = "hello" => i = 1 /\ HelloFits(toClient[i], L)
    /\ toClient[i].e = "d" => \A a \in Addrs : BatchFits(a, toClient[i].s[a], L)

\* Once the hello of a connection is received, what is held is either of its
\* life or no later than that hello, up to the tolerance.
Joins(ts, L) == ts = <<>> \/ ts[Len(ts)].life = L \/ ts[Len(ts)].t <= page.hello + Slack

Clocks(L) ==
    /\ HasLife(chans, server.life) => AllBelow(chans, ServerNow)
    /\ page.sock = "open" /\ ~HelloWaits(toClient) =>
         /\ \A a \in Addrs : Joins(chans[a].ts, L)
         /\ L = server.life => AllBelow(chans, ServerNow)

Conn(L) == Peers(L) /\ Mail(L) /\ Clocks(L)

Shrunk == \A a \in Addrs : chans'[a].ts = chans[a].ts \/ chans'[a].ts = <<>>

LEMMA ShrunkIs ==
    ASSUME Shrunk
    PROVE  /\ \A d : AllBelow(chans, d) => AllBelow(chans', d)
           /\ \A l : HasLife(chans', l) => HasLife(chans, l)
           /\ \A a \in Addrs : \A i \in 1 .. Len(chans'[a].ts) :
                i \in 1 .. Len(chans[a].ts) /\ chans'[a].ts[i] = chans[a].ts[i]
<1>1. \A a \in Addrs : \A i \in 1 .. Len(chans'[a].ts) :
         i \in 1 .. Len(chans[a].ts) /\ chans'[a].ts[i] = chans[a].ts[i]
    BY DEF Shrunk
<1>2. \A d : AllBelow(chans, d) => AllBelow(chans', d)
    BY <1>1 DEF AllBelow
<1>3. \A l : HasLife(chans', l) => HasLife(chans, l)
    BY <1>1 DEF HasLife
<1>4. QED
    BY <1>1, <1>2, <1>3

\* The time that a server counts only grows.
LEMMA DatesAre ==
    ASSUME NEW s \in Seq(Sample), NEW i \in 1 .. Len(s)
    PROVE  /\ s[i].t \in Nat /\ s[i].life \in 1 .. MaxLives /\ s[i].life \in Nat
           /\ s[i].step \in Nat \ {0}
<1>1. s[i] \in Sample
    OBVIOUS
<1>2. QED
    BY <1>1, Given DEF Sample

LEMMA BelowGrows ==
    ASSUME Typed, NEW d \in Nat, NEW e \in Nat, d <= e, AllBelow(chans, d)
    PROVE  AllBelow(chans, e)
<1>1. ASSUME NEW a \in Addrs, NEW i \in 1 .. Len(chans[a].ts) PROVE Below(a, chans[a].ts[i].t, e)
    <2>1. chans[a].ts \in Seq(Sample)
        BY DEF Typed, TypedChans, Ordered
    <2>2. chans[a].ts[i].t \in Nat /\ Ahead[a] \in Nat /\ Slack \in Nat
        BY <2>1, DatesAre, Given
    <2>3. Below(a, chans[a].ts[i].t, d)
        BY DEF AllBelow
    <2>4. QED
        BY <2>2, <2>3, SMTT(30) DEF Below
<1>2. QED
    BY <1>1 DEF AllBelow

\* Steps by which nothing is received and no sample is sent.
Still ==
    /\ server'.life = server.life /\ ServerNow <= ServerNow'
    /\ session'.live = TRUE => session.live = TRUE /\ page'.sock = "open"
    /\ \A a \in Addrs : session'.cursor[a] # None => session'.live = TRUE
    /\ page'.source = "probing" => page'.sock = "none" /\ page'.retrying # TRUE
    /\ Shrunk /\ page'.hello = page.hello
    /\ \A i \in 1 .. Len(toClient') : toClient'[i].e # "set" =>
         i \in 1 .. Len(toClient) /\ toClient'[i] = toClient[i]
    /\ page'.sock = "open" =>
         page.sock = "open" /\ (HelloWaits(toClient) => HelloWaits(toClient'))

LEMMA NowIsNat == ASSUME TypedServer PROVE ServerNow \in Nat
    BY Given DEF TypedServer, ServerNow

LEMMA MessageIs ==
    ASSUME Typed, NEW i \in 1 .. Len(toClient)
    PROVE  /\ toClient[i].e = "hello" => toClient[i].now \in Nat /\ toClient[i].life \in 1 .. MaxLives
           /\ toClient[i].e = "d" => toClient[i].s \in [Addrs -> Ordered]
<1>1. toClient[i] \in Event
    BY DEF Typed
<1>2. QED
    BY <1>1 DEF Event

LEMMA SoonerIs == \A x, h, p, q \in Nat : p <= q => (x <= p + h => x <= q + h)
    OBVIOUS

LEMMA StillConn ==
    ASSUME Typed, Typed', NEW L \in Nat, Conn(L), Still
    PROVE  Conn(L)'
<1>1. ServerNow \in Nat /\ ServerNow' \in Nat /\ ServerNow <= ServerNow' /\ server'.life = server.life
    BY NowIsNat DEF Typed, TypedServer, ServerNow, Still
<1>2. \A d \in Nat : AllBelow(chans, d) => AllBelow(chans', d)
    BY ShrunkIs DEF Still
<1>3. \A l : HasLife(chans', l) => HasLife(chans, l)
    BY ShrunkIs DEF Still
<1>4. Peers(L)'
    BY <1>1, ShrunkIs DEF Conn, Peers, Still
<1>5. ASSUME AllBelow(chans, ServerNow) PROVE AllBelow(chans', ServerNow')
    <2>1. AllBelow(chans, ServerNow')
        BY <1>1, <1>5, BelowGrows
    <2>2. QED
        BY <1>1, <1>2, <2>1
<1>6. ASSUME NEW i \in 1 .. Len(toClient')
      PROVE  /\ toClient'[i].e = "hello" => i = 1 /\ HelloFits(toClient[i], L)'
             /\ toClient'[i].e = "d" => \A a \in Addrs : BatchFits(a, toClient[i].s[a], L)'
    <2>1. CASE toClient'[i].e = "hello"
        <3>1. i \in 1 .. Len(toClient) /\ toClient'[i] = toClient[i]
            BY <2>1 DEF Still
        <3>2. i = 1 /\ HelloFits(toClient[i], L) /\ toClient[i].now \in Nat
            BY <2>1, <3>1, MessageIs DEF Conn, Mail
        <3>3. HelloFits(toClient[i], L)'
            BY <1>1, <1>2, <1>3, <3>1, <3>2 DEF HelloFits
        <3>4. QED
            BY <2>1, <3>2, <3>3
    <2>2. CASE toClient'[i].e = "d"
        <3>1. i \in 1 .. Len(toClient) /\ toClient'[i] = toClient[i]
            BY <2>2 DEF Still
        <3>2. ASSUME NEW a \in Addrs PROVE BatchFits(a, toClient[i].s[a], L)'
            <4>1. toClient[i].s[a] \in Seq(Sample) /\ Ahead[a] \in Nat
                BY <2>2, <3>1, MessageIs, Given DEF Ordered
            <4>2. \A k \in 1 .. Len(toClient[i].s[a]) : toClient[i].s[a][k].t \in Nat
                BY <4>1, DatesAre
            <4>3. BatchFits(a, toClient[i].s[a], L)
                BY <2>2, <3>1 DEF Conn, Mail
            <4>4. ASSUME NEW k \in 1 .. Len(toClient[i].s[a])
                  PROVE  /\ toClient[i].s[a][k].life = L
                         /\ toClient[i].s[a][k].t >= Ahead[a]
                         /\ L = server'.life => toClient[i].s[a][k].t <= ServerNow' + Ahead[a]
                <5>1. /\ toClient[i].s[a][k].life = L
                      /\ toClient[i].s[a][k].t >= Ahead[a]
                      /\ L = server.life => toClient[i].s[a][k].t <= ServerNow + Ahead[a]
                    BY <4>3 DEF BatchFits
                <5>2. toClient[i].s[a][k].t \in Nat
                    BY <4>2
                <5>3. toClient[i].s[a][k].t <= ServerNow + Ahead[a] =>
                        toClient[i].s[a][k].t <= ServerNow' + Ahead[a]
                    BY <1>1, <4>1, <5>2, SoonerIs, Zenon
                <5>4. QED
                    BY <1>1, <5>1, <5>3
            <4>5. toClient'[i].s[a] = toClient[i].s[a]
                BY <3>1
            <4>6. QED
                BY <4>3, <4>4, <4>5 DEF BatchFits
        <3>3. QED
            BY <2>2, <3>2
    <2>3. CASE toClient'[i].e # "hello" /\ toClient'[i].e # "d"
        BY <2>3
    <2>4. QED
        BY <2>1, <2>2, <2>3
<1>7. Clocks(L)'
    <2>1. (HasLife(chans, server.life) => AllBelow(chans, ServerNow))'
        BY <1>1, <1>3, <1>5 DEF Conn, Clocks
    <2>2. ASSUME page'.sock = "open", ~HelloWaits(toClient')
          PROVE  /\ \A a \in Addrs : Joins(chans[a].ts, L)'
                 /\ L = server'.life => AllBelow(chans', ServerNow')
        <3>1. page.sock = "open" /\ ~HelloWaits(toClient)
            BY <2>2 DEF Still
        <3>2. \A a \in Addrs : Joins(chans[a].ts, L)'
            BY <3>1 DEF Conn, Clocks, Joins, Still, Shrunk
        <3>3. L = server.life => AllBelow(chans, ServerNow)
            BY <3>1 DEF Conn, Clocks
        <3>4. QED
            BY <1>1, <1>5, <3>2, <3>3
    <2>3. QED
        BY <2>1, <2>2 DEF Clocks
<1>8. QED
    BY <1>4, <1>6, <1>7 DEF Conn, Mail

\* The steps of that kind.
LEMMA SameClock ==
    ASSUME TypedServer, time' = time \/ time' = time + 1, server'.life = server.life, server'.boot = server.boot
    PROVE  ServerNow <= ServerNow'
<1>1. time \in Nat /\ server.boot \in Nat
    BY Given DEF TypedServer
<1>2. time - server.boot <= time' - server'.boot
    BY <1>1
<1>3. QED
    BY <1>2 DEF ServerNow

LEMMA NetStill ==
    ASSUME Typed, NEW L \in Nat, Conn(L),
           Cut \/ Crash \/ Tick \/ Probe \/ Reconnect \/ GiveUp \/ Refused \/ Dropped
    PROVE  Still
<1>1. UNCHANGED chans
    BY DEF Cut, Crash, Tick, Probe, Reconnect, GiveUp, Refused, Dropped, network
<1>2. TypedServer /\ TypedPage /\ session.live \in BOOLEAN
    BY DEF Typed, TypedServer
<1>3. ServerNow <= ServerNow' /\ server'.life = server.life
    <2>1. time' = time \/ time' = time + 1
        BY DEF Cut, Crash, Tick, Probe, Reconnect, GiveUp, Refused, Dropped, network
    <2>2. server'.life = server.life /\ server'.boot = server.boot
        BY <1>2 DEF Cut, Crash, Tick, Probe, Reconnect, GiveUp, Refused, Dropped, network, TypedServer
    <2>3. QED
        BY <1>2, <2>1, <2>2, SameClock
<1>4. page'.hello = page.hello
    BY <1>2 DEF Cut, Crash, Tick, Probe, Reconnect, GiveUp, Refused, Dropped, network, Connecting, TypedPage
<1>5. toClient' = toClient \/ toClient' = <<>>
    BY DEF Cut, Crash, Tick, Probe, Reconnect, GiveUp, Refused, Dropped, network
<1>6. session' = session \/ (session'.live = FALSE /\ \A a \in Addrs : session'.cursor[a] = None)
    BY NoSessionIs DEF Cut, Crash, Tick, Probe, Reconnect, GiveUp, Refused, Dropped, network
<1>7. page'.sock = "open" => page.sock = "open" /\ toClient' = toClient
    BY <1>2 DEF Cut, Crash, Tick, Probe, Reconnect, GiveUp, Refused, Dropped, network, Connecting, TypedPage
<1>8. page'.source = "probing" => page'.sock = "none" /\ page'.retrying # TRUE
    <2>1. page.source = "probing" => page.sock = "none" /\ page.retrying # TRUE
        BY DEF Conn, Peers
    <2>2. CASE Cut \/ Crash \/ Tick
        BY <2>1, <2>2 DEF Cut, Crash, Tick
    <2>3. CASE Probe
        BY <1>2, <2>3 DEF Probe, Connecting, TypedPage
    <2>4. CASE Reconnect
        BY <1>2, <2>1, <2>4 DEF Reconnect, Connecting, TypedPage
    <2>5. CASE GiveUp
        BY <1>2, <2>1, <2>5 DEF GiveUp, TypedPage
    <2>6. CASE Refused
        BY <1>2, <2>1, <2>6 DEF Refused, IsOpen, TypedPage
    <2>7. CASE Dropped
        BY <1>2, <2>1, <2>7 DEF Dropped, IsOpen, TypedPage
    <2>8. QED
        BY <2>2, <2>3, <2>4, <2>5, <2>6, <2>7
<1>9. session'.live = TRUE => session.live = TRUE /\ page'.sock = "open"
    <2>1. session.live = TRUE => page.sock = "open"
        BY DEF Conn, Peers
    <2>2. CASE Cut \/ Crash \/ GiveUp
        BY <2>2, NoSessionIs DEF Cut, Crash, GiveUp
    <2>3. CASE Tick
        BY <2>1, <2>3 DEF Tick, network
    <2>4. CASE Probe
        BY <2>1, <2>4 DEF Probe, network, Conn, Peers
    <2>5. CASE Reconnect
        BY <1>2, <2>1, <2>5 DEF Reconnect, network, TypedPage
    <2>6. CASE Refused
        <3>1. session' = session /\ (page.sock = "opening" \/ session.live # TRUE)
            BY <1>2, <2>6 DEF Refused
        <3>2. QED
            BY <2>1, <3>1
    <2>7. CASE Dropped
        <3>1. session' = session /\ (page.sock = "closing" \/ session.live # TRUE)
            BY <1>2, <2>7 DEF Dropped
        <3>2. QED
            BY <2>1, <3>1
    <2>8. QED
        BY <2>2, <2>3, <2>4, <2>5, <2>6, <2>7
<1>10. \A a \in Addrs : session'.cursor[a] # None => session'.live = TRUE
    BY <1>6 DEF Conn, Peers
<1>11. \A i \in 1 .. Len(toClient') : i \in 1 .. Len(toClient) /\ toClient'[i] = toClient[i]
    BY <1>5
<1>12. QED
    BY <1>1, <1>3, <1>4, <1>7, <1>8, <1>9, <1>10, <1>11 DEF Still, Shrunk

LEMMA ServeStill ==
    ASSUME Typed, NEW L \in Nat, Conn(L), Serve
    PROVE  Still
<1>1. /\ UNCHANGED <<time, page, chans>> /\ session.live = TRUE /\ page.sock = "open"
    BY DEF Serve, Typed, TypedServer, Conn, Peers
<1>2. ServerNow <= ServerNow' /\ server'.life = server.life
    <2>1. TypedServer
        BY DEF Typed
    <2>2. server'.life = server.life /\ server'.boot = server.boot
        BY <2>1 DEF Serve, TypedServer
    <2>3. QED
        BY <1>1, <2>1, <2>2, SameClock
<1>3. session'.live = TRUE
    <2>1. \/ session' = session \/ session' = [session EXCEPT !.cursor[Head(toServer).addr] = None]
          \/ session' = [session EXCEPT !.cursor[Head(toServer).addr] = ServerNow - History]
        BY DEF Serve
    <2>2. QED
        BY <1>1, <2>1 DEF Typed, TypedServer
<1>4. toClient \in Seq(Event)
    BY DEF Typed
<1>5. \/ toClient' = toClient
      \/ \E n : n.e = "set" /\ toClient' = Append(toClient, n)
    <2>1. CASE UNCHANGED toClient
        BY <2>1
    <2>2. CASE \E ok \in BOOLEAN : toClient' = Append(toClient, [e |-> "set", addr |-> Head(toServer).addr, ok |-> ok])
        <3>1. PICK ok \in BOOLEAN : toClient' = Append(toClient, [e |-> "set", addr |-> Head(toServer).addr, ok |-> ok])
            BY <2>2
        <3>2. [e |-> "set", addr |-> Head(toServer).addr, ok |-> ok].e = "set"
            OBVIOUS
        <3>3. QED
            BY <3>1, <3>2
    <2>3. QED
        BY <2>1, <2>2 DEF Serve
<1>6. /\ \A i \in 1 .. Len(toClient') : toClient'[i].e # "set" =>
           i \in 1 .. Len(toClient) /\ toClient'[i] = toClient[i]
      /\ HelloWaits(toClient) => HelloWaits(toClient')
    <2>1. CASE toClient' = toClient
        BY <2>1
    <2>2. CASE \E n : n.e = "set" /\ toClient' = Append(toClient, n)
        <3>1. PICK n : n.e = "set" /\ toClient' = Append(toClient, n)
            BY <2>2
        <3>2. /\ Len(toClient') = Len(toClient) + 1 /\ toClient'[Len(toClient) + 1] = n
              /\ \A k \in 1 .. Len(toClient) : toClient'[k] = toClient[k]
            BY <1>4, <3>1
        <3>3. HelloWaits(toClient) => HelloWaits(toClient')
            <4>1. toClient # <<>> => 1 \in 1 .. Len(toClient) /\ toClient' # <<>>
                BY <1>4, <3>1, <3>2
            <4>2. QED
                BY <3>2, <4>1 DEF HelloWaits
        <3>4. ASSUME NEW i \in 1 .. Len(toClient'), toClient'[i].e # "set"
              PROVE  i \in 1 .. Len(toClient) /\ toClient'[i] = toClient[i]
            <4>1. i # Len(toClient) + 1
                BY <3>1, <3>2, <3>4
            <4>2. i \in 1 .. Len(toClient)
                BY <1>4, <3>2, <4>1
            <4>3. QED
                BY <3>2, <4>2
        <3>5. QED
            BY <3>3, <3>4
    <2>3. QED
        BY <1>5, <2>1, <2>2
<1>7. QED
    BY <1>1, <1>2, <1>3, <1>6 DEF Still, Shrunk, Conn, Peers

LEMMA PageStill ==
    ASSUME Typed, NEW L \in Nat, Conn(L),
           \/ Stop \/ Start \/ LogEnable \/ LogDisable \/ LogTick \/ UNCHANGED vars
           \/ \E a \in Addrs : Subscribe(a) \/ Unsubscribe(a) \/ Write(a) \/ WriteTimeout(a)
    PROVE  Still
<1>1. UNCHANGED <<time, server, session, toClient>>
    BY DEF Stop, Start, LogEnable, LogDisable, LogTick, vars, network, Subscribe, Unsubscribe, Write,
           WriteTimeout
<1>2. page' = page \/ page' = [page EXCEPT !.running = TRUE] \/ page' = [page EXCEPT !.running = FALSE]
    BY DEF Stop, Start, LogEnable, LogDisable, LogTick, vars, network, Subscribe, Unsubscribe, Write,
           WriteTimeout
<1>3. /\ page'.hello = page.hello /\ page'.sock = page.sock /\ page'.source = page.source
      /\ page'.retrying = page.retrying
    BY <1>2 DEF Typed, TypedPage
<1>4. chans \in [Addrs -> [refs : 0 .. MaxRefs, ts : Ordered]] /\ TypedServer /\ TypedChans
    BY DEF Typed, TypedChans
<1>5. Shrunk
    <2>1. CASE UNCHANGED chans
        BY <2>1 DEF Shrunk
    <2>2. CASE Start
        BY <1>4, <2>2, EmptiedIs DEF Start, Shrunk
    <2>3. CASE \E a \in Addrs : Subscribe(a)
        BY <1>4, <2>3 DEF Subscribe, Shrunk
    <2>4. CASE \E a \in Addrs : Unsubscribe(a)
        <3>1. PICK a \in Addrs : Unsubscribe(a)
            BY <2>4
        <3>2. chans' = [chans EXCEPT ![a] = IF chans[a].refs - 1 = 0 THEN [refs |-> 0, ts |-> <<>>]
                                            ELSE [chans[a] EXCEPT !.refs = chans[a].refs - 1]]
            BY <3>1 DEF Unsubscribe
        <3>3. ASSUME NEW x \in Addrs PROVE chans'[x].ts = chans[x].ts \/ chans'[x].ts = <<>>
            <4>1. CASE x # a
                BY <1>4, <3>2, <4>1
            <4>2. CASE x = a
                <5>1. chans'[x] = IF chans[a].refs - 1 = 0 THEN [refs |-> 0, ts |-> <<>>]
                                  ELSE [chans[a] EXCEPT !.refs = chans[a].refs - 1]
                    BY <1>4, <3>2, <4>2
                <5>2. chans[a] \in [refs : 0 .. MaxRefs, ts : Ordered]
                    BY <1>4
                <5>3. QED
                    BY <4>2, <5>1, <5>2
            <4>3. QED
                BY <4>1, <4>2
        <3>4. QED
            BY <3>3 DEF Shrunk
    <2>5. QED
        BY <2>1, <2>2, <2>3, <2>4 DEF Stop, LogEnable, LogDisable, LogTick, vars, Write, WriteTimeout
<1>6. ServerNow <= ServerNow'
    BY <1>1, <1>4, SameClock
<1>7. QED
    BY <1>1, <1>3, <1>5, <1>6 DEF Still, Conn, Peers

LEMMA RebootConn ==
    ASSUME Typed, Typed', NEW L \in Nat, Conn(L), Reboot
    PROVE  Conn(L)'
<1>1. /\ UNCHANGED <<time, session, toClient, page, chans>>
      /\ server'.life = server.life + 1 /\ server.life \in Nat /\ L \in 1 .. server.life
      /\ session.live # TRUE
    <2>1. ~server.up /\ UNCHANGED <<time, session, toClient, page, chans>>
        BY DEF Reboot, network
    <2>2. server.up # TRUE
        BY <2>1, Zenon
    <2>3. session.live # TRUE
        BY <2>2 DEF Typed, TypedServer
    <2>4. server'.life = server.life + 1
        BY DEF Reboot, Typed, TypedServer
    <2>5. server.life \in Nat /\ L \in 1 .. server.life
        BY Given DEF Typed, TypedServer, Conn, Peers
    <2>6. QED
        BY <2>1, <2>3, <2>4, <2>5
<1>2. L # server'.life /\ L \in 1 .. server'.life
    BY <1>1
<1>3. Peers(L)'
    BY <1>1, <1>2 DEF Conn, Peers
<1>4. Mail(L)'
    BY <1>1, <1>2 DEF Conn, Mail, HelloFits, BatchFits
<1>5. ~HasLife(chans, server'.life)
    <2>1. ASSUME NEW a \in Addrs, NEW i \in 1 .. Len(chans[a].ts) PROVE chans[a].ts[i].life # server'.life
        <3>1. chans[a].ts \in Seq(Sample)
            BY DEF Typed, TypedChans, Ordered
        <3>2. chans[a].ts[i].life \in Nat /\ chans[a].ts[i].life <= L
            BY <3>1, DatesAre DEF Conn, Peers
        <3>3. QED
            BY <1>1, <3>2
    <2>2. QED
        BY <2>1 DEF HasLife
<1>6. Clocks(L)'
    BY <1>1, <1>2, <1>5 DEF Conn, Clocks, Joins
<1>7. QED
    BY <1>3, <1>4, <1>6 DEF Conn

\* A batch that is sent.
LEMMA NewsFit ==
    ASSUME Typed, NEW a \in Addrs
    PROVE  BatchFits(a, News(a), server.life)
<1>1. CASE session.cursor[a] = None
    <2>1. Len(News(a)) = 0
        BY <1>1 DEF News
    <2>2. QED
        BY <2>1 DEF BatchFits, Stepped
<1>2. CASE session.cursor[a] # None
    <2> DEFINE c == session.cursor[a]
    <2>1. TypedServer /\ c \in Int /\ News(a) = Read(a, c)
        BY <1>2 DEF Typed, TypedServer, News
    <2> HIDE DEF c
    <2>2. /\ First(a, c) \in Nat /\ First(a, c) >= Ahead[a]
          /\ Read(a, c) \in Ordered /\ Stepped(Read(a, c))
          /\ \A i \in 1 .. Len(Read(a, c)) :
               /\ Read(a, c)[i].life = server.life
               /\ First(a, c) <= Read(a, c)[i].t /\ Read(a, c)[i].t <= ServerNow + Ahead[a]
        BY <2>1, ReadIs
    <2>3. Ahead[a] \in Nat /\ \A i \in 1 .. Len(Read(a, c)) : Read(a, c)[i].t \in Nat
        BY <2>2, DatesAre, Given DEF Ordered
    <2>4. \A i \in 1 .. Len(Read(a, c)) : Read(a, c)[i].t >= Ahead[a]
        BY <2>2, <2>3
    <2>5. QED
        BY <2>1, <2>2, <2>4 DEF BatchFits
<1>3. QED
    BY <1>1, <1>2

LEMMA FlushConn ==
    ASSUME Typed, Typed', NEW L \in Nat, Conn(L), Flush
    PROVE  Conn(L)'
<1> DEFINE batch == [a \in Addrs |-> News(a)]
           n == [e |-> "d", s |-> batch]
<1>1. /\ session.live = TRUE /\ toClient' = Append(toClient, n) /\ n \in Event
      /\ session'.live = session.live
      /\ \A a \in Addrs : session'.cursor[a] = IF News(a) = <<>> THEN session.cursor[a]
                                               ELSE News(a)[Len(News(a))].t
      /\ UNCHANGED <<time, server, toServer, page, chans>>
    BY FlushIs
<1>2. \A a \in Addrs : n.s[a] = News(a)
    OBVIOUS
<1>3. n.e = "d"
    OBVIOUS
<1> HIDE DEF n, batch
<1>4. L = server.life /\ Peers(L)'
    BY <1>1 DEF Conn, Peers
<1>5. \A a \in Addrs : BatchFits(a, n.s[a], L)
    BY <1>2, <1>4, NewsFit
<1>6. /\ Len(toClient') = Len(toClient) + 1 /\ toClient'[Len(toClient) + 1] = n
      /\ \A k \in 1 .. Len(toClient) : toClient'[k] = toClient[k]
      /\ Len(toClient) \in Nat
    BY <1>1 DEF Typed
<1>7. Mail(L)'
    <2>1. ASSUME NEW i \in 1 .. Len(toClient')
          PROVE  /\ toClient'[i].e = "hello" => i = 1 /\ HelloFits(toClient[i], L)'
                 /\ toClient'[i].e = "d" => \A a \in Addrs : BatchFits(a, toClient[i].s[a], L)'
        <3>1. CASE i = Len(toClient) + 1
            <4>1. toClient'[i] = n
                BY <1>6, <3>1
            <4>2. ASSUME NEW a \in Addrs PROVE BatchFits(a, toClient[i].s[a], L)'
                BY <1>1, <1>5, <4>1 DEF BatchFits, ServerNow
            <4>3. QED
                BY <1>3, <4>1, <4>2
        <3>2. CASE i # Len(toClient) + 1
            <4>1. i \in 1 .. Len(toClient) /\ toClient'[i] = toClient[i]
                BY <1>6, <3>2
            <4>2. QED
                BY <1>1, <4>1 DEF Conn, Mail, HelloFits, BatchFits, ServerNow
        <3>3. QED
            BY <3>1, <3>2
    <2>2. QED
        BY <2>1 DEF Mail
<1>8. HelloWaits(toClient) => HelloWaits(toClient')
    <2>1. toClient # <<>> => 1 \in 1 .. Len(toClient) /\ toClient' # <<>>
        BY <1>1, <1>6 DEF Typed
    <2>2. QED
        BY <1>6, <2>1 DEF HelloWaits
<1>9. Clocks(L)'
    BY <1>1, <1>8 DEF Conn, Clocks, Joins, ServerNow
<1>10. QED
    BY <1>4, <1>7, <1>9 DEF Conn

LEMMA OpenConn ==
    ASSUME Typed, Typed', NEW L \in Nat, Conn(L), Open, NEW K \in Nat, K = server.life
    PROVE  Conn(K)'
<1> DEFINE n == [e |-> "hello", now |-> ServerNow, life |-> server.life]
<1>1. /\ page.sock = "opening" /\ page' = [page EXCEPT !.sock = "open"]
      /\ session'.live = TRUE /\ \A a \in Addrs : session'.cursor[a] = None
      /\ toClient' = <<n>> /\ UNCHANGED <<time, server, chans>>
    BY OpenIs
<1>2. n.e = "hello" /\ n.life = server.life /\ n.now = ServerNow
    OBVIOUS
<1> HIDE DEF n
<1>3. page'.sock = "open" /\ page'.source = page.source /\ page'.hello = page.hello /\ page.source # "probing"
    BY <1>1 DEF Typed, TypedPage, Conn, Peers
<1>4. ServerNow \in Nat /\ server.life \in Nat /\ L \in 1 .. server.life
    <2>1. server.life \in Nat
        BY Given DEF Typed, TypedServer
    <2>2. ServerNow \in Nat
        BY NowIsNat DEF Typed
    <2>3. QED
        BY <2>1, <2>2 DEF Conn, Peers
<1>5. \A a \in Addrs : \A i \in 1 .. Len(chans[a].ts) :
         chans[a].ts[i].life <= server.life /\ chans[a].ts[i].t >= Ahead[a]
    <2>1. ASSUME NEW a \in Addrs, NEW i \in 1 .. Len(chans[a].ts)
          PROVE  chans[a].ts[i].life <= server.life /\ chans[a].ts[i].t >= Ahead[a]
        <3>1. chans[a].ts \in Seq(Sample)
            BY DEF Typed, TypedChans, Ordered
        <3>2. chans[a].ts[i].life \in Nat
            BY <3>1, DatesAre
        <3>3. chans[a].ts[i].life <= L /\ chans[a].ts[i].t >= Ahead[a]
            BY DEF Conn, Peers
        <3>4. QED
            BY <1>4, <3>2, <3>3
    <2>2. QED
        BY <2>1
<1>6. Peers(K)'
    BY <1>1, <1>3, <1>4, <1>5 DEF Peers
<1>7. ServerNow' = ServerNow
    BY <1>1 DEF ServerNow
<1>8. Mail(K)'
    <2>1. HasLife(chans', server'.life) => AllBelow(chans', ServerNow')
        BY <1>1, <1>7 DEF Conn, Clocks
    <2>2. ASSUME NEW i \in 1 .. Len(toClient')
          PROVE  i = 1 /\ toClient'[i] = n
        BY <1>1, <2>2
    <2>3. QED
        BY <1>1, <1>2, <1>4, <1>7, <2>1, <2>2 DEF Mail, HelloFits
<1>9. Clocks(K)'
    <2>1. HelloWaits(toClient')
        BY <1>1, <1>2 DEF HelloWaits
    <2>2. QED
        BY <1>1, <1>7, <2>1 DEF Conn, Clocks
<1>10. QED
    BY <1>6, <1>8, <1>9 DEF Conn

\* After an event is received.
LEMMA ReceivedMail ==
    ASSUME Typed, NEW L \in Nat, Conn(L), Receive
    PROVE  /\ Mail(L)' /\ ~HelloWaits(toClient') /\ ServerNow' = ServerNow /\ server' = server
           /\ Head(toClient) = toClient[1] /\ 1 \in 1 .. Len(toClient)
           /\ \A i \in 1 .. Len(toClient') : i + 1 \in 1 .. Len(toClient) /\ toClient'[i] = toClient[i + 1]
<1>1. /\ toClient \in Seq(Event) /\ toClient # <<>> /\ toClient' = Tail(toClient)
      /\ UNCHANGED <<time, server>>
    BY ReceiveIs DEF Typed
<1>2. \A i \in 1 .. Len(toClient') : i + 1 \in 2 .. Len(toClient) /\ toClient'[i] = toClient[i + 1]
    BY <1>1
<1>3. Head(toClient) = toClient[1] /\ 1 \in 1 .. Len(toClient)
    BY <1>1
<1>4. ServerNow' = ServerNow
    BY <1>1 DEF ServerNow
<1>5. \A i \in 1 .. Len(toClient') : toClient'[i].e # "hello"
    BY <1>2, SMTT(30) DEF Conn, Mail
<1>6. Mail(L)'
    <2>1. ASSUME NEW i \in 1 .. Len(toClient'), toClient'[i].e = "d", NEW a \in Addrs
          PROVE  BatchFits(a, toClient[i].s[a], L)'
        <3>1. i + 1 \in 1 .. Len(toClient) /\ toClient'[i] = toClient[i + 1]
            BY <1>2
        <3>2. BatchFits(a, toClient[i + 1].s[a], L)
            BY <2>1, <3>1 DEF Conn, Mail
        <3>3. QED
            BY <1>1, <1>4, <3>1, <3>2 DEF BatchFits
    <2>2. QED
        BY <1>5, <2>1 DEF Mail
<1>7. ~HelloWaits(toClient')
    <2>1. toClient' # <<>> => 1 \in 1 .. Len(toClient')
        BY <1>1
    <2>2. QED
        BY <1>5, <2>1 DEF HelloWaits
<1>8. QED
    BY <1>1, <1>2, <1>3, <1>4, <1>6, <1>7

\* The newest sample is the last one.
LEMMA NewestIs ==
    ASSUME NEW ts \in Ordered, ts # <<>>
    PROVE  /\ Newest(ts) = ts[Len(ts)].t /\ Newest(ts) \in Nat /\ Len(ts) \in 1 .. Len(ts)
           /\ \A i \in 1 .. Len(ts) : ts[i].t \in Nat /\ ts[i].t <= Newest(ts)
<1>1. ts \in Seq(Sample) /\ Len(ts) \in 1 .. Len(ts) /\ InOrder(ts)
    BY DEF Ordered
<1>2. Newest(ts) = ts[Len(ts)].t
    BY DEF Newest, Last
<1>3. \A i \in 1 .. Len(ts) : ts[i].t \in Nat
    BY <1>1, DatesAre
<1>4. \A i \in 1 .. Len(ts) : ts[i].t <= ts[Len(ts)].t
    BY <1>1, <1>3 DEF InOrder
<1>5. QED
    BY <1>1, <1>2, <1>3, <1>4

LEMMA KeptIs ==
    ASSUME Typed, NEW d \in Nat, ~Purged(d)
    PROVE  \A a \in Addrs : \A i \in 1 .. Len(chans[a].ts) : chans[a].ts[i].t <= d + Slack
<1>1. ASSUME NEW a \in Addrs, NEW i \in 1 .. Len(chans[a].ts) PROVE chans[a].ts[i].t <= d + Slack
    <2>1. chans[a].ts \in Ordered
        BY DEF Typed, TypedChans
    <2>2. chans[a].ts # <<>>
        OBVIOUS
    <2>3. /\ Newest(chans[a].ts) \in Nat /\ chans[a].ts[i].t \in Nat
          /\ chans[a].ts[i].t <= Newest(chans[a].ts)
        BY <2>1, <2>2, NewestIs
    <2>4. ~ (d < Newest(chans[a].ts) - Slack)
        BY <2>2 DEF Purged
    <2>5. Slack \in Nat
        BY Given
    <2>6. QED
        BY <2>3, <2>4, <2>5, SMTT(30)
<1>2. QED
    BY <1>1

LEMMA HelloConn ==
    ASSUME Typed, Typed', NEW L \in Nat, Conn(L), Receive, Head(toClient).e = "hello", Hello(Head(toClient))
    PROVE  Conn(L)'
<1>1. PICK m \in Event : m = toClient[1] /\ m = Head(toClient) /\ m.e = "hello" /\ Hello(m)
    BY ReceiveIs, ReceivedMail
<1>2. /\ page'.hello = m.now /\ page'.sock = page.sock /\ m.now \in Nat
      /\ Purged(m.now) => chans' = Emptied
      /\ ~Purged(m.now) => chans' = chans
    BY <1>1, HelloIs
<1>3. page.sock = "open" /\ UNCHANGED <<server, session>>
    BY ReceiveIs
<1>4. Mail(L)' /\ ServerNow' = ServerNow /\ 1 \in 1 .. Len(toClient) /\ ~HelloWaits(toClient')
    BY ReceivedMail
<1>5. HelloFits(m, L)
    BY <1>1, <1>4 DEF Conn, Mail
<1>6. Shrunk
    BY <1>2, EmptiedIs DEF Shrunk, Typed
<1>7. page'.source # "probing"
    <2>1. page.source # "probing"
        BY <1>3 DEF Conn, Peers
    <2>2. page'.source = IF page.source = "choosing" THEN "ws" ELSE page.source
        BY <1>1 DEF Hello, Typed, TypedPage
    <2>3. QED
        BY <2>1, <2>2
<1>8. Peers(L)'
    <2>1. \A a \in Addrs : \A i \in 1 .. Len(chans'[a].ts) :
             chans'[a].ts[i].life <= L /\ chans'[a].ts[i].t >= Ahead[a]
        BY <1>6, ShrunkIs DEF Conn, Peers
    <2>2. QED
        BY <1>2, <1>3, <1>7, <2>1 DEF Conn, Peers
<1>9. \A d : AllBelow(chans, d) => AllBelow(chans', d)
    BY <1>6, ShrunkIs
<1>10. \A l : HasLife(chans', l) => HasLife(chans, l)
    BY <1>6, ShrunkIs
<1>11. (HasLife(chans, server.life) => AllBelow(chans, ServerNow))'
    BY <1>3, <1>4, <1>9, <1>10 DEF Conn, Clocks
<1>12. ASSUME NEW a \in Addrs, NEW i \in 1 .. Len(chans'[a].ts)
       PROVE  chans'[a].ts[i].t <= m.now + Slack
    <2>1. CASE Purged(m.now)
        <3>1. chans'[a].ts = <<>>
            BY <1>2, <2>1, EmptiedIs DEF Typed
        <3>2. QED
            BY <1>12, <3>1
    <2>2. CASE ~Purged(m.now)
        BY <1>2, <2>2, KeptIs
    <2>3. QED
        BY <2>1, <2>2
<1>13. \A a \in Addrs : Joins(chans[a].ts, L)'
    <2>1. ASSUME NEW a \in Addrs, chans'[a].ts # <<>> PROVE chans'[a].ts[Len(chans'[a].ts)].t <= m.now + Slack
        <3>1. chans'[a].ts \in Ordered
            BY DEF Typed, TypedChans
        <3>2. Len(chans'[a].ts) \in 1 .. Len(chans'[a].ts)
            BY <2>1, <3>1, NewestIs
        <3>3. QED
            BY <1>12, <3>2
    <2>2. QED
        BY <1>2, <2>1 DEF Joins
<1>14. ASSUME L = server'.life PROVE AllBelow(chans', ServerNow')
    <2>1. m.now <= ServerNow /\ ServerNow \in Nat
        BY <1>3, <1>5, <1>14, NowIsNat DEF HelloFits, Typed
    <2>2. ASSUME NEW a \in Addrs, NEW i \in 1 .. Len(chans'[a].ts)
          PROVE  chans'[a].ts[i].t <= ServerNow + Slack
        <3>1. chans'[a].ts \in Seq(Sample)
            BY DEF Typed, TypedChans, Ordered
        <3>2. chans'[a].ts[i].t \in Nat /\ Slack \in Nat
            BY <3>1, DatesAre, Given
        <3>3. QED
            BY <1>2, <1>12, <2>1, <3>2, SoonerIs
    <2>3. QED
        BY <1>4, <2>2 DEF AllBelow, Below
<1>15. QED
    BY <1>4, <1>8, <1>11, <1>13, <1>14 DEF Conn, Clocks

\* The samples after a batch are those of before and samples of the batch.
LEMMA FedSamples ==
    ASSUME NEW ts \in Ordered, NEW new \in Ordered
    PROVE  LET r == Recorded(ts, new)
           IN  /\ r \in Ordered /\ Len(ts) <= Len(r)
               /\ \A i \in 1 .. Len(r) : \/ i \in 1 .. Len(ts) /\ r[i] = ts[i]
                                         \/ i > Len(ts) /\ \E k \in 1 .. Len(new) : r[i] = new[k]
<1> DEFINE r == Recorded(ts, new)
<1>1. PICK u \in Seq(Sample) : /\ r = ts \o u /\ r \in Ordered
                               /\ ts = <<>> => u = new
                               /\ ts # <<>> => EndPast(u, new, Newest(ts))
    BY RecordedIs
<1>2. ts \in Seq(Sample) /\ new \in Seq(Sample)
    BY DEF Ordered
<1> HIDE DEF r
<1>3. Len(r) = Len(ts) + Len(u) /\ \A i \in 1 .. Len(r) : r[i] = IF i <= Len(ts) THEN ts[i] ELSE u[i - Len(ts)]
    BY <1>1, <1>2
<1>4. \A j \in 1 .. Len(u) : \E k \in 1 .. Len(new) : u[j] = new[k]
    <2>1. CASE ts = <<>>
        BY <1>1, <2>1
    <2>2. CASE ts # <<>>
        <3>1. PICK k \in 0 .. Len(new) : Len(u) = Len(new) - k /\ \A i \in 1 .. Len(u) : u[i] = new[k + i]
            BY <1>1, <2>2 DEF EndPast
        <3>2. \A j \in 1 .. Len(u) : k + j \in 1 .. Len(new)
            BY <1>1, <1>2, <3>1
        <3>3. QED
            BY <3>1, <3>2
    <2>3. QED
        BY <2>1, <2>2
<1>5. ASSUME NEW i \in 1 .. Len(r)
      PROVE  \/ i \in 1 .. Len(ts) /\ r[i] = ts[i]
             \/ i > Len(ts) /\ \E k \in 1 .. Len(new) : r[i] = new[k]
    <2>1. CASE i <= Len(ts)
        BY <1>2, <1>3, <2>1
    <2>2. CASE ~ (i <= Len(ts))
        <3>1. r[i] = u[i - Len(ts)] /\ i - Len(ts) \in 1 .. Len(u) /\ i > Len(ts)
            BY <1>1, <1>2, <1>3, <2>2
        <3>2. QED
            BY <1>4, <3>1
    <2>3. QED
        BY <2>1, <2>2
<1>6. Len(ts) <= Len(r)
    BY <1>1, <1>2, <1>3
<1>7. QED
    BY <1>1, <1>5, <1>6 DEF r

LEMMA FedIs ==
    ASSUME Typed, NEW m \in Event, m.e = "d", Data(m), NEW a \in Addrs
    PROVE  /\ chans'[a].ts \in Ordered /\ chans[a].ts \in Ordered /\ m.s[a] \in Ordered
           /\ Len(chans[a].ts) <= Len(chans'[a].ts)
           /\ \A i \in 1 .. Len(chans'[a].ts) :
                \/ i \in 1 .. Len(chans[a].ts) /\ chans'[a].ts[i] = chans[a].ts[i]
                \/ i > Len(chans[a].ts) /\ \E k \in 1 .. Len(m.s[a]) : chans'[a].ts[i] = m.s[a][k]
<1>1. chans[a].ts \in Ordered /\ m.s[a] \in Ordered
    BY DEF Typed, TypedChans, Event
<1>2. chans'[a].ts = Recorded(chans[a].ts, m.s[a]) \/ chans'[a].ts = chans[a].ts
    BY DataIs DEF Fed
<1>3. CASE chans'[a].ts = chans[a].ts
    BY <1>1, <1>3 DEF Ordered
<1>4. CASE chans'[a].ts = Recorded(chans[a].ts, m.s[a])
    BY <1>1, <1>4, FedSamples
<1>5. QED
    BY <1>2, <1>3, <1>4

LEMMA DataConn ==
    ASSUME Typed, Typed', NEW L \in Nat, Conn(L), Receive, Head(toClient).e = "d", Data(Head(toClient))
    PROVE  Conn(L)'
<1>1. PICK m \in Event : m = toClient[1] /\ m.e = "d" /\ Data(m)
    BY ReceiveIs, ReceivedMail
<1>2. /\ page.sock = "open" /\ UNCHANGED <<server, session, page>>
    BY <1>1, ReceiveIs, DataIs
<1>3. Mail(L)' /\ ServerNow' = ServerNow /\ 1 \in 1 .. Len(toClient) /\ ~HelloWaits(toClient')
    BY ReceivedMail
<1>4. \A a \in Addrs : BatchFits(a, m.s[a], L)
    BY <1>1, <1>3 DEF Conn, Mail
<1>5. ~HelloWaits(toClient)
    BY <1>1, <1>3 DEF HelloWaits
<1>6. ASSUME NEW a \in Addrs, NEW i \in 1 .. Len(chans'[a].ts)
      PROVE  \/ i \in 1 .. Len(chans[a].ts) /\ chans'[a].ts[i] = chans[a].ts[i]
             \/ /\ i > Len(chans[a].ts) /\ chans'[a].ts[i].life = L /\ chans'[a].ts[i].t >= Ahead[a]
                /\ L = server.life => chans'[a].ts[i].t <= ServerNow + Ahead[a]
    <2>1. CASE i \in 1 .. Len(chans[a].ts) /\ chans'[a].ts[i] = chans[a].ts[i]
        BY <2>1
    <2>2. CASE i > Len(chans[a].ts) /\ \E k \in 1 .. Len(m.s[a]) : chans'[a].ts[i] = m.s[a][k]
        BY <1>4, <2>2 DEF BatchFits
    <2>3. QED
        BY <1>1, <2>1, <2>2, FedIs
<1>7. L \in Nat /\ server.life \in Nat /\ L \in 1 .. server.life /\ ServerNow \in Nat
    <2>1. server.life \in Nat
        BY Given DEF Typed, TypedServer
    <2>2. ServerNow \in Nat
        BY NowIsNat DEF Typed
    <2>3. QED
        BY <2>1, <2>2 DEF Conn, Peers
<1>8. \A a \in Addrs : \A i \in 1 .. Len(chans'[a].ts) :
         chans'[a].ts[i].life <= L /\ chans'[a].ts[i].t >= Ahead[a]
    BY <1>6, <1>7, SMTT(30) DEF Conn, Peers
<1>9. Peers(L)'
    BY <1>2, <1>8 DEF Conn, Peers
<1>10. ASSUME L = server.life PROVE AllBelow(chans', ServerNow)
    <2>1. AllBelow(chans, ServerNow)
        BY <1>2, <1>5, <1>10 DEF Conn, Clocks
    <2>2. ASSUME NEW a \in Addrs, NEW i \in 1 .. Len(chans'[a].ts) PROVE Below(a, chans'[a].ts[i].t, ServerNow)
        BY <1>6, <1>10, <2>1 DEF AllBelow, Below
    <2>3. QED
        BY <2>2 DEF AllBelow
<1>11. ASSUME L # server.life PROVE ~HasLife(chans', server.life)
    <2>1. ASSUME NEW a \in Addrs, NEW i \in 1 .. Len(chans'[a].ts) PROVE chans'[a].ts[i].life # server.life
        <3>1. chans'[a].ts \in Seq(Sample)
            BY DEF Typed, TypedChans, Ordered
        <3>2. chans'[a].ts[i].life \in Nat /\ chans'[a].ts[i].life <= L
            BY <1>8, <3>1, DatesAre
        <3>3. QED
            BY <1>7, <1>11, <3>2
    <2>2. QED
        BY <2>1 DEF HasLife
<1>12. ASSUME NEW a \in Addrs PROVE Joins(chans[a].ts, L)'
    <2>1. CASE chans'[a].ts = <<>>
        BY <2>1 DEF Joins
    <2>2. CASE chans'[a].ts # <<>>
        <3> DEFINE n == Len(chans'[a].ts)
        <3>1. n \in 1 .. Len(chans'[a].ts)
            BY <2>2, NewestIs DEF Typed, TypedChans
        <3>2. CASE chans'[a].ts[n].life = L
            BY <3>2 DEF Joins
        <3>3. CASE n \in 1 .. Len(chans[a].ts) /\ chans'[a].ts[n] = chans[a].ts[n]
            <4>1. Len(chans[a].ts) <= n /\ chans[a].ts \in Seq(Sample)
                BY <1>1, FedIs DEF Ordered
            <4>2. n = Len(chans[a].ts) /\ chans[a].ts # <<>>
                BY <3>3, <4>1
            <4>3. Joins(chans[a].ts, L)
                BY <1>2, <1>5 DEF Conn, Clocks
            <4>4. QED
                BY <1>2, <3>3, <4>2, <4>3 DEF Joins
        <3>4. QED
            BY <1>6, <3>1, <3>2, <3>3
    <2>3. QED
        BY <2>1, <2>2
<1>13. Clocks(L)'
    BY <1>2, <1>3, <1>10, <1>11, <1>12 DEF Clocks
<1>14. QED
    BY <1>3, <1>9, <1>13 DEF Conn

LEMMA AnswerConn ==
    ASSUME Typed, Typed', NEW L \in Nat, Conn(L), Receive, Head(toClient).e = "set", SetAnswer(Head(toClient))
    PROVE  Conn(L)'
<1>1. UNCHANGED <<page, chans, server, session>>
    BY ReceiveIs DEF SetAnswer
<1>2. /\ Mail(L)' /\ ServerNow' = ServerNow /\ 1 \in 1 .. Len(toClient) /\ ~HelloWaits(toClient')
      /\ toClient[1].e = "set"
    BY ReceivedMail
<1>3. Peers(L)'
    BY <1>1 DEF Conn, Peers
<1>4. ~HelloWaits(toClient)
    BY <1>2 DEF HelloWaits
<1>5. Clocks(L)'
    BY <1>1, <1>2, <1>4 DEF Conn, Clocks, Joins
<1>6. QED
    BY <1>2, <1>3, <1>5 DEF Conn

\* A new connection is to the server as it is; every other step keeps the life
\* of the connection.
LEMMA StepConn ==
    ASSUME Typed, Typed', NEW L \in Nat, Conn(L), [Next]_vars
    PROVE  \E K \in Nat : Conn(K)' /\ (Open => K = server.life) /\ (~Open => K = L)
<1>0. server.life \in Nat
    BY Given DEF Typed, TypedServer
<1>1. CASE Open
    <2>1. PICK K \in Nat : K = server.life
        BY <1>0
    <2>2. Conn(K)'
        BY <1>1, <2>1, OpenConn
    <2>3. QED
        BY <1>1, <2>1, <2>2
<1>2. CASE Serve \/ Cut \/ Crash \/ Tick \/ Probe \/ Reconnect \/ GiveUp \/ Refused \/ Dropped
           \/ Stop \/ Start \/ LogEnable \/ LogDisable \/ LogTick \/ UNCHANGED vars
           \/ (\E a \in Addrs : Subscribe(a) \/ Unsubscribe(a) \/ Write(a) \/ WriteTimeout(a))
    <2>1. Still
        BY <1>2, NetStill, ServeStill, PageStill
    <2>2. Conn(L)'
        BY <2>1, StillConn
    <2>3. CASE ~Open
        BY <2>2, <2>3
    <2>4. QED
        BY <1>1, <2>3
<1>3. CASE ~Open /\ Reboot
    BY <1>3, RebootConn
<1>4. CASE ~Open /\ Flush
    BY <1>4, FlushConn
<1>5. CASE ~Open /\ Receive
    BY <1>5, ReceiveIs, HelloConn, DataConn, AnswerConn
<1>6. QED
    BY <1>1, <1>2, <1>3, <1>4, <1>5, Steps

LEMMA InitConn == ASSUME Init PROVE Conn(1)
<1>1. /\ server.life = 1 /\ session = NoSession /\ toClient = <<>>
      /\ page.source = "probing" /\ page.sock = "none" /\ page.retrying = FALSE
      /\ \A a \in Addrs : chans[a].ts = <<>>
    BY DEF Init
<1>2. Peers(1)
    <2>1. session.live # TRUE /\ \A a \in Addrs : session.cursor[a] = None
        BY <1>1, NoSessionIs
    <2>2. \A a \in Addrs : Len(chans[a].ts) = 0
        BY <1>1
    <2>3. page.retrying # TRUE
        BY DEF Init
    <2>4. 1 \in 1 .. server.life
        BY <1>1
    <2>5. \A a \in Addrs : \A i \in 1 .. Len(chans[a].ts) :
             chans[a].ts[i].life <= 1 /\ chans[a].ts[i].t >= Ahead[a]
        BY <2>2
    <2>6. page.sock = "none"
        BY <1>1
    <2>7. QED
        BY <2>1, <2>3, <2>4, <2>5, <2>6, Zenon DEF Peers
<1>3. Mail(1) /\ Clocks(1)
    BY <1>1 DEF Mail, Clocks, HasLife
<1>4. QED
    BY <1>2, <1>3 DEF Conn

Connected == \E L \in Nat : Conn(L)

LEMMA AlwaysConnected == Spec => []Connected
<1>1. Init => Connected
    BY InitConn DEF Connected
<1>2. ASSUME Typed, Typed', Connected, [Next]_vars PROVE Connected'
    <2>1. PICK L \in Nat : Conn(L)
        BY <1>2 DEF Connected
    <2>2. \E K \in Nat : Conn(K)'
        BY <1>2, <2>1, StepConn
    <2>3. QED
        BY <2>2 DEF Connected
<1>3. QED
    BY <1>1, <1>2, AlwaysTyped, PTL DEF Spec

\* What empties a channel that stays shown.
PurgeExcused(a) ==
    \/ ~page.running
    \/ Last(chans[a].ts).life # Head(toClient).life
    \/ \E b \in Held : Ahead[b] > Slack

LEMMA HelloSpares ==
    ASSUME Typed, NEW L \in Nat, Conn(L), Receive, Head(toClient).e = "hello", Hello(Head(toClient)),
           NEW a \in Addrs, chans[a].ts # <<>>, chans'[a].ts = <<>>
    PROVE  PurgeExcused(a)
<1>1. PICK m \in Event : m = toClient[1] /\ m = Head(toClient) /\ m.e = "hello" /\ Hello(m)
    BY ReceiveIs, ReceivedMail
<1>2. Purged(m.now) /\ m.now \in Nat
    BY <1>1, HelloIs
<1>3. HelloFits(m, L) /\ 1 \in 1 .. Len(toClient)
    BY <1>1, ReceivedMail DEF Conn, Mail
<1>4. SUFFICES ASSUME Last(chans[a].ts).life = m.life, \A b \in Held : ~ (Ahead[b] > Slack)
               PROVE  FALSE
    BY <1>1 DEF PurgeExcused
<1>5. HasLife(chans, L)
    <2>1. Len(chans[a].ts) \in 1 .. Len(chans[a].ts)
        BY NewestIs DEF Typed, TypedChans
    <2>2. chans[a].ts[Len(chans[a].ts)].life = L
        BY <1>3, <1>4 DEF HelloFits, Last
    <2>3. QED
        BY <2>1, <2>2 DEF HasLife
<1>6. AllBelow(chans, m.now)
    BY <1>3, <1>5 DEF HelloFits
<1>7. PICK b \in Addrs : chans[b].ts # <<>> /\ m.now < Newest(chans[b].ts) - Slack
    BY <1>2 DEF Purged
<1>8. b \in Held
    <2>1. chans[b].refs \in 0 .. MaxRefs /\ chans[b].refs # 0
        BY <1>7 DEF Typed, TypedChans
    <2>2. QED
        BY <2>1, Given DEF Held
<1>9. /\ Newest(chans[b].ts) = chans[b].ts[Len(chans[b].ts)].t /\ Newest(chans[b].ts) \in Nat
      /\ Len(chans[b].ts) \in 1 .. Len(chans[b].ts)
    BY <1>7, NewestIs DEF Typed, TypedChans
<1>10. Below(b, Newest(chans[b].ts), m.now)
    BY <1>6, <1>9 DEF AllBelow
<1>11. Ahead[b] \in Nat /\ Slack \in Nat /\ ~ (Ahead[b] > Slack)
    BY <1>4, <1>8, Given
<1>12. QED
    BY <1>2, <1>7, <1>9, <1>10, <1>11, SMTT(30) DEF Below

LEMMA StepSpares ==
    ASSUME Typed, Typed', Connected, [Next]_vars, NEW a \in Addrs,
           chans[a].ts # <<>>, chans'[a].ts = <<>>, chans'[a].refs > 0
    PROVE  PurgeExcused(a)
<1>1. PICK L \in Nat : Conn(L)
    BY DEF Connected
<1>2. CASE UNCHANGED chans
    BY <1>2
<1>3. CASE Receive
    <2>1. CASE Head(toClient).e = "hello" /\ Hello(Head(toClient))
        BY <1>1, <1>3, <2>1, HelloSpares
    <2>2. CASE Head(toClient).e = "d" /\ Data(Head(toClient))
        <3>1. Len(chans[a].ts) <= Len(chans'[a].ts) /\ chans[a].ts \in Seq(Sample)
            BY <1>3, <2>2, ReceiveIs, FedIs DEF Ordered
        <3>2. QED
            BY <3>1
    <2>3. CASE Head(toClient).e = "set" /\ SetAnswer(Head(toClient))
        BY <2>3 DEF SetAnswer
    <2>4. QED
        BY <1>3, <2>1, <2>2, <2>3, ReceiveIs
<1>4. CASE Start
    BY <1>4 DEF Start, PurgeExcused
<1>5. ASSUME NEW x \in Addrs, Subscribe(x) \/ Unsubscribe(x) PROVE PurgeExcused(a)
    <2>0. /\ chans \in [Addrs -> [refs : 0 .. MaxRefs, ts : Ordered]]
          /\ chans[a] \in [refs : 0 .. MaxRefs, ts : Ordered]
        BY DEF Typed, TypedChans
    <2>1. CASE Subscribe(x)
        BY <2>0, <2>1 DEF Subscribe
    <2>2. CASE Unsubscribe(x)
        <3>1. chans' = [chans EXCEPT ![x] = IF chans[x].refs - 1 = 0 THEN [refs |-> 0, ts |-> <<>>]
                                            ELSE [chans[x] EXCEPT !.refs = chans[x].refs - 1]]
            BY <2>2 DEF Unsubscribe
        <3>2. CASE x # a
            BY <2>0, <3>1, <3>2
        <3>3. CASE x = a
            <4>1. chans'[a] = IF chans[a].refs - 1 = 0 THEN [refs |-> 0, ts |-> <<>>]
                              ELSE [chans[a] EXCEPT !.refs = chans[a].refs - 1]
                BY <2>0, <3>1, <3>3
            <4>2. QED
                BY <2>0, <4>1
        <3>4. QED
            BY <3>2, <3>3
    <2>3. QED
        BY <1>5, <2>1, <2>2
<1>6. QED
    <2>1. UNCHANGED chans \/ Receive \/ Start \/ \E x \in Addrs : Subscribe(x) \/ Unsubscribe(x)
        BY Steps DEF Serve, Flush, Open, Cut, Crash, Reboot, Tick, Probe, Reconnect, GiveUp, Refused,
                     Dropped, Write, WriteTimeout, Stop, LogEnable, LogDisable, LogTick, vars
    <2>2. QED
        BY <1>2, <1>3, <1>4, <1>5, <2>1

\* A reconnection to a server that has not restarted never empties what is
\* held, unless an equipment is ahead of it by more than the tolerance.
THEOREM NothingPurgedInVain == Spec => NoFalsePurge
<1>1. Typed /\ Typed' /\ Connected /\ [Next]_vars =>
         [\A a \in Addrs :
            chans[a].ts # <<>> /\ chans'[a].ts = <<>> /\ chans'[a].refs > 0
              => \/ ~page.running
                 \/ Last(chans[a].ts).life # Head(toClient).life
                 \/ \E b \in Held : Ahead[b] > Slack]_vars
    BY StepSpares DEF PurgeExcused
<1>2. QED
    BY <1>1, AlwaysTyped, AlwaysConnected, PTL DEF Spec, NoFalsePurge

-----------------------------------------------------------------------------
(* Curves.  The samples of an address reach the page in batches: each one  *)
(* goes on from the batch before it, or is the beginning of a history.     *)

Bears(a, q, i) == q[i].e = "d" /\ q[i].s[a] # <<>>

LastOf(s) == s[Len(s)].t

\* What is held, when it is added to, has reached date t.
Got(ts, run, t) == run = TRUE /\ ts # <<>> => t <= LastOf(ts)

\* What is held will have reached date t when the k-th message comes.
Reach(a, q, ts, run, k, t) ==
    \/ (\A i \in 1 .. k - 1 : ~Bears(a, q, i)) /\ Got(ts, run, t)
    \/ \E j \in 1 .. k - 1 : /\ Bears(a, q, j) /\ t <= LastOf(q[j].s[a])
                             /\ \A i \in j + 1 .. k - 1 : ~Bears(a, q, i)

\* The beginning of a history: long enough, or from the first sample there is.
Fresh(a, s) == s[1].t + History <= LastOf(s) + 1 \/ s[1].t = Ahead[a]

Linked(a) == \A k \in 1 .. Len(toClient) : Bears(a, toClient, k) =>
    \/ Fresh(a, toClient[k].s[a])
    \/ Reach(a, toClient, chans[a].ts, page.running, k, toClient[k].s[a][1].t - 1)

Cursor(a) == session.cursor[a] # None =>
    \/ ServerNow - session.cursor[a] >= History
    \/ session.cursor[a] < Ahead[a]
    \/ Reach(a, toClient, chans[a].ts, page.running, Len(toClient) + 1, session.cursor[a])

Whole(ts, hello) == \A i \in 1 .. Len(ts) - 1 :
    /\ ts[i].life = ts[i + 1].life =>
          \/ ts[i + 1].t <= ts[i].t + ts[i + 1].step
          \/ ts[i + 1].t + History <= LastOf(ts) + 1
    /\ ts[i].life # ts[i + 1].life => hello >= ts[i].t - Slack

Flow == \A a \in Addrs : Linked(a) /\ Cursor(a) /\ Whole(chans[a].ts, page.hello)

\* Only what precedes the k-th message counts.
LEMMA ReachSame ==
    ASSUME NEW a, NEW q, NEW r, NEW ts, NEW us, NEW run, NEW on, NEW k, NEW t,
           \A i \in 1 .. k - 1 : /\ Bears(a, r, i) <=> Bears(a, q, i)
                                 /\ Bears(a, q, i) => r[i].s[a] = q[i].s[a],
           Got(ts, run, t) => Got(us, on, t),
           Reach(a, q, ts, run, k, t)
    PROVE  Reach(a, r, us, on, k, t)
<1>1. CASE (\A i \in 1 .. k - 1 : ~Bears(a, q, i)) /\ Got(ts, run, t)
    BY <1>1 DEF Reach
<1>2. CASE \E j \in 1 .. k - 1 : /\ Bears(a, q, j) /\ t <= LastOf(q[j].s[a])
                                 /\ \A i \in j + 1 .. k - 1 : ~Bears(a, q, i)
    <2>1. PICK j \in 1 .. k - 1 : /\ Bears(a, q, j) /\ t <= LastOf(q[j].s[a])
                                  /\ \A i \in j + 1 .. k - 1 : ~Bears(a, q, i)
        BY <1>2
    <2>2. Bears(a, r, j) /\ t <= LastOf(r[j].s[a])
        BY <2>1
    <2>3. \A i \in j + 1 .. k - 1 : i \in 1 .. k - 1
        BY <2>1
    <2>4. \A i \in j + 1 .. k - 1 : ~Bears(a, r, i)
        BY <2>1, <2>3
    <2>5. QED
        BY <2>1, <2>2, <2>4 DEF Reach
<1>3. QED
    BY <1>1, <1>2 DEF Reach

\* A message that bears nothing changes nothing.
LEMMA ReachSkip ==
    ASSUME NEW a, NEW q, NEW ts, NEW run, NEW k \in Nat \ {0}, NEW t,
           ~Bears(a, q, k), Reach(a, q, ts, run, k, t)
    PROVE  Reach(a, q, ts, run, k + 1, t)
<1>1. \A i \in 1 .. (k + 1) - 1 : i \in 1 .. k - 1 \/ i = k
    OBVIOUS
<1>2. CASE (\A i \in 1 .. k - 1 : ~Bears(a, q, i)) /\ Got(ts, run, t)
    BY <1>1, <1>2 DEF Reach
<1>3. CASE \E j \in 1 .. k - 1 : /\ Bears(a, q, j) /\ t <= LastOf(q[j].s[a])
                                 /\ \A i \in j + 1 .. k - 1 : ~Bears(a, q, i)
    <2>1. PICK j \in 1 .. k - 1 : /\ Bears(a, q, j) /\ t <= LastOf(q[j].s[a])
                                  /\ \A i \in j + 1 .. k - 1 : ~Bears(a, q, i)
        BY <1>3
    <2>2. j \in 1 .. (k + 1) - 1 /\ \A i \in j + 1 .. (k + 1) - 1 : i \in j + 1 .. k - 1 \/ i = k
        BY <2>1
    <2>3. QED
        BY <2>1, <2>2 DEF Reach
<1>4. QED
    BY <1>2, <1>3 DEF Reach

\* A batch that is borne is the last one.
LEMMA ReachLast ==
    ASSUME NEW a, NEW q, NEW ts, NEW run, NEW k \in Nat \ {0}, NEW t,
           Bears(a, q, k), t <= LastOf(q[k].s[a])
    PROVE  Reach(a, q, ts, run, k + 1, t)
<1>1. k \in 1 .. (k + 1) - 1 /\ \A i \in k + 1 .. (k + 1) - 1 : FALSE
    OBVIOUS
<1>2. QED
    BY <1>1 DEF Reach

\* The first message is received.
LEMMA ReachTail ==
    ASSUME NEW a, NEW q, NEW r, NEW ts, NEW us, NEW run, NEW on, NEW k \in Nat, k >= 2, NEW t,
           \A i \in 1 .. k - 2 : r[i] = q[i + 1],
           ~Bears(a, q, 1) /\ Got(ts, run, t) => Got(us, on, t),
           Bears(a, q, 1) /\ t <= LastOf(q[1].s[a]) => Got(us, on, t),
           Reach(a, q, ts, run, k, t)
    PROVE  Reach(a, r, us, on, k - 1, t)
<1>1. \A i \in 1 .. (k - 1) - 1 : /\ Bears(a, r, i) <=> Bears(a, q, i + 1)
                                  /\ r[i].s[a] = q[i + 1].s[a] /\ i + 1 \in 2 .. k - 1
    BY DEF Bears
<1>2. CASE (\A i \in 1 .. k - 1 : ~Bears(a, q, i)) /\ Got(ts, run, t)
    <2>1. \A i \in 1 .. (k - 1) - 1 : ~Bears(a, r, i)
        BY <1>1, <1>2
    <2>2. ~Bears(a, q, 1)
        BY <1>2
    <2>3. QED
        BY <1>2, <2>1, <2>2 DEF Reach
<1>3. CASE \E j \in 1 .. k - 1 : /\ Bears(a, q, j) /\ t <= LastOf(q[j].s[a])
                                 /\ \A i \in j + 1 .. k - 1 : ~Bears(a, q, i)
    <2>1. PICK j \in 1 .. k - 1 : /\ Bears(a, q, j) /\ t <= LastOf(q[j].s[a])
                                  /\ \A i \in j + 1 .. k - 1 : ~Bears(a, q, i)
        BY <1>3
    <2>2. CASE j = 1
        <3>1. \A i \in 1 .. (k - 1) - 1 : ~Bears(a, r, i)
            <4>1. \A i \in 1 .. (k - 1) - 1 : i + 1 \in j + 1 .. k - 1
                BY <2>2
            <4>2. QED
                BY <1>1, <2>1, <4>1
        <3>2. Got(us, on, t)
            BY <2>1, <2>2
        <3>3. QED
            BY <3>1, <3>2 DEF Reach
    <2>3. CASE j # 1
        <3>1. j - 1 \in 1 .. (k - 1) - 1 /\ (j - 1) + 1 = j
            BY <2>1, <2>3
        <3>2. Bears(a, r, j - 1) /\ t <= LastOf(r[j - 1].s[a])
            BY <1>1, <2>1, <3>1
        <3>3. ASSUME NEW i \in (j - 1) + 1 .. (k - 1) - 1 PROVE ~Bears(a, r, i)
            <4>1. i \in 1 .. (k - 1) - 1 /\ i + 1 \in j + 1 .. k - 1
                BY <2>1, <3>1, <3>3
            <4>2. QED
                BY <1>1, <2>1, <4>1
        <3>4. QED
            BY <3>1, <3>2, <3>3 DEF Reach
    <2>4. QED
        BY <2>2, <2>3
<1>4. QED
    BY <1>2, <1>3 DEF Reach

\* Steps by which the page records nothing and no batch is sent.
QuietQueue ==
    \/ toClient' = toClient
    \/ toClient' = <<>> /\ \A a \in Addrs : session'.cursor[a] = None
    \/ \E n \in Event : n.e # "d" /\ toClient' = Append(toClient, n)

Quiet ==
    /\ QuietQueue
    /\ \A a \in Addrs :
         \/ session'.cursor[a] = None
         \/ ServerNow' - session'.cursor[a] >= History
         \/ session'.cursor[a] = session.cursor[a] /\ ServerNow <= ServerNow'
    /\ Shrunk /\ page'.hello = page.hello
    /\ page'.running = TRUE => page.running = TRUE \/ \A a \in Addrs : chans'[a].ts = <<>>

LEMMA QuietFlow ==
    ASSUME Typed, Typed', Flow, Quiet
    PROVE  Flow'
<1>1. ASSUME NEW a \in Addrs, NEW t
      PROVE  Got(chans[a].ts, page.running, t) => Got(chans'[a].ts, page'.running, t)
    BY DEF Quiet, Shrunk, Got
<1>2. ASSUME NEW a \in Addrs PROVE Whole(chans'[a].ts, page'.hello)
    <2>1. CASE chans'[a].ts = chans[a].ts
        BY <2>1 DEF Flow, Quiet
    <2>2. CASE chans'[a].ts = <<>>
        BY <2>2 DEF Whole
    <2>3. QED
        BY <2>1, <2>2 DEF Quiet, Shrunk
<1>3. toClient \in Seq(Event) /\ Len(toClient) \in Nat
    BY DEF Typed
<1>4. ASSUME NEW a \in Addrs PROVE Linked(a)' /\ Cursor(a)'
    <2>1. CASE toClient' = <<>> /\ \A x \in Addrs : session'.cursor[x] = None
        BY <2>1 DEF Linked, Cursor
    <2>2. ASSUME /\ Len(toClient') = Len(toClient) \/ Len(toClient') = Len(toClient) + 1
                 /\ \A i \in 1 .. Len(toClient) : toClient'[i] = toClient[i]
                 /\ Len(toClient') = Len(toClient) + 1 => ~Bears(a, toClient', Len(toClient) + 1)
          PROVE  Linked(a)' /\ Cursor(a)'
        <3>1. ASSUME NEW k \in 1 .. Len(toClient) + 1, NEW t,
                     Reach(a, toClient, chans[a].ts, page.running, k, t)
              PROVE  Reach(a, toClient', chans'[a].ts, page'.running, k, t)
            <4>1. \A i \in 1 .. k - 1 : i \in 1 .. Len(toClient)
                BY <1>3
            <4>2. \A i \in 1 .. k - 1 : /\ Bears(a, toClient', i) <=> Bears(a, toClient, i)
                                        /\ Bears(a, toClient, i) => toClient'[i].s[a] = toClient[i].s[a]
                BY <2>2, <4>1 DEF Bears
            <4>3. QED
                BY <1>1, <3>1, <4>2, ReachSame
        <3>2. ASSUME NEW k \in 1 .. Len(toClient'), Bears(a, toClient', k)
              PROVE  \/ Fresh(a, toClient'[k].s[a])
                     \/ Reach(a, toClient', chans'[a].ts, page'.running, k, toClient'[k].s[a][1].t - 1)
            <4>1. k \in 1 .. Len(toClient) /\ toClient'[k] = toClient[k]
                BY <1>3, <2>2, <3>2
            <4>2. Bears(a, toClient, k)
                BY <3>2, <4>1 DEF Bears
            <4>3. \/ Fresh(a, toClient[k].s[a])
                  \/ Reach(a, toClient, chans[a].ts, page.running, k, toClient[k].s[a][1].t - 1)
                BY <4>1, <4>2 DEF Flow, Linked
            <4>4. k \in 1 .. Len(toClient) + 1
                BY <1>3, <4>1
            <4>5. QED
                BY <3>1, <4>1, <4>3, <4>4
        <3>3. Linked(a)'
            BY <3>2 DEF Linked
        <3>4. ASSUME session'.cursor[a] # None
              PROVE  \/ ServerNow' - session'.cursor[a] >= History
                     \/ session'.cursor[a] < Ahead[a]
                     \/ Reach(a, toClient', chans'[a].ts, page'.running, Len(toClient') + 1, session'.cursor[a])
            <4>1. CASE ServerNow' - session'.cursor[a] >= History
                BY <4>1
            <4>2. CASE session'.cursor[a] = session.cursor[a] /\ ServerNow <= ServerNow'
                <5>1. \/ ServerNow - session.cursor[a] >= History
                      \/ session.cursor[a] < Ahead[a]
                      \/ Reach(a, toClient, chans[a].ts, page.running, Len(toClient) + 1, session.cursor[a])
                    BY <3>4, <4>2 DEF Flow, Cursor
                <5>2. CASE ServerNow - session.cursor[a] >= History
                    <6>1. \A p, q \in Nat, c \in Int : p <= q /\ p - c >= History => q - c >= History
                        BY Given
                    <6>2. ServerNow \in Nat /\ ServerNow' \in Nat /\ session.cursor[a] \in Int
                        <7>1. ServerNow \in Nat
                            BY NowIsNat DEF Typed
                        <7>2. ServerNow' \in Nat
                            BY Given DEF Typed, TypedServer, ServerNow
                        <7>3. session.cursor[a] \in Int
                            BY <3>4, <4>2 DEF Typed, TypedServer
                        <7>4. QED
                            BY <7>1, <7>2, <7>3
                    <6>3. ServerNow' - session.cursor[a] >= History
                        BY <4>2, <5>2, <6>1, <6>2, Zenon
                    <6>4. QED
                        BY <4>2, <6>3
                <5>3. CASE session.cursor[a] < Ahead[a]
                    BY <4>2, <5>3
                <5>4. CASE Reach(a, toClient, chans[a].ts, page.running, Len(toClient) + 1, session.cursor[a])
                    <6>1. Len(toClient) + 1 \in 1 .. Len(toClient) + 1 /\ Len(toClient) + 1 \in Nat \ {0}
                        BY <1>3
                    <6>2. Reach(a, toClient', chans'[a].ts, page'.running, Len(toClient) + 1, session.cursor[a])
                        BY <3>1, <5>4, <6>1
                    <6>3. CASE Len(toClient') = Len(toClient)
                        BY <4>2, <6>2, <6>3
                    <6>4. CASE Len(toClient') = Len(toClient) + 1
                        <7>1. Reach(a, toClient', chans'[a].ts, page'.running, (Len(toClient) + 1) + 1, session.cursor[a])
                            BY <2>2, <6>1, <6>2, <6>4, ReachSkip
                        <7>2. QED
                            BY <4>2, <6>4, <7>1
                    <6>5. QED
                        BY <2>2, <6>3, <6>4
                <5>5. QED
                    BY <5>1, <5>2, <5>3, <5>4
            <4>3. QED
                BY <3>4, <4>1, <4>2 DEF Quiet
        <3>5. Cursor(a)'
            BY <3>4 DEF Cursor
        <3>6. QED
            BY <3>3, <3>5
    <2>3. CASE toClient' = toClient
        BY <1>3, <2>2, <2>3
    <2>4. CASE \E n \in Event : n.e # "d" /\ toClient' = Append(toClient, n)
        <3>1. PICK n \in Event : n.e # "d" /\ toClient' = Append(toClient, n)
            BY <2>4
        <3>2. /\ Len(toClient') = Len(toClient) + 1 /\ toClient'[Len(toClient) + 1] = n
              /\ \A i \in 1 .. Len(toClient) : toClient'[i] = toClient[i]
            BY <1>3, <3>1
        <3>3. ~Bears(a, toClient', Len(toClient) + 1)
            BY <3>1, <3>2 DEF Bears
        <3>4. QED
            BY <2>2, <3>2, <3>3
    <2>5. QED
        BY <2>1, <2>3, <2>4 DEF Quiet, QuietQueue
<1>5. QED
    BY <1>2, <1>4 DEF Flow

LEMMA NetQuiet ==
    ASSUME Typed, NEW L \in Nat, Conn(L),
           Cut \/ Crash \/ Reboot \/ Tick \/ Probe \/ Reconnect \/ GiveUp \/ Refused \/ Dropped
    PROVE  Quiet
<1>1. UNCHANGED chans /\ page'.hello = page.hello /\ page'.running = page.running
    BY DEF Cut, Crash, Reboot, Tick, Probe, Reconnect, GiveUp, Refused, Dropped, network, Connecting,
           Typed, TypedPage
<1>2. session.live # TRUE => \A a \in Addrs : session.cursor[a] = None
    BY DEF Conn, Peers
<1>3. CASE Cut \/ Crash \/ GiveUp
    <2>1. (\A a \in Addrs : session'.cursor[a] = None) /\ toClient' = toClient
        BY <1>3, NoSessionIs DEF Cut, Crash, GiveUp
    <2>2. QED
        BY <1>1, <2>1 DEF Quiet, QuietQueue, Shrunk
<1>4. CASE Reboot
    <2>1. ~server.up /\ session' = session /\ toClient' = toClient
        BY <1>4 DEF Reboot, network
    <2>2. server.up # TRUE
        BY <2>1, Zenon
    <2>3. session.live # TRUE
        BY <2>2 DEF Typed, TypedServer
    <2>4. QED
        BY <1>1, <1>2, <2>1, <2>3 DEF Quiet, QuietQueue, Shrunk
<1>5. CASE Tick \/ Probe \/ Reconnect
    <2>1. UNCHANGED <<session, toClient, server>> /\ (time' = time \/ time' = time + 1)
        BY <1>5 DEF Tick, Probe, Reconnect, network
    <2>2. ServerNow <= ServerNow'
        BY <2>1, SameClock DEF Typed
    <2>3. QED
        BY <1>1, <2>1, <2>2 DEF Quiet, QuietQueue, Shrunk
<1>6. CASE Refused \/ Dropped
    <2>1. /\ session' = session /\ toClient' = <<>>
          /\ page.sock # "open" \/ session.live # TRUE
        BY <1>6 DEF Refused, Dropped, IsOpen, Typed, TypedServer
    <2>2. session.live # TRUE
        BY <2>1 DEF Conn, Peers
    <2>3. QED
        BY <1>1, <1>2, <2>1, <2>2 DEF Quiet, QuietQueue, Shrunk
<1>7. QED
    BY <1>3, <1>4, <1>5, <1>6

LEMMA PageQuiet ==
    ASSUME Typed, NEW L \in Nat, Conn(L),
           \/ Stop \/ Start \/ LogEnable \/ LogDisable \/ LogTick \/ UNCHANGED vars
           \/ \E a \in Addrs : Subscribe(a) \/ Unsubscribe(a) \/ Write(a) \/ WriteTimeout(a)
    PROVE  Quiet
<1>1. UNCHANGED <<session, toClient>>
    BY DEF Stop, Start, LogEnable, LogDisable, LogTick, vars, network, Subscribe, Unsubscribe, Write,
           WriteTimeout
<1>2. Still
    BY PageStill
<1>3. page'.running = TRUE => page.running = TRUE \/ \A a \in Addrs : chans'[a].ts = <<>>
    <2>1. CASE Start
        BY <2>1, EmptiedIs DEF Start, Typed
    <2>2. CASE Stop
        BY <2>2 DEF Stop, Typed, TypedPage
    <2>3. CASE UNCHANGED page
        BY <2>3
    <2>4. QED
        BY <2>1, <2>2, <2>3 DEF LogEnable, LogDisable, LogTick, vars, Subscribe, Unsubscribe, Write, WriteTimeout
<1>4. QED
    BY <1>1, <1>2, <1>3 DEF Still, Quiet, QuietQueue

LEMMA ServeQuiet ==
    ASSUME Typed, NEW L \in Nat, Conn(L), Serve
    PROVE  Quiet
<1> DEFINE m == Head(toServer)
<1>1. Still /\ UNCHANGED <<time, page, chans>>
    BY ServeStill DEF Serve
<1>2. m \in Command
    <2>1. toServer \in Seq(Command) /\ toServer # <<>>
        BY DEF Serve, Typed
    <2>2. QED
        BY <2>1
<1>3. \/ session' = session
      \/ session' = [session EXCEPT !.cursor[m.addr] = ServerNow - History]
      \/ session' = [session EXCEPT !.cursor[m.addr] = None]
    BY DEF Serve
<1>4. session.cursor \in [Addrs -> Int \cup {None}] /\ session \in [live : BOOLEAN, cursor : [Addrs -> Int \cup {None}]]
    BY DEF Typed, TypedServer
<1> HIDE DEF m
<1>5. ServerNow <= ServerNow' /\ (session' = session \/ ServerNow' = ServerNow)
    <2>1. session' = session \/ UNCHANGED server
        BY DEF Serve
    <2>2. UNCHANGED <<time, server>> => ServerNow' = ServerNow
        BY DEF ServerNow
    <2>3. QED
        BY <1>1, <2>1, <2>2 DEF Still
<1>6. ASSUME NEW a \in Addrs
      PROVE  \/ session'.cursor[a] = None
             \/ ServerNow' - session'.cursor[a] >= History
             \/ session'.cursor[a] = session.cursor[a]
    <2>1. CASE session' = session
        BY <2>1
    <2>2. CASE session' # session /\ session' = [session EXCEPT !.cursor[m.addr] = ServerNow - History]
        <3>1. session'.cursor[a] = session.cursor[a] \/ session'.cursor[a] = ServerNow - History
            BY <1>4, <2>2
        <3>2. ServerNow - (ServerNow - History) >= History
            <4>1. ServerNow \in Nat /\ History \in Nat
                BY NowIsNat, Given DEF Typed
            <4>2. QED
                BY <4>1
        <3>3. ServerNow' = ServerNow
            BY <1>5, <2>2
        <3>4. QED
            BY <3>1, <3>2, <3>3
    <2>3. CASE session' = [session EXCEPT !.cursor[m.addr] = None]
        BY <1>4, <2>3
    <2>4. QED
        BY <1>3, <2>1, <2>2, <2>3
<1>7. QuietQueue
    <2>1. CASE UNCHANGED toClient
        BY <2>1 DEF QuietQueue
    <2>2. CASE m.c = "set" /\ \E ok \in BOOLEAN : toClient' = Append(toClient, [e |-> "set", addr |-> m.addr, ok |-> ok])
        <3>1. PICK ok \in BOOLEAN : toClient' = Append(toClient, [e |-> "set", addr |-> m.addr, ok |-> ok])
            BY <2>2
        <3>2. m.addr \in Addrs
            BY <1>2, <2>2 DEF Command
        <3>3. [e |-> "set", addr |-> m.addr, ok |-> ok] \in Event /\ [e |-> "set", addr |-> m.addr, ok |-> ok].e # "d"
            BY <3>2 DEF Event
        <3>4. QED
            BY <3>1, <3>3 DEF QuietQueue
    <2>3. QED
        BY <2>1, <2>2 DEF Serve, m
<1>8. QED
    BY <1>1, <1>5, <1>6, <1>7 DEF Quiet, Still

LEMMA OpenFlow ==
    ASSUME Typed, Flow, Open
    PROVE  Flow'
<1>1. /\ \A a \in Addrs : session'.cursor[a] = None
      /\ toClient' = <<[e |-> "hello", now |-> ServerNow, life |-> server.life]>>
      /\ UNCHANGED chans /\ page' = [page EXCEPT !.sock = "open"]
    BY OpenIs
<1>2. page'.hello = page.hello
    BY <1>1 DEF Typed, TypedPage
<1>3. \A i \in 1 .. Len(toClient') : toClient'[i].e # "d"
    BY <1>1
<1>4. QED
    BY <1>1, <1>2, <1>3 DEF Flow, Linked, Cursor, Bears

\* What is under way after the first message is received.
LEMMA ReceivedFlow ==
    ASSUME Typed, NEW L \in Nat, Conn(L), Flow, Receive, NEW a \in Addrs,
           \A t \in Int : ~Bears(a, toClient, 1) /\ Got(chans[a].ts, page.running, t)
                            => Got(chans'[a].ts, page'.running, t),
           \A t \in Int : Bears(a, toClient, 1) /\ t <= LastOf(toClient[1].s[a])
                            => Got(chans'[a].ts, page'.running, t)
    PROVE  Linked(a)' /\ Cursor(a)'
<1>1. /\ toClient \in Seq(Event) /\ toClient # <<>> /\ toClient' = Tail(toClient)
      /\ UNCHANGED <<time, server, session>>
    BY ReceiveIs DEF Typed
<1>2. /\ Len(toClient) \in Nat \ {0} /\ Len(toClient') = Len(toClient) - 1
      /\ \A i \in 1 .. Len(toClient') : i + 1 \in 1 .. Len(toClient) /\ toClient'[i] = toClient[i + 1]
    BY <1>1
<1>3. ASSUME NEW k \in 1 .. Len(toClient'), Bears(a, toClient', k)
      PROVE  \/ Fresh(a, toClient'[k].s[a])
             \/ Reach(a, toClient', chans'[a].ts, page'.running, k, toClient'[k].s[a][1].t - 1)
    <2> DEFINE s == toClient[k + 1].s[a]
    <2>1. k + 1 \in 1 .. Len(toClient) /\ toClient'[k] = toClient[k + 1] /\ k + 1 >= 2 /\ k + 1 \in Nat
        BY <1>2
    <2>2. Bears(a, toClient, k + 1)
        BY <1>3, <2>1 DEF Bears
    <2>3. s \in Ordered /\ s # <<>>
        BY <2>1, <2>2, MessageIs DEF Bears
    <2>4. s[1].t - 1 \in Int
        <3>1. s \in Seq(Sample) /\ 1 \in 1 .. Len(s)
            BY <2>3 DEF Ordered
        <3>2. s[1].t \in Nat
            BY <3>1, DatesAre
        <3>3. QED
            BY <3>2, SMTT(30)
    <2> HIDE DEF s
    <2>5. CASE Fresh(a, s)
        BY <2>1, <2>5 DEF s
    <2>6. CASE Reach(a, toClient, chans[a].ts, page.running, k + 1, s[1].t - 1)
        <3>1. \A i \in 1 .. (k + 1) - 2 : toClient'[i] = toClient[i + 1]
            BY <1>2
        <3>2. Reach(a, toClient', chans'[a].ts, page'.running, (k + 1) - 1, s[1].t - 1)
            BY <2>1, <2>4, <2>6, <3>1, ReachTail
        <3>3. (k + 1) - 1 = k
            OBVIOUS
        <3>4. QED
            BY <2>1, <3>2, <3>3 DEF s
    <2>7. QED
        BY <2>1, <2>2, <2>5, <2>6 DEF Flow, Linked, s
<1>4. ASSUME session'.cursor[a] # None
      PROVE  \/ ServerNow' - session'.cursor[a] >= History
             \/ session'.cursor[a] < Ahead[a]
             \/ Reach(a, toClient', chans'[a].ts, page'.running, Len(toClient') + 1, session'.cursor[a])
    <2>1. ServerNow' = ServerNow /\ session'.cursor[a] = session.cursor[a]
        BY <1>1 DEF ServerNow
    <2>2. session.cursor[a] \in Int
        BY <1>4, <2>1 DEF Typed, TypedServer
    <2>3. CASE Reach(a, toClient, chans[a].ts, page.running, Len(toClient) + 1, session.cursor[a])
        <3>1. Len(toClient) + 1 \in Nat /\ Len(toClient) + 1 >= 2 /\ (Len(toClient) + 1) - 1 = Len(toClient') + 1
            BY <1>2
        <3>2. \A i \in 1 .. (Len(toClient) + 1) - 2 : toClient'[i] = toClient[i + 1]
            BY <1>2
        <3>3. Reach(a, toClient', chans'[a].ts, page'.running, (Len(toClient) + 1) - 1, session.cursor[a])
            BY <2>2, <2>3, <3>1, <3>2, ReachTail
        <3>4. QED
            BY <2>1, <3>1, <3>3
    <2>4. QED
        BY <1>4, <2>1, <2>3 DEF Flow, Cursor
<1>5. QED
    BY <1>3, <1>4 DEF Linked, Cursor

LEMMA AnswerFlow ==
    ASSUME Typed, NEW L \in Nat, Conn(L), Flow, Receive, Head(toClient).e = "set", SetAnswer(Head(toClient))
    PROVE  Flow'
<1>1. UNCHANGED <<page, chans>> /\ toClient[1].e = "set"
    BY ReceivedMail DEF SetAnswer
<1>2. \A a \in Addrs : ~Bears(a, toClient, 1)
    BY <1>1 DEF Bears
<1>3. \A a \in Addrs : Linked(a)' /\ Cursor(a)'
    BY <1>1, <1>2, ReceivedFlow
<1>4. \A a \in Addrs : Whole(chans[a].ts, page.hello)'
    BY <1>1 DEF Flow
<1>5. QED
    BY <1>3, <1>4 DEF Flow

LEMMA HelloFlow ==
    ASSUME Typed, Typed', NEW L \in Nat, Conn(L), Flow, Receive,
           Head(toClient).e = "hello", Hello(Head(toClient))
    PROVE  Flow'
<1>1. PICK m \in Event : m = toClient[1] /\ m = Head(toClient) /\ m.e = "hello" /\ Hello(m)
    BY ReceiveIs, ReceivedMail
<1>2. /\ page'.hello = m.now /\ page'.running = page.running /\ m.now \in Nat
      /\ Purged(m.now) => chans' = Emptied
      /\ ~Purged(m.now) => chans' = chans
    BY <1>1, HelloIs
<1>3. \A a \in Addrs : Purged(m.now) => chans'[a].ts = <<>>
    BY <1>2, EmptiedIs DEF Typed
<1>4. \A a \in Addrs : ~Bears(a, toClient, 1)
    BY <1>1 DEF Bears
<1>5. ASSUME NEW a \in Addrs, NEW t
      PROVE  Got(chans[a].ts, page.running, t) => Got(chans'[a].ts, page'.running, t)
    BY <1>2, <1>3 DEF Got
<1>6. \A a \in Addrs : Linked(a)' /\ Cursor(a)'
    BY <1>4, <1>5, ReceivedFlow
<1>7. ASSUME NEW a \in Addrs PROVE Whole(chans'[a].ts, page'.hello)
    <2>1. CASE Purged(m.now)
        BY <1>3, <2>1 DEF Whole
    <2>2. CASE ~Purged(m.now)
        <3>1. \A i \in 1 .. Len(chans[a].ts) : chans[a].ts[i].t <= m.now + Slack
            BY <1>2, <2>2, KeptIs
        <3>2. chans[a].ts \in Seq(Sample)
            BY DEF Typed, TypedChans, Ordered
        <3>3. ASSUME NEW i \in 1 .. Len(chans[a].ts) - 1 PROVE m.now >= chans[a].ts[i].t - Slack
            <4>1. i \in 1 .. Len(chans[a].ts)
                BY <3>2
            <4>2. chans[a].ts[i].t \in Nat /\ chans[a].ts[i].t <= m.now + Slack /\ Slack \in Nat
                BY <3>1, <3>2, <4>1, DatesAre, Given
            <4>3. QED
                BY <1>2, <4>2, SMTT(30)
        <3>4. Whole(chans[a].ts, page.hello) /\ chans' = chans
            BY <1>2, <2>2 DEF Flow
        <3>5. QED
            BY <1>2, <3>3, <3>4 DEF Whole
    <2>3. QED
        BY <2>1, <2>2
<1>8. QED
    BY <1>6, <1>7 DEF Flow

\* A curve r after ts was fed with new: the first k samples of new were known.
Grown(r, ts, new, k) ==
    /\ Len(r) = Len(ts) + (Len(new) - k)
    /\ \A i \in 1 .. Len(ts) : r[i] = ts[i]
    /\ \A i \in 1 .. Len(new) - k : r[Len(ts) + i] = new[k + i]
    /\ ts = <<>> => k = 0
    /\ ts # <<>> => /\ k > 0 => new[k].t <= LastOf(ts)
                    /\ k < Len(new) => new[k + 1].t > LastOf(ts)

LEMMA GrownIs ==
    ASSUME NEW ts \in Ordered, NEW new \in Ordered
    PROVE  \E k \in 0 .. Len(new) : Grown(Recorded(ts, new), ts, new, k)
<1> DEFINE r == Recorded(ts, new)
<1>1. PICK u \in Seq(Sample) : /\ r = ts \o u
                               /\ ts = <<>> => u = new
                               /\ ts # <<>> => EndPast(u, new, Newest(ts))
    BY RecordedIs
<1>2. ts \in Seq(Sample) /\ new \in Seq(Sample)
    BY DEF Ordered
<1> HIDE DEF r
<1>3. Len(r) = Len(ts) + Len(u) /\ \A i \in 1 .. Len(r) : r[i] = IF i <= Len(ts) THEN ts[i] ELSE u[i - Len(ts)]
    BY <1>1, <1>2
<1>4. PICK k \in 0 .. Len(new) :
         /\ Len(u) = Len(new) - k /\ \A i \in 1 .. Len(u) : u[i] = new[k + i]
         /\ ts = <<>> => k = 0
         /\ ts # <<>> => /\ k > 0 => new[k].t <= Newest(ts)
                         /\ k < Len(new) => new[k + 1].t > Newest(ts)
    <2>1. CASE ts = <<>>
        BY <1>1, <1>2, <2>1
    <2>2. CASE ts # <<>>
        <3>1. PICK k \in 0 .. Len(new) :
                 /\ Len(u) = Len(new) - k
                 /\ \A i \in 1 .. Len(u) : u[i] = new[k + i] /\ new[k + i].t > Newest(ts)
                 /\ \A i \in 1 .. k : new[i].t <= Newest(ts)
            BY <1>1, <2>2 DEF EndPast
        <3>2. k > 0 => k \in 1 .. k
            OBVIOUS
        <3>3. k < Len(new) => 1 \in 1 .. Len(u)
            BY <1>2, <3>1
        <3>4. QED
            BY <2>2, <3>1, <3>2, <3>3
    <2>3. QED
        BY <2>1, <2>2
<1>5. ts # <<>> => Newest(ts) = LastOf(ts)
    BY NewestIs DEF LastOf
<1>6. Len(r) = Len(ts) + (Len(new) - k)
    BY <1>3, <1>4
<1>7. \A i \in 1 .. Len(ts) : r[i] = ts[i]
    BY <1>1, <1>2, <1>3
<1>8. ASSUME NEW i \in 1 .. Len(new) - k PROVE r[Len(ts) + i] = new[k + i]
    <2>1. Len(ts) + i \in 1 .. Len(r) /\ ~ (Len(ts) + i <= Len(ts)) /\ (Len(ts) + i) - Len(ts) = i
        BY <1>2, <1>6
    <2>2. u[i] = new[k + i]
        BY <1>4
    <2>3. QED
        BY <1>3, <2>1, <2>2
<1>9. Grown(r, ts, new, k)
    BY <1>4, <1>5, <1>6, <1>7, <1>8 DEF Grown
<1>10. QED
    BY <1>9 DEF r

\* What was fed has reached the end of the batch.
LEMMA GrownReaches ==
    ASSUME NEW ts \in Ordered, NEW new \in Ordered, NEW r \in Ordered,
           NEW k \in 0 .. Len(new), Grown(r, ts, new, k), new # <<>>
    PROVE  r # <<>> /\ LastOf(new) <= LastOf(r)
<1>1. /\ ts \in Seq(Sample) /\ new \in Seq(Sample) /\ r \in Seq(Sample)
      /\ Len(ts) \in Nat /\ Len(new) \in Nat \ {0} /\ Len(r) \in Nat
    BY DEF Ordered
<1>2. LastOf(new) \in Nat
    <2>1. Len(new) \in 1 .. Len(new)
        BY <1>1
    <2>2. QED
        BY <1>1, <2>1, DatesAre DEF LastOf
<1>3. CASE k < Len(new)
    <2>1. Len(new) - k \in 1 .. Len(new) - k /\ k + (Len(new) - k) = Len(new)
        BY <1>1, <1>3
    <2>2. r[Len(ts) + (Len(new) - k)] = new[k + (Len(new) - k)]
        BY <2>1 DEF Grown
    <2>3. Len(r) = Len(ts) + (Len(new) - k)
        BY DEF Grown
    <2>4. LastOf(r) = LastOf(new)
        BY <2>1, <2>2, <2>3 DEF LastOf
    <2>5. Len(r) > 0
        BY <1>1, <1>3, <2>3
    <2>6. QED
        BY <1>1, <1>2, <2>4, <2>5
<1>4. CASE ~ (k < Len(new))
    <2>1. k = Len(new) /\ k > 0
        BY <1>1, <1>4
    <2>2. ts # <<>>
        BY <2>1 DEF Grown
    <2>3. Len(r) = Len(ts) /\ Len(ts) \in 1 .. Len(ts)
        BY <1>1, <2>1, <2>2 DEF Grown
    <2>4. LastOf(r) = LastOf(ts)
        BY <2>3 DEF Grown, LastOf
    <2>5. LastOf(new) <= LastOf(ts)
        BY <2>1, <2>2 DEF Grown, LastOf
    <2>6. QED
        BY <1>1, <2>2, <2>3, <2>4, <2>5
<1>5. QED
    BY <1>3, <1>4

LEMMA Gap ==
    ASSUME NEW n \in Nat, NEW m \in Nat, NEW i \in 1 .. n - 1, i > m
    PROVE  i - m \in Nat /\ i - m >= 1
    OBVIOUS

\* A batch that goes on from a curve, or begins a history, leaves it whole.
LEMMA GrownWhole ==
    ASSUME NEW a \in Addrs, NEW L, NEW ts \in Ordered, NEW new \in Ordered, NEW r \in Ordered,
           NEW k \in 0 .. Len(new), Grown(r, ts, new, k),
           page.hello \in Nat, Whole(ts, page.hello), Joins(ts, L), BatchFits(a, new, L),
           \A i \in 1 .. Len(ts) : ts[i].t >= Ahead[a],
           new # <<>> /\ ts # <<>> => Fresh(a, new) \/ new[1].t - 1 <= LastOf(ts)
    PROVE  Whole(r, page.hello)
<1>1. /\ ts \in Seq(Sample) /\ new \in Seq(Sample) /\ r \in Seq(Sample)
      /\ Len(ts) \in Nat /\ Len(new) \in Nat /\ Len(r) = Len(ts) + (Len(new) - k)
      /\ k \in Nat /\ k <= Len(new)
    BY DEF Ordered, Grown
<1>2. History \in Nat /\ Slack \in Nat /\ Ahead[a] \in Nat
    BY Given
<1> DEFINE Fine(i) ==
             /\ r[i].life = r[i + 1].life =>
                   \/ r[i + 1].t <= r[i].t + r[i + 1].step
                   \/ r[i + 1].t + History <= LastOf(r) + 1
             /\ r[i].life # r[i + 1].life => page.hello >= r[i].t - Slack
<1>3. ASSUME NEW i \in 1 .. Len(r) - 1, i < Len(ts) PROVE Fine(i)
    <2>1. i \in 1 .. Len(ts) - 1 /\ i \in 1 .. Len(ts) /\ i + 1 \in 1 .. Len(ts)
        BY <1>1, <1>3, SMTT(30)
    <2>2. r[i] = ts[i] /\ r[i + 1] = ts[i + 1]
        BY <2>1 DEF Grown
    <2>3. ts[i + 1].t + History <= LastOf(ts) + 1 => r[i + 1].t + History <= LastOf(r) + 1
        <3>1. Len(ts) \in 1 .. Len(ts) /\ Len(ts) \in 1 .. Len(r) /\ Len(r) \in 1 .. Len(r)
            BY <1>1, <2>1
        <3>2. LastOf(ts) = r[Len(ts)].t
            BY <3>1 DEF Grown, LastOf
        <3>3. Len(ts) = Len(r) \/ r[Len(ts)].t < r[Len(r)].t
            <4>1. InOrder(r)
                BY DEF Ordered
            <4>2. Len(ts) = Len(r) \/ Len(ts) < Len(r)
                BY <3>1
            <4>3. QED
                BY <3>1, <4>1, <4>2 DEF InOrder
        <3>4. ts[i + 1].t \in Nat /\ r[Len(ts)].t \in Nat /\ r[Len(r)].t \in Nat
            BY <1>1, <2>1, <3>1, DatesAre
        <3>5. LastOf(ts) <= LastOf(r) /\ LastOf(ts) \in Nat /\ LastOf(r) \in Nat
            BY <3>2, <3>3, <3>4 DEF LastOf
        <3>6. \A x, h, p, q \in Nat : p <= q => (x + h <= p + 1 => x + h <= q + 1)
            OBVIOUS
        <3>7. QED
            BY <1>2, <2>2, <3>4, <3>5, <3>6, Zenon
    <2>4. /\ ts[i].life = ts[i + 1].life =>
                \/ ts[i + 1].t <= ts[i].t + ts[i + 1].step
                \/ ts[i + 1].t + History <= LastOf(ts) + 1
          /\ ts[i].life # ts[i + 1].life => page.hello >= ts[i].t - Slack
        BY <2>1 DEF Whole
    <2>5. QED
        BY <2>2, <2>3, <2>4
<1>4. ASSUME NEW i \in 1 .. Len(r) - 1, i > Len(ts) PROVE Fine(i)
    <2>1. PICK j \in Nat : j = i - Len(ts)
        <3>1. Len(r) \in Nat
            BY <1>1
        <3>2. i - Len(ts) \in Nat
            BY <1>1, <1>4, <3>1, Gap, Zenon
        <3>3. QED
            BY <3>2, Zenon
    <2>2. /\ j \in 1 .. Len(new) - k /\ j + 1 \in 1 .. Len(new) - k
          /\ i = Len(ts) + j /\ i + 1 = Len(ts) + (j + 1)
          /\ k + j \in 1 .. Len(new) /\ k + (j + 1) \in 1 .. Len(new)
        BY <1>1, <1>4, <2>1, SMTT(30)
    <2>3. r[i] = new[k + j] /\ r[i + 1] = new[k + (j + 1)]
        BY <2>2 DEF Grown
    <2>4. new[k + j].life = L /\ new[k + (j + 1)].life = L
        BY <2>2 DEF BatchFits
    <2>5. k + j \in 1 .. Len(new) - 1 /\ k + (j + 1) = (k + j) + 1
        BY <1>1, <2>1, <2>2
    <2>6. new[k + (j + 1)].t <= new[k + j].t + new[k + (j + 1)].step
        BY <2>5 DEF BatchFits, Stepped
    <2>7. QED
        BY <2>3, <2>4, <2>6
<1>5. ASSUME NEW i \in 1 .. Len(r) - 1, i = Len(ts) PROVE Fine(i)
    <2>1. ts # <<>> /\ i \in 1 .. Len(ts) /\ k < Len(new) /\ 1 \in 1 .. Len(new) - k /\ k + 1 \in 1 .. Len(new)
        BY <1>1, <1>5
    <2>2. r[i] = ts[i] /\ r[i + 1] = new[k + 1] /\ LastOf(ts) = ts[i].t
        BY <1>5, <2>1 DEF Grown, LastOf
    <2>3. new[k + 1].life = L /\ new[k + 1].t > ts[i].t
        BY <2>1, <2>2 DEF BatchFits, Grown
    <2>4. 1 \in 1 .. Len(new) /\ new # <<>>
        BY <1>1, <2>1
    <2>5. new[1].t \in Nat /\ ts[i].t \in Nat
        BY <1>1, <2>1, <2>4, DatesAre
    <2>6. r[i].life # r[i + 1].life => page.hello >= r[i].t - Slack
        <3>1. SUFFICES ASSUME r[i].life # r[i + 1].life PROVE page.hello >= r[i].t - Slack
            OBVIOUS
        <3>2. ts[i].t <= page.hello + Slack
            BY <1>5, <2>1, <2>2, <2>3, <3>1 DEF Joins
        <3>3. QED
            BY <1>2, <2>2, <2>5, <3>2, SMTT(30)
    <2>7. r[i + 1].t <= r[i].t + r[i + 1].step \/ r[i + 1].t + History <= LastOf(r) + 1
        <3>0. new[k + 1].t \in Nat /\ new[k + 1].step \in Nat \ {0}
            BY <1>1, <2>1, DatesAre
        <3>1. CASE k > 0
            <4>1. new[k].t <= ts[i].t
                BY <2>1, <2>2, <3>1 DEF Grown
            <4>2. k \in 1 .. Len(new) - 1 /\ k \in 1 .. Len(new)
                BY <1>1, <2>1, <3>1
            <4>3. new[k + 1].t <= new[k].t + new[k + 1].step
                BY <4>2 DEF BatchFits, Stepped
            <4>4. new[k].t \in Nat
                BY <1>1, <4>2, DatesAre
            <4>5. new[k + 1].t <= ts[i].t + new[k + 1].step
                BY <2>5, <3>0, <4>1, <4>3, <4>4
            <4>6. QED
                BY <2>2, <4>5
        <3>2. CASE k = 0 /\ new[1].t - 1 <= LastOf(ts)
            <4>1. k + 1 = 1
                BY <3>2
            <4>2. new[1].t - 1 <= ts[i].t /\ new[1].step \in Nat \ {0}
                BY <2>2, <3>0, <3>2, <4>1
            <4>3. new[1].t <= ts[i].t + new[1].step
                BY <2>5, <4>2, SMTT(30)
            <4>4. QED
                BY <2>2, <4>1, <4>3
        <3>3. CASE k = 0 /\ new[1].t + History <= LastOf(new) + 1
            <4>1. new # <<>> /\ LastOf(new) <= LastOf(r)
                BY <2>4, GrownReaches
            <4>2. r # <<>> /\ LastOf(new) \in Nat /\ LastOf(r) \in Nat
                BY <2>4, GrownReaches, NewestIs DEF LastOf
            <4>3. r[i + 1] = new[1]
                BY <2>2, <3>3
            <4>4. QED
                BY <1>2, <2>5, <3>3, <4>1, <4>2, <4>3
        <3>4. CASE k = 0 /\ new[1].t = Ahead[a]
            <4>1. ts[i].t >= Ahead[a] /\ k + 1 = 1
                BY <2>1, <3>4
            <4>2. QED
                BY <1>2, <2>3, <2>5, <3>4, <4>1
        <3>5. QED
            BY <1>1, <2>1, <2>4, <3>1, <3>2, <3>3, <3>4 DEF Fresh
    <2>8. QED
        BY <2>6, <2>7
<1>6. \A i \in 1 .. Len(r) - 1 : Fine(i)
    BY <1>1, <1>3, <1>4, <1>5, SMTT(30)
<1>7. QED
    BY <1>6 DEF Whole

LEMMA FedWhole ==
    ASSUME Typed, Typed', NEW L \in Nat, Conn(L), Flow, Receive, Head(toClient).e = "d", Data(Head(toClient)),
           NEW a \in Addrs
    PROVE  /\ toClient[1].s[a] = <<>> => chans'[a].ts = chans[a].ts
           /\ toClient[1].s[a] # <<>> /\ page.running = TRUE /\ chans'[a].ts # <<>>
                => LastOf(toClient[1].s[a]) \in Nat /\ LastOf(chans'[a].ts) \in Nat
                   /\ LastOf(toClient[1].s[a]) <= LastOf(chans'[a].ts)
           /\ Whole(chans'[a].ts, page.hello)
<1>1. PICK m \in Event : m = toClient[1] /\ m.e = "d" /\ Data(m)
    BY ReceiveIs, ReceivedMail
<1> DEFINE ts == chans[a].ts
           new == m.s[a]
           r == chans'[a].ts
<1>2. /\ page.sock = "open" /\ page.hello \in Nat /\ 1 \in 1 .. Len(toClient)
      /\ ts \in Ordered /\ new \in Ordered /\ r \in Ordered
    BY <1>1, ReceiveIs, ReceivedMail DEF Typed, TypedChans, TypedPage, Event
<1>3. BatchFits(a, new, L)
    BY <1>1, <1>2 DEF Conn, Mail
<1>4. Joins(ts, L)
    <2>1. ~HelloWaits(toClient)
        BY <1>1 DEF HelloWaits
    <2>2. QED
        BY <1>2, <2>1 DEF Conn, Clocks
<1>5. \A i \in 1 .. Len(ts) : ts[i].t >= Ahead[a]
    BY DEF Conn, Peers
<1>6. Whole(ts, page.hello)
    BY DEF Flow
<1>7. CASE a \in Held /\ page.running = TRUE
    <2>1. r = Recorded(ts, new)
        BY <1>1, <1>7, DataIs DEF Fed
    <2>2. new = <<>> => r = ts
        <3>1. SUFFICES ASSUME new = <<>> PROVE r = ts
            OBVIOUS
        <3>2. PICK u \in Seq(Sample) : /\ r = ts \o u
                                       /\ ts = <<>> => u = new
                                       /\ ts # <<>> => EndPast(u, new, Newest(ts))
            BY <1>2, <2>1, RecordedIs
        <3> HIDE DEF r, ts, new
        <3>3. u = <<>>
            <4>1. CASE ts = <<>>
                BY <3>1, <3>2, <4>1
            <4>2. CASE ts # <<>>
                <5>1. Len(u) = 0
                    BY <3>1, <3>2, <4>2 DEF EndPast
                <5>2. QED
                    BY <5>1
            <4>3. QED
                BY <4>1, <4>2
        <3>4. ts \in Seq(Sample)
            BY <1>2 DEF Ordered
        <3>5. QED
            BY <3>2, <3>3, <3>4
    <2>3. PICK k \in 0 .. Len(new) : Grown(r, ts, new, k)
        BY <1>2, <2>1, GrownIs
    <2>4. new # <<>> /\ ts # <<>> => Fresh(a, new) \/ new[1].t - 1 <= LastOf(ts)
        <3>1. SUFFICES ASSUME new # <<>>, ts # <<>> PROVE Fresh(a, new) \/ new[1].t - 1 <= LastOf(ts)
            OBVIOUS
        <3>2. Bears(a, toClient, 1)
            BY <1>1, <3>1 DEF Bears
        <3>3. Fresh(a, new) \/ Reach(a, toClient, ts, page.running, 1, new[1].t - 1)
            BY <1>1, <1>2, <3>2 DEF Flow, Linked
        <3>4. Reach(a, toClient, ts, page.running, 1, new[1].t - 1) => Got(ts, page.running, new[1].t - 1)
            BY DEF Reach
        <3>5. QED
            BY <1>7, <3>1, <3>3, <3>4 DEF Got
    <2> HIDE DEF ts, new, r
    <2>5. Whole(r, page.hello)
        BY <1>2, <1>3, <1>4, <1>5, <1>6, <2>3, <2>4, GrownWhole
    <2>6. new # <<>> => LastOf(new) <= LastOf(r) /\ LastOf(new) \in Nat /\ LastOf(r) \in Nat
        <3>1. new # <<>> => r # <<>> /\ LastOf(new) <= LastOf(r)
            BY <1>2, <2>3, GrownReaches
        <3>2. new # <<>> => LastOf(new) \in Nat
            BY <1>2, NewestIs DEF LastOf
        <3>3. r # <<>> => LastOf(r) \in Nat
            BY <1>2, NewestIs DEF LastOf
        <3>4. QED
            BY <3>1, <3>2, <3>3
    <2>7. QED
        BY <1>1, <2>2, <2>5, <2>6 DEF r, ts, new
<1>8. CASE ~ (a \in Held /\ page.running = TRUE)
    <2>1. r = ts
        BY <1>1, <1>8, DataIs DEF Fed
    <2>2. a \notin Held => ts = <<>>
        <3>1. chans[a].refs \in 0 .. MaxRefs /\ (chans[a].refs = 0 => ts = <<>>)
            BY DEF Typed, TypedChans
        <3>2. QED
            BY <3>1, Given DEF Held
    <2>3. QED
        BY <1>6, <1>8, <2>1, <2>2
<1>9. QED
    BY <1>7, <1>8

LEMMA DataFlow ==
    ASSUME Typed, Typed', NEW L \in Nat, Conn(L), Flow, Receive, Head(toClient).e = "d", Data(Head(toClient))
    PROVE  Flow'
<1>1. PICK m \in Event : m = toClient[1] /\ m.e = "d" /\ Data(m)
    BY ReceiveIs, ReceivedMail
<1>2. page' = page
    BY <1>1, DataIs
<1>3. ASSUME NEW a \in Addrs PROVE Linked(a)' /\ Cursor(a)'
    <2>1. ASSUME NEW t \in Int, ~Bears(a, toClient, 1), Got(chans[a].ts, page.running, t)
          PROVE  Got(chans'[a].ts, page'.running, t)
        <3>1. toClient[1].s[a] = <<>>
            BY <1>1, <2>1 DEF Bears
        <3>2. chans'[a].ts = chans[a].ts
            BY <3>1, FedWhole
        <3>3. QED
            BY <1>2, <2>1, <3>2
    <2>2. ASSUME NEW t \in Int, Bears(a, toClient, 1), t <= LastOf(toClient[1].s[a])
          PROVE  Got(chans'[a].ts, page'.running, t)
        <3>1. toClient[1].s[a] # <<>>
            BY <2>2 DEF Bears
        <3>2. page.running = TRUE /\ chans'[a].ts # <<>> => t <= LastOf(chans'[a].ts)
            <4>1. SUFFICES ASSUME page.running = TRUE, chans'[a].ts # <<>> PROVE t <= LastOf(chans'[a].ts)
                OBVIOUS
            <4>2. /\ LastOf(toClient[1].s[a]) \in Nat /\ LastOf(chans'[a].ts) \in Nat
                  /\ LastOf(toClient[1].s[a]) <= LastOf(chans'[a].ts)
                BY <3>1, <4>1, FedWhole
            <4>3. QED
                BY <2>2, <4>2
        <3>3. QED
            BY <1>2, <3>2 DEF Got
    <2>3. QED
        BY <2>1, <2>2, ReceivedFlow
<1>4. \A a \in Addrs : Whole(chans'[a].ts, page'.hello)
    BY <1>2, FedWhole
<1>5. QED
    BY <1>3, <1>4 DEF Flow

\* What a turn of the loop sends goes on from the cursor, or begins a history.
LEMMA NewsFollow ==
    ASSUME Typed, NEW a \in Addrs, News(a) # <<>>
    PROVE  LET c == session.cursor[a]
               s == News(a)
           IN  /\ c \in Int /\ s[1].t \in Nat /\ LastOf(s) \in Nat
               /\ s[1].t = Ahead[a] \/ s[1].t - 1 = c
               /\ c < Ahead[a] => Fresh(a, s)
               /\ ServerNow - c >= History => Fresh(a, s)
<1> DEFINE c == session.cursor[a]
           s == News(a)
<1>1. TypedServer /\ c \in Int /\ s = Read(a, c)
    BY DEF Typed, TypedServer, News
<1>2. s \in Ordered /\ s # <<>> /\ First(a, c) \in Nat
    BY <1>1, ReadIs
<1>3. s \in Seq(Sample) /\ Len(s) > 0
    BY <1>2 DEF Ordered
<1>4. ServerNow \in Nat /\ Ahead[a] \in Nat /\ History \in Nat
    BY <1>1, NowIsNat, Given
<1>5. s[1].t = First(a, c) /\ LastOf(s) = ServerNow + Ahead[a]
    BY <1>1, <1>3, ReadIs DEF LastOf
<1> HIDE DEF s, c
<1>6. 1 \in 1 .. Len(s) /\ Len(s) \in 1 .. Len(s)
    BY <1>3
<1>7. s[1].t \in Nat /\ LastOf(s) \in Nat
    BY <1>3, <1>6, DatesAre DEF LastOf
<1>8. c < Ahead[a] => s[1].t = Ahead[a]
    BY <1>5 DEF First
<1>9. ~ (c < Ahead[a]) => s[1].t - 1 = c
    BY <1>1, <1>5 DEF First
<1>10. ~ (c < Ahead[a]) /\ ServerNow - c >= History => s[1].t + History <= LastOf(s) + 1
    <2>1. SUFFICES ASSUME ~ (c < Ahead[a]), ServerNow - c >= History
                   PROVE  s[1].t + History <= LastOf(s) + 1
        OBVIOUS
    <2>2. s[1].t = c + 1
        BY <1>5, <2>1 DEF First
    <2>3. \A n, h, g \in Nat : n - c >= h => (c + 1) + h <= (n + g) + 1
        BY <1>1
    <2>4. (c + 1) + History <= (ServerNow + Ahead[a]) + 1
        BY <1>4, <2>1, <2>3, Zenon
    <2>5. QED
        BY <1>5, <2>2, <2>4
<1>11. QED
    BY <1>1, <1>7, <1>8, <1>9, <1>10 DEF Fresh, s, c

LEMMA FlushFlow ==
    ASSUME Typed, Typed', Flow, Flush
    PROVE  Flow'
<1> DEFINE batch == [a \in Addrs |-> News(a)]
           n == [e |-> "d", s |-> batch]
           N == Len(toClient) + 1
<1>1. /\ toClient' = Append(toClient, n)
      /\ \A a \in Addrs : session'.cursor[a] = IF News(a) = <<>> THEN session.cursor[a]
                                               ELSE News(a)[Len(News(a))].t
      /\ UNCHANGED <<time, server, toServer, page, chans>>
    BY FlushIs
<1>2. n.e = "d" /\ \A a \in Addrs : n.s[a] = News(a)
    OBVIOUS
<1>3. toClient \in Seq(Event) /\ Len(toClient) \in Nat /\ N \in Nat \ {0}
    BY DEF Typed
<1> HIDE DEF n, batch
<1>4. /\ Len(toClient') = N /\ toClient'[N] = n
      /\ \A k \in 1 .. Len(toClient) : toClient'[k] = toClient[k]
    BY <1>1, <1>3
<1>5. ServerNow' = ServerNow
    BY <1>1 DEF ServerNow
<1> HIDE DEF N
<1>6. \A k \in 1 .. N : k - 1 <= Len(toClient) /\ (k = N \/ k \in 1 .. Len(toClient))
    BY <1>3 DEF N
<1>7. ASSUME NEW a \in Addrs PROVE Linked(a)' /\ Cursor(a)'
    <2>1. ASSUME NEW k \in 1 .. N, NEW t, Reach(a, toClient, chans[a].ts, page.running, k, t)
          PROVE  Reach(a, toClient', chans'[a].ts, page'.running, k, t)
        <3>1. \A i \in 1 .. k - 1 : i \in 1 .. Len(toClient)
            BY <1>3, <1>6
        <3>2. \A i \in 1 .. k - 1 : /\ Bears(a, toClient', i) <=> Bears(a, toClient, i)
                                    /\ Bears(a, toClient, i) => toClient'[i].s[a] = toClient[i].s[a]
            BY <1>4, <3>1 DEF Bears
        <3>3. Got(chans[a].ts, page.running, t) => Got(chans'[a].ts, page'.running, t)
            BY <1>1
        <3>4. QED
            BY <2>1, <3>2, <3>3, ReachSame
    <2>2. Bears(a, toClient', N) <=> News(a) # <<>>
        BY <1>2, <1>4 DEF Bears
    <2>3. N \in 1 .. N
        BY <1>3
    <2>4. ASSUME NEW k \in 1 .. Len(toClient'), Bears(a, toClient', k)
          PROVE  \/ Fresh(a, toClient'[k].s[a])
                 \/ Reach(a, toClient', chans'[a].ts, page'.running, k, toClient'[k].s[a][1].t - 1)
        <3>1. CASE k \in 1 .. Len(toClient)
            <4>1. toClient'[k] = toClient[k] /\ k \in 1 .. N /\ Bears(a, toClient, k)
                BY <1>4, <2>4, <3>1 DEF Bears
            <4>2. \/ Fresh(a, toClient[k].s[a])
                  \/ Reach(a, toClient, chans[a].ts, page.running, k, toClient[k].s[a][1].t - 1)
                BY <3>1, <4>1 DEF Flow, Linked
            <4>3. QED
                BY <2>1, <4>1, <4>2
        <3>2. CASE k = N
            <4>1. News(a) # <<>> /\ toClient'[k].s[a] = News(a)
                BY <1>2, <1>4, <2>2, <2>4, <3>2
            <4>2. SUFFICES ASSUME ~Fresh(a, News(a))
                           PROVE  Reach(a, toClient', chans'[a].ts, page'.running, N, News(a)[1].t - 1)
                BY <3>2, <4>1
            <4>3. /\ session.cursor[a] \in Int /\ ~ (session.cursor[a] < Ahead[a])
                  /\ ~ (ServerNow - session.cursor[a] >= History)
                  /\ News(a)[1].t = Ahead[a] \/ News(a)[1].t - 1 = session.cursor[a]
                BY <4>1, <4>2, NewsFollow
            <4>4. News(a)[1].t - 1 = session.cursor[a]
                BY <4>2, <4>3 DEF Fresh
            <4>5. Reach(a, toClient, chans[a].ts, page.running, Len(toClient) + 1, session.cursor[a])
                BY <4>3, Given DEF Flow, Cursor
            <4>6. QED
                BY <2>1, <2>3, <4>4, <4>5 DEF N
        <3>3. QED
            BY <1>4, <1>6, <3>1, <3>2
    <2>5. ASSUME session'.cursor[a] # None
          PROVE  \/ ServerNow' - session'.cursor[a] >= History
                 \/ session'.cursor[a] < Ahead[a]
                 \/ Reach(a, toClient', chans'[a].ts, page'.running, Len(toClient') + 1, session'.cursor[a])
        <3>1. CASE News(a) = <<>>
            <4>1. session'.cursor[a] = session.cursor[a] /\ ~Bears(a, toClient', N)
                BY <1>1, <2>2, <3>1
            <4>2. \/ ServerNow - session.cursor[a] >= History
                  \/ session.cursor[a] < Ahead[a]
                  \/ Reach(a, toClient, chans[a].ts, page.running, N, session.cursor[a])
                BY <2>5, <4>1 DEF Flow, Cursor, N
            <4>3. CASE Reach(a, toClient, chans[a].ts, page.running, N, session.cursor[a])
                <5>1. Reach(a, toClient', chans'[a].ts, page'.running, N, session.cursor[a])
                    BY <2>1, <2>3, <4>3
                <5>2. Reach(a, toClient', chans'[a].ts, page'.running, N + 1, session.cursor[a])
                    BY <1>3, <4>1, <5>1, ReachSkip
                <5>3. QED
                    BY <1>4, <4>1, <5>2
            <4>4. QED
                BY <1>5, <4>1, <4>2, <4>3
        <3>2. CASE News(a) # <<>>
            <4>1. session'.cursor[a] = LastOf(News(a)) /\ Bears(a, toClient', N) /\ toClient'[N].s[a] = News(a)
                BY <1>1, <1>2, <1>4, <2>2, <3>2 DEF LastOf
            <4>2. LastOf(News(a)) \in Nat
                BY <3>2, NewsFollow
            <4>3. session'.cursor[a] <= LastOf(toClient'[N].s[a])
                BY <4>1, <4>2
            <4>4. Reach(a, toClient', chans'[a].ts, page'.running, N + 1, session'.cursor[a])
                BY <1>3, <4>1, <4>3, ReachLast
            <4>5. QED
                BY <1>4, <4>4
        <3>3. QED
            BY <3>1, <3>2
    <2>6. QED
        BY <2>4, <2>5 DEF Linked, Cursor
<1>8. \A a \in Addrs : Whole(chans[a].ts, page.hello)'
    BY <1>1 DEF Flow
<1>9. QED
    BY <1>7, <1>8 DEF Flow

LEMMA StepFlow == ASSUME Typed, Typed', Connected, Flow, [Next]_vars PROVE Flow'
<1>1. PICK L \in Nat : Conn(L)
    BY DEF Connected
<1>2. CASE Cut \/ Crash \/ Reboot \/ Tick \/ Probe \/ Reconnect \/ GiveUp \/ Refused \/ Dropped
    BY <1>1, <1>2, NetQuiet, QuietFlow
<1>3. CASE \/ Stop \/ Start \/ LogEnable \/ LogDisable \/ LogTick \/ UNCHANGED vars
           \/ \E a \in Addrs : Subscribe(a) \/ Unsubscribe(a) \/ Write(a) \/ WriteTimeout(a)
    BY <1>1, <1>3, PageQuiet, QuietFlow
<1>4. CASE Serve
    BY <1>1, <1>4, ServeQuiet, QuietFlow
<1>5. CASE Open
    BY <1>5, OpenFlow
<1>6. CASE Flush
    BY <1>6, FlushFlow
<1>7. CASE Receive
    BY <1>1, <1>7, ReceiveIs, HelloFlow, DataFlow, AnswerFlow
<1>8. QED
    BY <1>2, <1>3, <1>4, <1>5, <1>6, <1>7, Steps

LEMMA InitFlow == ASSUME Init PROVE Flow
<1>1. toClient = <<>> /\ session = NoSession /\ \A a \in Addrs : chans[a].ts = <<>>
    BY DEF Init
<1>2. \A a \in Addrs : session.cursor[a] = None
    BY <1>1, NoSessionIs
<1>3. QED
    BY <1>1, <1>2 DEF Flow, Linked, Cursor, Whole

LEMMA TypedIsOK == ASSUME Typed PROVE TypeOK
<1>1. /\ time \in 0 .. MaxTime
      /\ server.life \in 1 .. MaxLives /\ server.boot \in 0 .. time
      /\ server.done \subseteq Requests
    BY DEF Typed, TypedServer
<1>2. session.live => server.up
    <2>1. session.live = TRUE => server.up = TRUE
        BY DEF Typed, TypedServer
    <2>2. session.live \in BOOLEAN /\ server.up \in BOOLEAN
        BY DEF Typed, TypedServer
    <2>3. QED
        BY <2>1, <2>2, Zenon
<1>3. /\ page.source \in {"probing", "choosing", "ws", "sim"}
      /\ page.sock \in {"none", "opening", "open", "closing"}
    BY DEF Typed, TypedPage
<1>4. page.retrying => page.sock = "none" /\ page.settled
    <2>1. page.retrying = TRUE => page.sock = "none" /\ page.settled
        BY DEF Typed, TypedPage
    <2>2. page.retrying \in BOOLEAN
        BY DEF Typed, TypedPage
    <2>3. QED
        BY <2>1, <2>2, Zenon
<1>5. ASSUME NEW a \in Addrs
      PROVE  /\ chans[a].refs \in 0 .. MaxRefs
             /\ chans[a].refs = 0 => chans[a].ts = <<>>
             /\ writes.pending[a] # 0 => writes.outcome[writes.pending[a]] = "waiting"
    BY DEF Typed, TypedChans, TypedWrites
<1>6. writes.outcome \in [Requests -> Outcomes \cup {None}]
    BY WritesAre DEF Typed
<1>7. QED
    BY <1>1, <1>2, <1>3, <1>4, <1>5, <1>6 DEF TypeOK

\* What is held is in order, each sample once; lives and gaps are joined in it
\* only as OneCurve says, through any number of connections, crashes and
\* batches under way (onMessage of source-ws.js).
THEOREM CurvesAreWhole == Spec => []OneCurve
<1>1. ASSUME Typed, Flow PROVE OneCurve
    <2>1. ASSUME NEW a \in Addrs, NEW i \in 1 .. Len(chans[a].ts) - 1
          PROVE  chans[a].ts[i].t < chans[a].ts[i + 1].t
        <3>1. chans[a].ts \in Ordered
            BY <1>1 DEF Typed, TypedChans
        <3>2. i \in 1 .. Len(chans[a].ts) /\ i + 1 \in 1 .. Len(chans[a].ts) /\ i < i + 1
            BY <3>1 DEF Ordered
        <3>3. QED
            BY <3>1, <3>2 DEF Ordered, InOrder
    <2>2. \A a \in Addrs : Whole(chans[a].ts, page.hello)
        BY <1>1 DEF Flow
    <2>3. \A a \in Addrs : chans[a].ts # <<>> => Newest(chans[a].ts) = LastOf(chans[a].ts)
        BY <1>1, NewestIs DEF LastOf, Typed, TypedChans
    <2>4. ASSUME NEW a \in Addrs, NEW i \in 1 .. Len(chans[a].ts) - 1
          PROVE  chans[a].ts # <<>>
        OBVIOUS
    <2>5. QED
        BY <1>1, <2>1, <2>2, <2>3, <2>4, TypedIsOK DEF OneCurve, Whole
<1>2. Init => Flow
    BY InitFlow
<1>3. Typed /\ Typed' /\ Connected /\ Flow /\ [Next]_vars => Flow'
    BY StepFlow
<1>4. Typed /\ Flow => OneCurve
    BY <1>1
<1>5. QED
    BY <1>2, <1>3, <1>4, AlwaysTyped, AlwaysConnected, PTL DEF Spec

-----------------------------------------------------------------------------
(* The journal of the page.  Its rows end at the date it goes on from; and *)
(* what a variable shown without a break has brought is in its rows, or is *)
(* later than they are.                                                    *)

LogRecords == [on : BOOLEAN, from : Nat, life : 0 .. MaxLives, steady : SUBSET Addrs,
               lastT : [Addrs -> Nat \cup {None}], rows : [Addrs -> Ordered]]

Ends(a, g) == IF g.rows[a] = <<>> THEN g.lastT[a] = None ELSE g.lastT[a] = LastOf(g.rows[a])

LogKept ==
    /\ log \in LogRecords
    /\ log.on = TRUE \/ log = NoLog
    /\ \A a \in Addrs : Ends(a, log)

FromOf(a, g) == IF g.lastT[a] # None THEN g.lastT[a] ELSE g.from

LEMMA NoLogIs ==
    /\ NoLog \in LogRecords /\ NoLog.on = FALSE /\ NoLog.steady = {} /\ NoLog.life = 0
    /\ \A a \in Addrs : NoLog.lastT[a] = None /\ NoLog.rows[a] = <<>>
<1>1. <<>> \in Ordered
    BY DEF Ordered, InOrder
<1>2. 0 \in 0 .. MaxLives
    BY Given
<1>3. QED
    BY <1>1, <1>2 DEF NoLog, LogRecords

\* What was in the rows is still there, and what is later than d now is.
Covers(rows, r, ts, d) ==
    /\ \A j \in 1 .. Len(rows) : j \in 1 .. Len(r) /\ r[j] = rows[j]
    /\ \A i \in 1 .. Len(ts) : ts[i].t > d => \E j \in 1 .. Len(r) : r[j] = ts[i]

\* Rows that end at date d, and what the samples have after it.
LEMMA RowsGrow ==
    ASSUME NEW rows \in Ordered, NEW ts \in Ordered, NEW d \in Nat, NEW u \in Seq(Sample),
           EndPast(u, ts, d), rows # <<>> => d = LastOf(rows)
    PROVE  /\ rows \o u \in Ordered
           /\ u = <<>> => rows \o u = rows
           /\ u # <<>> => ts # <<>> /\ rows \o u # <<>> /\ LastOf(rows \o u) = LastOf(ts)
           /\ Covers(rows, rows \o u, ts, d)
<1> DEFINE r == rows \o u
<1>1. rows \in Seq(Sample) /\ ts \in Seq(Sample) /\ InOrder(rows) /\ InOrder(ts)
    BY DEF Ordered
<1>2. /\ r \in Seq(Sample) /\ Len(r) = Len(rows) + Len(u)
      /\ \A i \in 1 .. Len(r) : r[i] = IF i <= Len(rows) THEN rows[i] ELSE u[i - Len(rows)]
    BY <1>1
<1>3. u = <<>> => r = rows
    BY <1>1
<1> HIDE DEF r
<1>4. PICK k \in 0 .. Len(ts) :
         /\ Len(u) = Len(ts) - k
         /\ \A i \in 1 .. Len(u) : u[i] = ts[k + i] /\ ts[k + i].t > d
         /\ \A i \in 1 .. k : ts[i].t <= d
    BY DEF EndPast
<1>5. /\ \A i \in 1 .. Len(ts) : ts[i].t \in Nat
      /\ \A i \in 1 .. Len(rows) : rows[i].t \in Nat
      /\ \A i \in 1 .. Len(u) : u[i].t \in Nat
    BY <1>1, DatesAre
<1>6. \A i \in 1 .. Len(rows) : rows[i].t <= d
    <2>1. ASSUME rows # <<>> PROVE /\ Newest(rows) = rows[Len(rows)].t
                                   /\ \A i \in 1 .. Len(rows) : rows[i].t <= Newest(rows)
        BY <2>1, NewestIs
    <2>2. ASSUME NEW i \in 1 .. Len(rows) PROVE rows[i].t <= d
        <3>1. rows # <<>>
            BY <1>1
        <3>2. d = Newest(rows)
            BY <2>1, <3>1 DEF LastOf
        <3>3. QED
            BY <2>1, <3>1, <3>2
    <2>3. QED
        BY <2>2
<1>7. \A i, j \in 1 .. Len(u) : i < j => u[i].t < u[j].t
    <2>1. ASSUME NEW i \in 1 .. Len(u), NEW j \in 1 .. Len(u), i < j PROVE u[i].t < u[j].t
        <3>1. k + i \in 1 .. Len(ts) /\ k + j \in 1 .. Len(ts) /\ k + i < k + j
            BY <1>1, <1>4, <2>1
        <3>2. ts[k + i].t < ts[k + j].t
            BY <1>1, <3>1 DEF InOrder
        <3>3. QED
            BY <1>4, <3>2
    <2>2. QED
        BY <2>1
<1>8. ASSUME NEW i \in 1 .. Len(r), NEW j \in 1 .. Len(r), i < j PROVE r[i].t < r[j].t
    <2>1. Len(rows) \in Nat /\ Len(u) \in Nat
        BY <1>1
    <2>2. CASE j <= Len(rows)
        <3>1. i \in 1 .. Len(rows) /\ j \in 1 .. Len(rows) /\ r[i] = rows[i] /\ r[j] = rows[j]
            BY <1>2, <1>8, <2>1, <2>2
        <3>2. QED
            BY <1>1, <1>8, <3>1 DEF InOrder
    <2>3. CASE i <= Len(rows) /\ ~ (j <= Len(rows))
        <3>1. i \in 1 .. Len(rows) /\ j - Len(rows) \in 1 .. Len(u) /\ r[i] = rows[i] /\ r[j] = u[j - Len(rows)]
            BY <1>2, <1>8, <2>1, <2>3
        <3>2. rows[i].t \in Nat /\ rows[i].t <= d /\ u[j - Len(rows)].t \in Nat /\ u[j - Len(rows)].t > d
            BY <1>4, <1>5, <1>6, <3>1
        <3>3. QED
            BY <3>1, <3>2
    <2>4. CASE ~ (i <= Len(rows))
        <3>1. /\ i - Len(rows) \in 1 .. Len(u) /\ j - Len(rows) \in 1 .. Len(u)
              /\ i - Len(rows) < j - Len(rows) /\ ~ (j <= Len(rows))
            BY <1>2, <1>8, <2>1, <2>4
        <3>2. r[i] = u[i - Len(rows)] /\ r[j] = u[j - Len(rows)]
            BY <1>2, <2>4, <3>1
        <3>3. QED
            BY <1>7, <3>1, <3>2
    <2>5. QED
        BY <2>1, <2>2, <2>3, <2>4
<1>9. r \in Ordered
    BY <1>2, <1>8 DEF Ordered, InOrder
<1>10. ASSUME u # <<>> PROVE ts # <<>> /\ r # <<>> /\ LastOf(r) = LastOf(ts)
    <2>1. Len(u) \in 1 .. Len(u) /\ Len(u) \in Nat \ {0} /\ Len(rows) \in Nat
        BY <1>1, <1>10
    <2>2. u[Len(u)] = ts[Len(ts)] /\ Len(ts) > 0
        <3>1. Len(ts) \in Nat /\ k + Len(u) = Len(ts) /\ Len(ts) > 0
            BY <1>1, <1>4, <2>1
        <3>2. u[Len(u)] = ts[k + Len(u)]
            BY <1>4, <2>1
        <3>3. QED
            BY <3>1, <3>2
    <2>3. Len(r) \in 1 .. Len(r) /\ ~ (Len(r) <= Len(rows)) /\ Len(r) - Len(rows) = Len(u)
        BY <1>2, <2>1
    <2>4. r[Len(r)] = u[Len(u)]
        BY <1>2, <2>3
    <2>5. QED
        BY <1>1, <2>2, <2>3, <2>4 DEF LastOf
<1>11. \A j \in 1 .. Len(rows) : j \in 1 .. Len(r) /\ r[j] = rows[j]
    BY <1>1, <1>2
<1>12. ASSUME NEW i \in 1 .. Len(ts), ts[i].t > d PROVE \E j \in 1 .. Len(r) : r[j] = ts[i]
    <2>1. ~ (i <= k)
        <3>1. i <= k => i \in 1 .. k
            OBVIOUS
        <3>2. ts[i].t \in Nat
            BY <1>5
        <3>3. QED
            BY <1>4, <1>12, <3>1, <3>2
    <2>2. /\ i - k \in 1 .. Len(u) /\ k + (i - k) = i /\ Len(rows) + (i - k) \in 1 .. Len(r)
          /\ ~ (Len(rows) + (i - k) <= Len(rows)) /\ (Len(rows) + (i - k)) - Len(rows) = i - k
        BY <1>1, <1>2, <1>4, <2>1
    <2>3. r[Len(rows) + (i - k)] = u[i - k] /\ u[i - k] = ts[i]
        BY <1>2, <1>4, <2>2
    <2>4. QED
        BY <2>2, <2>3
<1>13. Covers(rows, r, ts, d)
    BY <1>11, <1>12 DEF Covers
<1>14. QED
    BY <1>3, <1>9, <1>10, <1>13 DEF r

\* What a turn of the journal writes.
LEMMA LogTickIs ==
    ASSUME Typed, LogKept, LogTick
    PROVE  /\ log'.on = log.on /\ log'.from = log.from /\ log'.life = log.life /\ log'.steady = log.steady
           /\ log' \in LogRecords /\ UNCHANGED <<page, chans>>
           /\ \A a \in Addrs : \E u \in Seq(Sample) :
                /\ EndPast(u, chans[a].ts, FromOf(a, log)) /\ FromOf(a, log) \in Nat
                /\ log.rows[a] # <<>> => FromOf(a, log) = LastOf(log.rows[a])
                /\ log'.rows[a] = log.rows[a] \o u
                /\ log'.lastT[a] = IF u = <<>> THEN log.lastT[a] ELSE LastOf(chans[a].ts)
<1> DEFINE news(a) == Later(chans[a].ts, LogFrom(a))
           rows == [a \in Addrs |-> log.rows[a] \o news(a)]
           last == [a \in Addrs |-> IF news(a) = <<>> THEN log.lastT[a] ELSE Newest(chans[a].ts)]
<1>1. /\ log' = [log EXCEPT !.rows = rows, !.lastT = last]
      /\ UNCHANGED <<page, chans>>
    BY DEF LogTick
<1>2. log \in LogRecords
    BY DEF LogKept
<1>3. ASSUME NEW a \in Addrs
      PROVE  /\ news(a) \in Seq(Sample) /\ EndPast(news(a), chans[a].ts, FromOf(a, log))
             /\ FromOf(a, log) \in Nat /\ log.rows[a] \in Ordered /\ chans[a].ts \in Ordered
             /\ log.rows[a] # <<>> => FromOf(a, log) = LastOf(log.rows[a])
    <2>1. log.rows[a] \in Ordered /\ chans[a].ts \in Ordered
        BY <1>2 DEF LogRecords, Typed, TypedChans
    <2>2. log.lastT[a] \in Nat \cup {None} /\ log.from \in Nat
        BY <1>2 DEF LogRecords
    <2>3. FromOf(a, log) \in Nat /\ LogFrom(a) = FromOf(a, log)
        BY <2>2 DEF FromOf, LogFrom
    <2>4. FromOf(a, log) \in Int /\ chans[a].ts \in Seq(Sample) /\ InOrder(chans[a].ts)
        BY <2>1, <2>3 DEF Ordered
    <2>5. news(a) \in Seq(Sample) /\ EndPast(news(a), chans[a].ts, FromOf(a, log))
        BY <2>3, <2>4, LaterIs
    <2>6. ASSUME log.rows[a] # <<>> PROVE FromOf(a, log) = LastOf(log.rows[a])
        <3>1. log.lastT[a] = LastOf(log.rows[a])
            BY <2>6 DEF LogKept, Ends
        <3>2. LastOf(log.rows[a]) \in Nat
            BY <2>1, <2>6, NewestIs DEF LastOf
        <3>3. QED
            BY <3>1, <3>2, Given DEF FromOf
    <2>7. QED
        BY <2>1, <2>3, <2>5, <2>6
<1>4. \A a \in Addrs : rows[a] = log.rows[a] \o news(a)
    OBVIOUS
<1>5. \A a \in Addrs : last[a] = IF news(a) = <<>> THEN log.lastT[a] ELSE Newest(chans[a].ts)
    OBVIOUS
<1>6. \A a \in Addrs : news(a) # <<>> => chans[a].ts # <<>>
    <2>1. SUFFICES ASSUME NEW a \in Addrs, news(a) # <<>> PROVE chans[a].ts # <<>>
        OBVIOUS
    <2>2. news(a) \in Seq(Sample) /\ EndPast(news(a), chans[a].ts, FromOf(a, log))
          /\ FromOf(a, log) \in Nat /\ chans[a].ts \in Ordered /\ log.rows[a] \in Ordered
          /\ (log.rows[a] # <<>> => FromOf(a, log) = LastOf(log.rows[a]))
        BY <1>3
    <2> HIDE DEF news
    <2>3. QED
        BY <2>1, <2>2, RowsGrow
<1>7. \A a \in Addrs : news(a) # <<>> => Newest(chans[a].ts) = LastOf(chans[a].ts) /\ Newest(chans[a].ts) \in Nat
    BY <1>3, <1>6, NewestIs DEF LastOf
<1>8. rows \in [Addrs -> Ordered]
    <2>1. ASSUME NEW a \in Addrs PROVE log.rows[a] \o news(a) \in Ordered
        <3>1. news(a) \in Seq(Sample) /\ EndPast(news(a), chans[a].ts, FromOf(a, log))
              /\ FromOf(a, log) \in Nat /\ chans[a].ts \in Ordered /\ log.rows[a] \in Ordered
              /\ (log.rows[a] # <<>> => FromOf(a, log) = LastOf(log.rows[a]))
            BY <1>3
        <3> HIDE DEF news
        <3>2. QED
            BY <3>1, RowsGrow
    <2>2. QED
        BY <2>1
<1>9. last \in [Addrs -> Nat \cup {None}]
    BY <1>2, <1>7 DEF LogRecords
<1> HIDE DEF rows, last, news
<1>10. /\ log'.on = log.on /\ log'.from = log.from /\ log'.life = log.life /\ log'.steady = log.steady
       /\ log'.rows = rows /\ log'.lastT = last /\ log' \in LogRecords
    BY <1>1, <1>2, <1>8, <1>9 DEF LogRecords
<1>11. QED
    BY <1>1, <1>3, <1>4, <1>5, <1>7, <1>10

LEMMA LogTickKept ==
    ASSUME Typed, LogKept, LogTick
    PROVE  LogKept'
<1>1. /\ log'.on = log.on /\ log' \in LogRecords /\ log \in LogRecords
    BY LogTickIs DEF LogKept
<1>2. log.on = TRUE
    BY NoLogIs DEF LogKept, LogTick
<1>3. ASSUME NEW a \in Addrs PROVE Ends(a, log')
    <2>1. PICK u \in Seq(Sample) :
             /\ EndPast(u, chans[a].ts, FromOf(a, log)) /\ FromOf(a, log) \in Nat
             /\ log.rows[a] # <<>> => FromOf(a, log) = LastOf(log.rows[a])
             /\ log'.rows[a] = log.rows[a] \o u
             /\ log'.lastT[a] = IF u = <<>> THEN log.lastT[a] ELSE LastOf(chans[a].ts)
        BY LogTickIs
    <2>2. log.rows[a] \in Ordered /\ chans[a].ts \in Ordered
        BY <1>1 DEF LogRecords, Typed, TypedChans
    <2>3. /\ u = <<>> => log.rows[a] \o u = log.rows[a]
          /\ u # <<>> => log.rows[a] \o u # <<>> /\ LastOf(log.rows[a] \o u) = LastOf(chans[a].ts)
        BY <2>1, <2>2, RowsGrow
    <2>4. Ends(a, log)
        BY DEF LogKept
    <2>5. QED
        BY <2>1, <2>3, <2>4 DEF Ends
<1>4. QED
    BY <1>1, <1>2, <1>3 DEF LogKept

LEMMA StepLogKept ==
    ASSUME Typed, LogKept, [Next]_vars
    PROVE  LogKept'
<1>0. log \in LogRecords
    BY DEF LogKept
<1>1. CASE LogTick
    BY <1>1, LogTickKept
<1>2. CASE LogDisable
    BY <1>2, NoLogIs DEF LogDisable, LogKept, Ends
<1>3. CASE LogEnable
    <2> DEFINE st == {a \in Addrs : page.running /\ \A i \in DOMAIN chans[a].ts :
                                                       chans[a].ts[i].life = server.life}
    <2>1. log' = [log EXCEPT !.on = TRUE, !.from = ServerNow, !.life = server.life, !.steady = st]
        BY <1>3 DEF LogEnable
    <2>2. ServerNow \in Nat /\ server.life \in 0 .. MaxLives /\ st \in SUBSET Addrs
        <3>1. server.life \in 0 .. MaxLives
            BY Given DEF Typed, TypedServer
        <3>2. ServerNow \in Nat
            BY NowIsNat DEF Typed
        <3>3. QED
            BY <3>1, <3>2
    <2> HIDE DEF st
    <2>3. log' \in LogRecords /\ log'.on = TRUE /\ log'.lastT = log.lastT /\ log'.rows = log.rows
        <3>1. ServerNow \in Nat
            BY <2>2
        <3>2. \A n \in Nat, l \in 0 .. MaxLives, s \in SUBSET Addrs :
                 LET g == [log EXCEPT !.on = TRUE, !.from = n, !.life = l, !.steady = s]
                 IN  g \in LogRecords /\ g.on = TRUE /\ g.lastT = log.lastT /\ g.rows = log.rows
            BY <1>0 DEF LogRecords
        <3>3. QED
            BY <2>1, <2>2, <3>2
    <2>4. QED
        BY <2>3 DEF LogKept, Ends
<1>4. CASE Stop \/ \E x \in Addrs : Unsubscribe(x)
    <2>1. PICK s \in SUBSET Addrs : log' = [log EXCEPT !.steady = s] \/ log' = log
        <3>1. log.steady \in SUBSET Addrs
            BY <1>0 DEF LogRecords
        <3>2. CASE Stop
            BY <3>2 DEF Stop
        <3>3. CASE \E x \in Addrs : Unsubscribe(x)
            BY <3>1, <3>3 DEF Unsubscribe
        <3>4. QED
            BY <1>4, <3>2, <3>3
    <2>2. \/ log' = log
          \/ /\ log' \in LogRecords /\ log'.on = log.on /\ log'.lastT = log.lastT /\ log'.rows = log.rows
             /\ log' = [log EXCEPT !.steady = s]
        BY <1>0, <2>1 DEF LogRecords
    <2>3. log'.on = TRUE \/ log' = NoLog
        <3>1. CASE log.on = TRUE
            BY <2>2, <3>1
        <3>2. CASE log = NoLog
            <4>1. Stop => log'.steady = {}
                BY <1>0 DEF Stop, LogRecords
            <4>2. (\E x \in Addrs : Unsubscribe(x)) => log'.steady = {}
                <5>1. SUFFICES ASSUME NEW x \in Addrs, Unsubscribe(x) PROVE log'.steady = {}
                    OBVIOUS
                <5>2. log' = [log EXCEPT !.steady = log.steady \ {x}] \/ log' = log
                    BY <5>1 DEF Unsubscribe
                <5>3. log.steady = {}
                    BY <3>2, NoLogIs
                <5>4. QED
                    BY <1>0, <5>2, <5>3 DEF LogRecords
            <4>3. log'.steady = {}
                BY <1>4, <4>1, <4>2
            <4>4. log' = [log EXCEPT !.steady = s] => log' = log
                <5>1. SUFFICES ASSUME log' = [log EXCEPT !.steady = s] PROVE log' = log
                    OBVIOUS
                <5>2. log'.steady = s
                    BY <1>0, <5>1 DEF LogRecords
                <5>3. s = log.steady
                    BY <3>2, <4>3, <5>2, NoLogIs
                <5>4. [log EXCEPT !.steady = log.steady] = log
                    BY <1>0 DEF LogRecords
                <5>5. QED
                    BY <5>1, <5>3, <5>4
            <4>5. QED
                BY <2>2, <3>2, <4>4
        <3>3. QED
            BY <3>1, <3>2 DEF LogKept
    <2>4. QED
        BY <1>0, <2>2, <2>3 DEF LogKept, Ends
<1>5. CASE UNCHANGED log
    BY <1>5 DEF LogKept, Ends
<1>6. QED
    <2>1. UNCHANGED log \/ LogTick \/ LogDisable \/ LogEnable \/ Stop \/ \E x \in Addrs : Unsubscribe(x)
        BY Steps DEF Serve, Flush, Open, Cut, Crash, Reboot, Tick, Probe, Reconnect, GiveUp, Refused,
                     Dropped, Write, WriteTimeout, Start, Subscribe, Receive, Hello, Data, SetAnswer, vars
    <2>2. QED
        BY <1>1, <1>2, <1>3, <1>4, <1>5, <2>1

\* No equipment is ahead of the server by more than the tolerance.
Punctual == \A b \in Addrs : Ahead[b] <= Slack

\* A sample that the journal g does not pass over.
Noted(a, s, g) == s.life = g.life /\ s.t > g.from =>
    s.t > FromOf(a, g) \/ \E j \in 1 .. Len(g.rows[a]) : g.rows[a][j] = s

\* A variable shown without a break since the journal g began.
Followed(a, L, ts, run, g) ==
    /\ run = TRUE
    /\ \A i \in 1 .. Len(ts) : ts[i].life >= g.life
    /\ Punctual =>
         /\ L = g.life /\ g.lastT[a] # None => ts # <<>> /\ g.lastT[a] <= LastOf(ts)
         /\ \A i \in 1 .. Len(ts) : Noted(a, ts[i], g)

Following(L) == log.life <= L /\ \A a \in log.steady : Followed(a, L, chans[a].ts, page.running, log)

\* Steps by which what is shown without a break, its samples and its rows stay.
LEMMA FollowSame ==
    ASSUME NEW L \in Nat, NEW K \in Nat, Following(L), LogKept, L <= K, K = log.life => L = K,
           log'.life = log.life, log'.from = log.from, log'.lastT = log.lastT, log'.rows = log.rows,
           \A a \in log'.steady : /\ a \in log.steady /\ chans'[a].ts = chans[a].ts
                                  /\ page'.running = page.running
    PROVE  Following(K)'
<1>1. log.life \in Nat
    BY Given DEF LogKept, LogRecords
<1>2. log'.life <= K
    BY <1>1 DEF Following
<1>3. ASSUME NEW a \in log'.steady PROVE Followed(a, K, chans'[a].ts, page'.running, log')
    <2>1. Followed(a, L, chans[a].ts, page.running, log)
        BY <1>3 DEF Following
    <2>2. chans'[a].ts = chans[a].ts /\ page'.running = page.running
        BY <1>3
    <2>3. K = log'.life => L = log.life
        OBVIOUS
    <2>4. \A s : Noted(a, s, log) => Noted(a, s, log')
        BY DEF Noted, FromOf
    <2>5. QED
        BY <2>1, <2>2, <2>3, <2>4 DEF Followed
<1>4. QED
    BY <1>2, <1>3 DEF Following

\* A turn of the journal writes all that is later than its rows.
LEMMA TickFollow ==
    ASSUME Typed, LogKept, NEW L \in Nat, Following(L), LogTick
    PROVE  Following(L)'
<1>1. /\ log'.from = log.from /\ log'.life = log.life /\ log'.steady = log.steady
      /\ log' \in LogRecords /\ log \in LogRecords /\ UNCHANGED <<page, chans>>
    BY LogTickIs DEF LogKept
<1>2. ASSUME NEW a \in log.steady PROVE Followed(a, L, chans[a].ts, page.running, log')
    <2>0. a \in Addrs
        BY <1>1 DEF LogRecords
    <2>1. PICK u \in Seq(Sample) :
             /\ EndPast(u, chans[a].ts, FromOf(a, log)) /\ FromOf(a, log) \in Nat
             /\ log.rows[a] # <<>> => FromOf(a, log) = LastOf(log.rows[a])
             /\ log'.rows[a] = log.rows[a] \o u
             /\ log'.lastT[a] = IF u = <<>> THEN log.lastT[a] ELSE LastOf(chans[a].ts)
        BY <2>0, LogTickIs
    <2>2. log.rows[a] \in Ordered /\ chans[a].ts \in Ordered
        BY <1>1, <2>0 DEF LogRecords, Typed, TypedChans
    <2>3. /\ u # <<>> => chans[a].ts # <<>>
          /\ \A j \in 1 .. Len(log.rows[a]) :
               j \in 1 .. Len(log'.rows[a]) /\ log'.rows[a][j] = log.rows[a][j]
          /\ \A i \in 1 .. Len(chans[a].ts) : chans[a].ts[i].t > FromOf(a, log) =>
               \E j \in 1 .. Len(log'.rows[a]) : log'.rows[a][j] = chans[a].ts[i]
        <3>1. Covers(log.rows[a], log.rows[a] \o u, chans[a].ts, FromOf(a, log)) /\ (u # <<>> => chans[a].ts # <<>>)
            BY <2>1, <2>2, RowsGrow
        <3>2. Covers(log.rows[a], log'.rows[a], chans[a].ts, FromOf(a, log))
            BY <2>1, <3>1
        <3>3. QED
            BY <3>1, <3>2 DEF Covers
    <2>4. Followed(a, L, chans[a].ts, page.running, log)
        BY DEF Following
    <2>5. ASSUME Punctual, NEW i \in 1 .. Len(chans[a].ts) PROVE Noted(a, chans[a].ts[i], log')
        <3>1. SUFFICES ASSUME chans[a].ts[i].life = log.life, chans[a].ts[i].t > log.from
                       PROVE  \E j \in 1 .. Len(log'.rows[a]) : log'.rows[a][j] = chans[a].ts[i]
            BY <1>1 DEF Noted
        <3>2. \/ chans[a].ts[i].t > FromOf(a, log)
              \/ \E j \in 1 .. Len(log.rows[a]) : log.rows[a][j] = chans[a].ts[i]
            BY <2>4, <2>5, <3>1 DEF Followed, Noted
        <3>3. QED
            BY <2>3, <3>2
    <2>6. ASSUME Punctual, L = log.life, log'.lastT[a] # None
          PROVE  chans[a].ts # <<>> /\ log'.lastT[a] <= LastOf(chans[a].ts)
        <3>1. CASE u = <<>>
            BY <2>1, <2>4, <2>6, <3>1 DEF Followed
        <3>2. CASE u # <<>>
            <4>1. chans[a].ts # <<>> /\ log'.lastT[a] = LastOf(chans[a].ts)
                BY <2>1, <2>3, <3>2
            <4>2. LastOf(chans[a].ts) \in Nat
                BY <2>2, <4>1, NewestIs DEF LastOf
            <4>3. QED
                BY <4>1, <4>2
        <3>3. QED
            BY <3>1, <3>2
    <2>7. QED
        BY <1>1, <2>4, <2>5, <2>6 DEF Followed
<1>3. QED
    BY <1>1, <1>2 DEF Following

\* A journal begins with nothing written.
LEMMA EnableFollow ==
    ASSUME Typed, LogKept, NEW L \in Nat, Conn(L), LogEnable
    PROVE  Following(L)'
<1> DEFINE st == {a \in Addrs : page.running /\ \A i \in DOMAIN chans[a].ts :
                                                   chans[a].ts[i].life = server.life}
<1>1. /\ log' = [log EXCEPT !.on = TRUE, !.from = ServerNow, !.life = server.life, !.steady = st]
      /\ UNCHANGED <<page, chans>> /\ session.live = TRUE /\ log.on # TRUE
    <2>1. session.live \in BOOLEAN /\ log.on \in BOOLEAN
        BY DEF Typed, TypedServer, LogKept, LogRecords
    <2>2. QED
        BY <2>1 DEF LogEnable
<1>2. log = NoLog /\ log \in LogRecords
    BY <1>1 DEF LogKept
<1>3. /\ \A a \in st : /\ a \in Addrs /\ page.running = TRUE
                       /\ \A i \in DOMAIN chans[a].ts : chans[a].ts[i].life = server.life
    <2>1. page.running \in BOOLEAN
        BY DEF Typed, TypedPage
    <2>2. QED
        BY <2>1
<1> HIDE DEF st
<1>4. /\ log'.steady = st /\ log'.life = server.life /\ log'.from = ServerNow
      /\ log'.lastT = log.lastT /\ log'.rows = log.rows
    BY <1>1, <1>2 DEF LogRecords
<1>5. L = server.life /\ server.life \in Nat
    BY <1>1, Given DEF Conn, Peers, Typed, TypedServer
<1>6. ASSUME NEW a \in st PROVE Followed(a, L, chans[a].ts, page.running, log')
    <2>1. a \in Addrs /\ page.running = TRUE /\ chans[a].ts \in Seq(Sample)
        BY <1>3 DEF Typed, TypedChans, Ordered
    <2>2. \A i \in 1 .. Len(chans[a].ts) : chans[a].ts[i].life = server.life
        BY <1>3, <2>1
    <2>3. \A i \in 1 .. Len(chans[a].ts) : chans[a].ts[i].life >= server.life
        BY <1>5, <2>2
    <2>4. log'.lastT[a] = None
        BY <1>2, <1>4, <2>1, NoLogIs
    <2>5. \A s : Noted(a, s, log')
        BY <2>4 DEF Noted, FromOf
    <2>6. QED
        BY <1>4, <2>1, <2>3, <2>4, <2>5 DEF Followed
<1>7. log'.life <= L
    BY <1>4, <1>5
<1>8. QED
    BY <1>1, <1>4, <1>6, <1>7 DEF Following

\* A hello: what is followed in the life of the connection is not emptied.
LEMMA HelloFollow ==
    ASSUME Typed, Typed', LogKept, NEW L \in Nat, Conn(L), Following(L), Receive,
           Head(toClient).e = "hello", Hello(Head(toClient))
    PROVE  Following(L)'
<1>1. PICK m \in Event : m = toClient[1] /\ m = Head(toClient) /\ m.e = "hello" /\ Hello(m)
    BY ReceiveIs, ReceivedMail
<1>2. /\ page'.running = page.running /\ log' = log /\ m.now \in Nat
      /\ Purged(m.now) => chans' = Emptied
      /\ ~Purged(m.now) => chans' = chans
    BY <1>1, HelloIs
<1>3. CASE ~Purged(m.now)
    BY <1>2, <1>3, FollowSame
<1>4. CASE Purged(m.now)
    <2>1. \A a \in Addrs : chans'[a].ts = <<>>
        BY <1>2, <1>4, EmptiedIs DEF Typed
    <2>2. log.steady \subseteq Addrs /\ log.life \in Nat
        BY Given DEF LogKept, LogRecords
    <2>3. ASSUME NEW a \in log.steady, Punctual, L = log.life, log.lastT[a] # None PROVE FALSE
        <3>1. /\ chans[a].ts # <<>> /\ \A i \in 1 .. Len(chans[a].ts) : chans[a].ts[i].life >= L
            BY <2>3 DEF Following, Followed
        <3>2. a \in Addrs /\ chans[a].ts \in Ordered
            BY <2>2 DEF Typed, TypedChans
        <3>3. Len(chans[a].ts) \in 1 .. Len(chans[a].ts) /\ chans[a].ts \in Seq(Sample)
            BY <3>1, <3>2, NewestIs DEF Ordered
        <3>4. Last(chans[a].ts) = chans[a].ts[Len(chans[a].ts)]
            BY DEF Last
        <3>5. chans[a].ts[Len(chans[a].ts)].life \in Nat /\ chans[a].ts[Len(chans[a].ts)].life <= L
            BY <3>2, <3>3, DatesAre DEF Conn, Peers
        <3>6. Last(chans[a].ts).life = L
            BY <3>1, <3>3, <3>4, <3>5
        <3>7. Head(toClient).life = L
            BY <1>1, ReceivedMail DEF Conn, Mail, HelloFits
        <3>8. PurgeExcused(a)
            BY <2>1, <3>1, <3>2, HelloSpares
        <3>9. page.running = TRUE
            BY <2>3 DEF Following, Followed
        <3>10. \A b \in Held : Ahead[b] \in Nat /\ Ahead[b] <= Slack
            BY <2>3, Given DEF Punctual, Held
        <3>11. \A b \in Held : ~ (Ahead[b] > Slack)
            BY <3>10, Given
        <3>12. QED
            BY <3>6, <3>7, <3>8, <3>9, <3>11 DEF PurgeExcused
    <2>4. ASSUME NEW a \in log.steady PROVE Followed(a, L, chans'[a].ts, page'.running, log')
        <3>1. chans'[a].ts = <<>> /\ page'.running = TRUE /\ log' = log
            BY <1>2, <2>1, <2>2 DEF Following, Followed
        <3>2. QED
            BY <2>3, <3>1 DEF Followed
    <2>5. QED
        BY <1>2, <2>4 DEF Following
<1>5. QED
    BY <1>3, <1>4

\* A batch: its samples are later than the rows, or of a later life.
LEMMA DataFollow ==
    ASSUME Typed, Typed', LogKept, NEW L \in Nat, Conn(L), Following(L), Receive,
           Head(toClient).e = "d", Data(Head(toClient))
    PROVE  Following(L)'
<1>1. PICK m \in Event : m = toClient[1] /\ m.e = "d" /\ Data(m)
    BY ReceiveIs, ReceivedMail
<1>2. page' = page /\ log' = log /\ 1 \in 1 .. Len(toClient)
    BY <1>1, DataIs, ReceivedMail
<1>3. \A a \in Addrs : BatchFits(a, m.s[a], L)
    BY <1>1, <1>2 DEF Conn, Mail
<1>4. log.steady \subseteq Addrs /\ log.life \in Nat /\ log.from \in Nat
      /\ \A a \in Addrs : log.lastT[a] \in Nat \cup {None}
    BY Given DEF LogKept, LogRecords
<1>5. ASSUME NEW a \in log.steady PROVE Followed(a, L, chans'[a].ts, page'.running, log')
    <2> DEFINE ts == chans[a].ts
               r == chans'[a].ts
    <2>0. a \in Addrs
        BY <1>4
    <2>1. /\ r \in Ordered /\ ts \in Ordered /\ Len(ts) <= Len(r)
          /\ \A i \in 1 .. Len(r) : \/ (i \in 1 .. Len(ts) /\ r[i] = ts[i])
                                    \/ (i > Len(ts) /\ \E k \in 1 .. Len(m.s[a]) : r[i] = m.s[a][k])
        BY <1>1, <2>0, FedIs
    <2>2. Followed(a, L, ts, page.running, log)
        BY DEF Following
    <2>3. \A i \in 1 .. Len(r) : \/ (r[i] = ts[i] /\ i \in 1 .. Len(ts))
                                  \/ (i > Len(ts) /\ r[i].life = L)
        <3>1. \A k \in 1 .. Len(m.s[a]) : m.s[a][k].life = L
            BY <1>3, <2>0 DEF BatchFits
        <3> HIDE DEF ts, r
        <3>2. ASSUME NEW i \in 1 .. Len(r)
              PROVE  \/ (r[i] = ts[i] /\ i \in 1 .. Len(ts))
                     \/ (i > Len(ts) /\ r[i].life = L)
            <4>1. CASE i \in 1 .. Len(ts) /\ r[i] = ts[i]
                BY <4>1
            <4>2. CASE i > Len(ts) /\ \E k \in 1 .. Len(m.s[a]) : r[i] = m.s[a][k]
                BY <3>1, <4>2
            <4>3. QED
                BY <2>1, <4>1, <4>2
        <3>3. QED
            BY <3>2
    <2> HIDE DEF ts, r
    <2>4. /\ ts \in Seq(Sample) /\ r \in Seq(Sample) /\ Len(ts) \in Nat /\ Len(r) \in Nat
          /\ \A i \in 1 .. Len(r) : r[i].t \in Nat /\ r[i].life \in Nat
        <3>1. ts \in Seq(Sample) /\ r \in Seq(Sample)
            BY <2>1 DEF Ordered
        <3>2. QED
            BY <3>1, DatesAre
    <2>5. \A i \in 1 .. Len(r) : r[i].life >= log.life
        BY <1>4, <2>2, <2>3, <2>4 DEF Followed, Following
    <2>6. ts # <<>> => r # <<>> /\ LastOf(ts) \in Nat /\ LastOf(r) \in Nat /\ LastOf(ts) <= LastOf(r)
                       /\ \A i \in 1 .. Len(r) : i > Len(ts) => LastOf(ts) < r[i].t
        <3>1. SUFFICES ASSUME ts # <<>>
                       PROVE  r # <<>> /\ LastOf(ts) \in Nat /\ LastOf(r) \in Nat /\ LastOf(ts) <= LastOf(r)
                              /\ \A i \in 1 .. Len(r) : i > Len(ts) => LastOf(ts) < r[i].t
            OBVIOUS
        <3>2. Len(ts) \in 1 .. Len(ts) /\ Len(ts) > 0 /\ Len(ts) \in 1 .. Len(r) /\ r # <<>>
            BY <2>1, <2>4, <3>1
        <3>3. r[Len(ts)] = ts[Len(ts)]
            BY <2>3, <2>4, <3>2
        <3>4. LastOf(ts) = r[Len(ts)].t /\ LastOf(ts) \in Nat
            BY <2>4, <3>2, <3>3 DEF LastOf
        <3>5. \A i \in 1 .. Len(r) : i > Len(ts) => LastOf(ts) < r[i].t
            BY <2>1, <3>2, <3>4 DEF Ordered, InOrder
        <3>6. Len(r) \in 1 .. Len(r) /\ (Len(r) = Len(ts) \/ Len(r) > Len(ts))
            BY <2>1, <2>4, <3>2
        <3>7. LastOf(r) \in Nat /\ LastOf(ts) <= LastOf(r)
            <4>1. LastOf(r) = r[Len(r)].t /\ LastOf(r) \in Nat
                BY <2>4, <3>6 DEF LastOf
            <4>2. Len(r) = Len(ts) => LastOf(r) = LastOf(ts)
                BY <3>4, <4>1
            <4>3. Len(r) > Len(ts) => LastOf(ts) < LastOf(r)
                BY <3>5, <3>6, <4>1
            <4>4. QED
                BY <3>4, <3>6, <4>1, <4>2, <4>3
        <3>8. QED
            BY <3>2, <3>4, <3>5, <3>7
    <2>7. ASSUME Punctual, L = log.life, log.lastT[a] # None
          PROVE  ts # <<>> /\ log.lastT[a] \in Nat /\ log.lastT[a] <= LastOf(ts)
        BY <1>4, <2>0, <2>2, <2>7 DEF Followed
    <2>8. ASSUME Punctual, L = log.life, log.lastT[a] # None
          PROVE  r # <<>> /\ log.lastT[a] <= LastOf(r)
        BY <2>6, <2>7, <2>8
    <2>9. ASSUME Punctual, NEW i \in 1 .. Len(r) PROVE Noted(a, r[i], log)
        <3>1. CASE i \in 1 .. Len(ts) /\ r[i] = ts[i]
            BY <2>2, <2>9, <3>1 DEF Followed
        <3>2. CASE i > Len(ts) /\ r[i].life = L
            <4>1. SUFFICES ASSUME r[i].life = log.life, r[i].t > log.from PROVE r[i].t > FromOf(a, log)
                BY DEF Noted
            <4>2. CASE log.lastT[a] = None
                BY <4>1, <4>2 DEF FromOf
            <4>3. CASE log.lastT[a] # None
                <5>1. ts # <<>> /\ log.lastT[a] \in Nat /\ log.lastT[a] <= LastOf(ts)
                    BY <2>7, <2>9, <3>2, <4>1, <4>3
                <5>2. LastOf(ts) \in Nat /\ LastOf(ts) < r[i].t /\ r[i].t \in Nat
                    BY <2>4, <2>6, <3>2, <5>1
                <5>3. FromOf(a, log) = log.lastT[a]
                    BY <4>3 DEF FromOf
                <5>4. QED
                    BY <5>1, <5>2, <5>3
            <4>4. QED
                BY <4>2, <4>3
        <3>3. QED
            BY <2>3, <3>1, <3>2
    <2>10. Followed(a, L, r, page.running, log)
        BY <2>2, <2>5, <2>8, <2>9 DEF Followed
    <2>11. QED
        BY <1>2, <2>10 DEF r
<1>6. QED
    BY <1>2, <1>5 DEF Following

\* Steps by which the journal is not touched, nor the samples of what is
\* shown without a break.
LEMMA QuietFollow ==
    ASSUME LogKept, NEW L \in Nat, NEW K \in Nat, Following(L), L <= K, log' = log,
           \A a \in Addrs : chans'[a].ts = chans[a].ts, page'.running = page.running
    PROVE  Following(K)'
<1>1. log.life \in Nat /\ log.life <= L /\ log.steady \subseteq Addrs
    BY Given DEF LogKept, LogRecords, Following
<1>2. K = log.life => L = K
    BY <1>1
<1>3. QED
    BY <1>1, <1>2, FollowSame

\* Without a variable shown without a break there is nothing to follow.
LEMMA IdleFollow ==
    ASSUME NEW L \in Nat, log'.steady = {}, log'.life <= L
    PROVE  Following(L)'
    BY DEF Following

\* The calls of the page that end what is shown without a break.
LEMMA BreakFollow ==
    ASSUME Typed, LogKept, NEW L \in Nat, Following(L),
           Stop \/ Start \/ LogDisable \/ \E a \in Addrs : Unsubscribe(a)
    PROVE  Following(L)'
<1>0. log \in LogRecords /\ log.life \in Nat /\ log.life <= L
    BY Given DEF LogKept, LogRecords, Following
<1>1. CASE Stop
    <2>1. log'.steady = {} /\ log'.life = log.life
        BY <1>0, <1>1 DEF Stop, LogRecords
    <2>2. QED
        BY <1>0, <2>1, IdleFollow
<1>2. CASE LogDisable
    <2>1. log'.steady = {} /\ log'.life = 0
        BY <1>2, NoLogIs DEF LogDisable
    <2>2. QED
        BY <2>1, IdleFollow
<1>3. CASE Start
    <2>1. page.running # TRUE /\ log' = log
        BY <1>3 DEF Start
    <2>2. log.steady = {}
        BY <2>1 DEF Following, Followed
    <2>3. QED
        BY <1>0, <2>1, <2>2, IdleFollow
<1>4. CASE \E a \in Addrs : Unsubscribe(a)
    <2>1. PICK a \in Addrs : Unsubscribe(a)
        BY <1>4
    <2>2. page' = page /\ \A b \in Addrs : b # a => chans'[b].ts = chans[b].ts
        BY <2>1 DEF Unsubscribe, Typed, TypedChans
    <2>3. CASE chans[a].refs - 1 = 0
        <3>1. log' = [log EXCEPT !.steady = log.steady \ {a}]
            BY <2>1, <2>3 DEF Unsubscribe
        <3>2. /\ log'.life = log.life /\ log'.from = log.from /\ log'.lastT = log.lastT
              /\ log'.rows = log.rows /\ log'.steady = log.steady \ {a}
            BY <1>0, <3>1 DEF LogRecords
        <3>3. log.steady \subseteq Addrs
            BY <1>0 DEF LogRecords
        <3>4. QED
            BY <2>2, <3>2, <3>3, FollowSame
    <2>4. CASE chans[a].refs - 1 # 0
        <3>1. log' = log /\ chans' = [chans EXCEPT ![a] = [chans[a] EXCEPT !.refs = chans[a].refs - 1]]
            BY <2>1, <2>4 DEF Unsubscribe
        <3>2. chans'[a].ts = chans[a].ts
            BY <3>1 DEF Typed, TypedChans
        <3>3. QED
            BY <2>2, <3>1, <3>2, QuietFollow
    <2>5. QED
        BY <2>3, <2>4
<1>5. QED
    BY <1>1, <1>2, <1>3, <1>4

\* Every step keeps what the journal follows, for the life that the page is
\* then connected to.
LEMMA StepFollow ==
    ASSUME Typed, Typed', LogKept, NEW L \in Nat, Conn(L), Following(L), [Next]_vars,
           NEW K \in Nat, Open => K = server.life, ~Open => K = L
    PROVE  Following(K)'
<1>1. CASE Open
    <2>1. log' = log /\ UNCHANGED chans /\ page'.running = page.running
        BY <1>1 DEF Open, Typed, TypedPage
    <2>2. L <= K
        BY <1>1, Given DEF Conn, Peers, Typed, TypedServer
    <2>3. QED
        BY <2>1, <2>2, QuietFollow
<1>2. CASE /\ ~Open
           /\ \/ Serve \/ Flush \/ Cut \/ Crash \/ Reboot \/ Tick \/ Probe \/ Reconnect \/ GiveUp
              \/ Refused \/ Dropped \/ UNCHANGED vars
              \/ \E a \in Addrs : Subscribe(a) \/ Write(a) \/ WriteTimeout(a)
    <2>1. log' = log
        BY <1>2 DEF Serve, Flush, Cut, Crash, Reboot, Tick, Probe, Reconnect, GiveUp, Refused,
                    Dropped, vars, Subscribe, Write, WriteTimeout
    <2>2. \A a \in Addrs : chans'[a].ts = chans[a].ts
        <3>1. CASE UNCHANGED chans
            BY <3>1
        <3>2. CASE \E a \in Addrs : Subscribe(a)
            <4>1. PICK a \in Addrs : chans' = [chans EXCEPT ![a].refs = @ + 1]
                BY <3>2 DEF Subscribe
            <4>2. chans \in [Addrs -> [refs : 0 .. MaxRefs, ts : Ordered]]
                BY DEF Typed, TypedChans
            <4>3. QED
                BY <4>1, <4>2
        <3>3. QED
            BY <1>2, <3>1, <3>2 DEF Serve, Flush, Cut, Crash, Reboot, Tick, Probe, Reconnect, GiveUp,
                                    Refused, Dropped, vars, Write, WriteTimeout
    <2>3. page'.running = page.running
        BY <1>2 DEF Serve, Flush, Cut, Crash, Reboot, Tick, Probe, Reconnect, GiveUp, Refused,
                    Dropped, vars, Subscribe, Write, WriteTimeout, Connecting, Typed, TypedPage
    <2>4. K = L /\ L <= K
        BY <1>2
    <2>5. QED
        BY <2>1, <2>2, <2>3, <2>4, QuietFollow
<1>3. CASE ~Open /\ (Stop \/ Start \/ LogDisable \/ \E a \in Addrs : Unsubscribe(a))
    BY <1>3, BreakFollow
<1>4. CASE ~Open /\ LogEnable
    BY <1>4, EnableFollow
<1>5. CASE ~Open /\ LogTick
    BY <1>5, TickFollow
<1>6. CASE ~Open /\ Receive
    <2>1. CASE Head(toClient).e = "set" /\ SetAnswer(Head(toClient))
        <3>1. log' = log /\ UNCHANGED <<page, chans>>
            BY <2>1 DEF SetAnswer
        <3>2. L <= L
            OBVIOUS
        <3>3. QED
            BY <1>6, <3>1, <3>2, QuietFollow
    <2>2. QED
        BY <1>6, <2>1, ReceiveIs, HelloFollow, DataFollow
<1>7. QED
    BY <1>1, <1>2, <1>3, <1>4, <1>5, <1>6, Steps

\* The journal of the page keeps its rows, and follows what is shown.
Journaled == LogKept /\ \E L \in Nat : Conn(L) /\ Following(L)

LEMMA InitJournaled == ASSUME Init PROVE Journaled
<1>1. log = NoLog
    BY DEF Init
<1>2. LogKept
    BY <1>1, NoLogIs DEF LogKept, Ends
<1>3. Following(1)
    BY <1>1, NoLogIs DEF Following
<1>4. QED
    BY <1>2, <1>3, InitConn DEF Journaled

LEMMA StepJournaled == ASSUME Typed, Typed', Journaled, [Next]_vars PROVE Journaled'
<1>1. LogKept
    BY DEF Journaled
<1>2. PICK L \in Nat : Conn(L) /\ Following(L)
    BY DEF Journaled
<1>3. PICK K \in Nat : Conn(K)' /\ (Open => K = server.life) /\ (~Open => K = L)
    BY <1>2, StepConn
<1>4. Following(K)'
    BY <1>1, <1>2, <1>3, StepFollow
<1>5. LogKept'
    BY <1>1, StepLogKept
<1>6. QED
    BY <1>3, <1>4, <1>5 DEF Journaled

\* The rows of the journal are in order of date, each sample once, and none
\* of what the page has held of a variable shown without a break is passed
\* over (app.js:1550-1577).
THEOREM NothingPassedOver == Spec => []JournalFollows
<1>1. ASSUME Typed, Journaled PROVE JournalFollows
    <2>1. log \in LogRecords
        BY <1>1 DEF Journaled, LogKept
    <2>2. PICK L \in Nat : Following(L)
        BY <1>1 DEF Journaled
    <2>3. ASSUME NEW a \in Addrs, NEW i \in 1 .. Len(log.rows[a]) - 1
          PROVE  log.rows[a][i].t < log.rows[a][i + 1].t
        <3>1. log.rows[a] \in Ordered
            BY <2>1 DEF LogRecords
        <3>2. i \in 1 .. Len(log.rows[a]) /\ i + 1 \in 1 .. Len(log.rows[a]) /\ i < i + 1
            BY <3>1 DEF Ordered
        <3>3. QED
            BY <3>1, <3>2 DEF Ordered, InOrder
    <2>4. ASSUME NEW a \in Addrs, a \in log.steady, Punctual, NEW i \in DOMAIN chans[a].ts
          PROVE  Noted(a, chans[a].ts[i], log)
        <3>1. chans[a].ts \in Seq(Sample) /\ log.rows[a] \in Seq(Sample)
            BY <1>1, <2>1 DEF Typed, TypedChans, LogRecords, Ordered
        <3>2. i \in 1 .. Len(chans[a].ts)
            BY <2>4, <3>1
        <3>3. QED
            BY <2>2, <2>4, <3>2 DEF Following, Followed
    <2>5. \A a \in Addrs : DOMAIN log.rows[a] = 1 .. Len(log.rows[a]) /\ FromOf(a, log) = LogFrom(a)
        <3>1. \A a \in Addrs : log.rows[a] \in Seq(Sample)
            BY <2>1 DEF LogRecords, Ordered
        <3>2. QED
            BY <3>1 DEF FromOf, LogFrom
    <2>6. QED
        BY <2>3, <2>4, <2>5 DEF JournalFollows, Noted, Punctual
<1>2. Init => Journaled
    BY InitJournaled
<1>3. Typed /\ Typed' /\ Journaled /\ [Next]_vars => Journaled'
    BY StepJournaled
<1>4. Typed /\ Journaled => JournalFollows
    BY <1>1
<1>5. QED
    BY <1>2, <1>3, <1>4, AlwaysTyped, PTL DEF Spec

=============================================================================
