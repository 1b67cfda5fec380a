--------------------------- MODULE Delivery_proofs ---------------------------
(***************************************************************************)
(* What the journals and the readers of a point receive (Delivery), and    *)
(* the dots of the campaigns (Campaign).                                   *)
(*                                                                         *)
(* Delivery, for any periods, lateness, depth and history. Samples enter   *)
(* the history anywhere, dated by a device that may be late or ahead, and  *)
(* the readers ask for what is newer than a date. DInv relates the order   *)
(* in the history (the dates) with the order of arrival (the numbers):     *)
(* what a reader has not read yet is newer than its date and not old       *)
(* enough to be dropped. The search by dichotomy is proved first.          *)
(*                                                                         *)
(* Campaign, for any tabs, names and ways of cleaning them, and with any   *)
(* number of calls under way. DotTells speaks of the tabs; the news come   *)
(* from the calls. CampSound says of a call what it is worth: one whose    *)
(* news are still good bears the name its tab has now, and an answer that  *)
(* came back is what runs now. CampAlike says that the session describes   *)
(* the tabs that are open, which is why a page that opens again asks for   *)
(* the campaigns of its own tabs.                                          *)
(***************************************************************************)
EXTENDS MCDelivery, FunctionTheorems, FiniteSetTheorems, NaturalsInduction,
        WellFoundedInduction, TLAPS

(***************************************************************************)
(* The history of a point: what the operators of History do to a sorted    *)
(* sequence of samples.                                                    *)
(***************************************************************************)
LEMMA NatInSet ==
  ASSUME NEW F, 0 \in F, \A n \in Nat : n \in F => n + 1 \in F
  PROVE  \A n \in Nat : n \in F
<1> DEFINE R == OpToRel(<, Nat)
           Missing == {n \in Nat : n \notin F}
<1>1. SUFFICES ASSUME Missing # {} PROVE FALSE
  OBVIOUS
<1>2. IsWellFoundedOn(R, Nat)
  BY NatLessThanWellFounded
<1>3. PICK n \in Missing : \A m \in Missing : ~ (<<m, n>> \in R)
  <2> HIDE DEF Missing, R
  <2>1. Missing \subseteq Nat
    BY DEF Missing
  <2> QED BY <1>1, <1>2, <2>1, WFMin
<1>4. n # 0 /\ n - 1 \in Nat
  OBVIOUS
<1>5. \A m, k \in Nat : m < k => <<m, k>> \in R
  BY DEF OpToRel
<1>50. n - 1 \in F
  <2>1. <<n - 1, n>> \in R /\ n - 1 < n
    <3> HIDE DEF R
    <3>1. n - 1 \in Nat /\ n \in Nat /\ n - 1 < n
      BY <1>4
    <3>2. QED
      BY <3>1, <1>5
  <2> HIDE DEF R
  <2> QED BY <1>3, <1>4, <2>1
<1>6. QED
  BY <1>4, <1>50

\* A sequence of samples: its dates are whole numbers.
Dates(s) == \A i \in 1..Len(s) : s[i].t \in Int
\* The first k samples are no later than d, the others are.
CutsAt(s, d, k) == k \in 0..Len(s) /\ \A i \in 1..Len(s) : s[i].t > d <=> i > k
\* The samples of r are of s.
Among(r, s) == \A i \in 1..Len(r) : \E j \in 1..Len(s) : r[i] = s[j]
\* r is s without its first k samples.
Suffix(r, s, k) ==
  /\ k \in 0..Len(s) /\ Len(r) = Len(s) - k
  /\ \A i \in 1..Len(r) : r[i] = s[k + i]

(* A set of indices closed downwards is a beginning.                       *)
LEMMA DownSet ==
  ASSUME NEW n \in Nat, NEW D \in SUBSET (1..n), \A i \in D : \A j \in 1..i : j \in D
  PROVE  \E k \in 0..n : D = 1..k
<1> DEFINE F == {m \in Nat : m <= n => \E k \in 0..m : D \cap (1..m) = 1..k}
<1>1. 0 \in F
  OBVIOUS
<1>2. ASSUME NEW m \in Nat, m \in F PROVE m + 1 \in F
  <2>1. SUFFICES ASSUME m + 1 <= n PROVE \E k \in 0..(m + 1) : D \cap (1..(m + 1)) = 1..k
    OBVIOUS
  <2>2. PICK k \in 0..m : D \cap (1..m) = 1..k
    BY <1>2, <2>1
  <2>3. CASE m + 1 \in D
    <3>1. D \cap (1..(m + 1)) = 1..(m + 1)
      BY <2>3
    <3>2. QED
      BY <3>1
  <2>4. CASE m + 1 \notin D
    <3>1. D \cap (1..(m + 1)) = 1..k
      BY <2>4, <2>2
    <3>2. QED
      BY <3>1
  <2>5. QED
    BY <2>3, <2>4
<1>3. \A m \in Nat : m \in F
  <2> HIDE DEF F
  <2> QED BY <1>1, <1>2, NatInSet
<1>4. \E k \in 0..n : D \cap (1..n) = 1..k
  BY <1>3
<1>5. D \cap (1..n) = D
  OBVIOUS
<1>6. QED
  BY <1>4, <1>5

LEMMA BeginningSize ==
  ASSUME NEW k \in Nat
  PROVE  Cardinality(1..k) = k
<1>1. 1 \in Int /\ k \in Int
  OBVIOUS
<1>2. Cardinality(1..k) = IF 1 > k THEN 0 ELSE k - 1 + 1
  BY <1>1, FS_Interval
<1>3. QED
  BY <1>2

LEMMA EndSize ==
  ASSUME NEW k \in Nat, NEW n \in Nat, k <= n
  PROVE  Cardinality((k + 1)..n) = n - k
<1>1. k + 1 \in Int /\ n \in Int
  OBVIOUS
<1>2. Cardinality((k + 1)..n) = IF k + 1 > n THEN 0 ELSE n - (k + 1) + 1
  BY <1>1, FS_Interval
<1>3. QED
  BY <1>2

(* A date cuts a sorted sequence in two.                                   *)
LEMMA Cut ==
  ASSUME NEW S, NEW s \in Seq(S), Dates(s), Sorted(s), NEW d \in Int
  PROVE  \E k \in 0..Len(s) : CutsAt(s, d, k)
<1> DEFINE D == {i \in 1..Len(s) : s[i].t <= d}
<1>1. Len(s) \in Nat
  OBVIOUS
<1>2. \A i \in D : \A j \in 1..i : j \in D
  <2>1. TAKE i \in D
  <2>2. TAKE j \in 1..i
  <2>3. j \in 1..Len(s) /\ s[i].t \in Int /\ s[j].t \in Int
    BY <1>1 DEF Dates
  <2>4. s[j].t <= s[i].t
    BY <2>3 DEF Sorted
  <2>5. QED
    BY <2>3, <2>4
<1>3. PICK k \in 0..Len(s) : D = 1..k
  <2> HIDE DEF D
  <2>1. D \in SUBSET (1..Len(s))
    BY DEF D
  <2>2. QED
    BY <1>1, <1>2, <2>1, DownSet
<1>4. CutsAt(s, d, k)
  BY <1>1, <1>3 DEF CutsAt, Dates
<1>5. QED
  BY <1>4

-----------------------------------------------------------------------------
\* What the dichotomy of read() is, as an equation.
Halves(f, s, d) ==
  f = [r \in (0..Len(s)) \X (0..Len(s)) |->
        LET lo == r[1]
            hi == r[2]
            m == (lo + hi) \div 2 IN
        IF lo >= hi THEN lo
        ELSE IF s[m + 1].t <= d THEN f[<<m + 1, hi>>] ELSE f[<<lo, m>>]]

\* What it finds between two bounds.
Found(lo, hi, k) == IF lo >= hi THEN lo ELSE IF k < lo THEN lo ELSE IF k > hi THEN hi ELSE k

LEMMA Middle ==
  ASSUME NEW lo \in Nat, NEW hi \in Nat, lo < hi
  PROVE  /\ (lo + hi) \div 2 \in Nat
         /\ lo <= (lo + hi) \div 2 /\ (lo + hi) \div 2 < hi
  OBVIOUS

(* It has a solution on a sorted sequence...                               *)
LEMMA HalvesExist ==
  ASSUME NEW S, NEW s \in Seq(S), NEW d, NEW k \in 0..Len(s), Dates(s), d \in Int, CutsAt(s, d, k)
  PROVE  \E f : Halves(f, s, d)
<1> DEFINE P == (0..Len(s)) \X (0..Len(s))
           f == [r \in P |-> Found(r[1], r[2], k)]
<1>0. Len(s) \in Nat
  OBVIOUS
<1>1. ASSUME NEW lo \in 0..Len(s), NEW hi \in 0..Len(s), lo < hi
      PROVE  Found(lo, hi, k) = IF s[(lo + hi) \div 2 + 1].t <= d
                                THEN f[<<(lo + hi) \div 2 + 1, hi>>] ELSE f[<<lo, (lo + hi) \div 2>>]
  <2>1. PICK m \in Nat : m = (lo + hi) \div 2 /\ lo <= m /\ m < hi
    BY <1>0, <1>1, Middle
  <2>2. m + 1 \in 1..Len(s) /\ m \in 0..Len(s) /\ m + 1 \in 0..Len(s)
    BY <2>1, <1>0
  <2>3. s[m + 1].t <= d <=> m + 1 <= k
    BY <2>2, <1>0 DEF CutsAt, Dates
  <2>4. f[<<m + 1, hi>>] = Found(m + 1, hi, k) /\ f[<<lo, m>>] = Found(lo, m, k)
    BY <2>2
  <2>5. Found(lo, hi, k) = IF m + 1 <= k THEN Found(m + 1, hi, k) ELSE Found(lo, m, k)
    BY <1>0, <1>1, <2>1 DEF Found
  <2>6. QED
    BY <2>1, <2>3, <2>4, <2>5
<1>2. \A r \in P : f[r] = LET lo == r[1]
                              hi == r[2]
                              m == (lo + hi) \div 2 IN
                          IF lo >= hi THEN lo
                          ELSE IF s[m + 1].t <= d THEN f[<<m + 1, hi>>] ELSE f[<<lo, m>>]
  <2>1. TAKE r \in P
  <2>2. r[1] \in 0..Len(s) /\ r[2] \in 0..Len(s) /\ f[r] = Found(r[1], r[2], k)
    OBVIOUS
  <2>3. CASE r[1] >= r[2]
    BY <2>2, <2>3 DEF Found
  <2>4. CASE r[1] < r[2]
    <3> HIDE DEF f
    <3>1. ~ (r[1] >= r[2])
      BY <2>2, <2>4, <1>0
    <3>2. QED
      BY <2>2, <2>4, <3>1, <1>1
  <2>5. QED
    BY <2>2, <2>3, <2>4, <1>0
<1>3. Halves(f, s, d)
  BY <1>2 DEF Halves
<1>4. QED
  BY <1>3

(* ... and any solution finds the cut.                                     *)
LEMMA HalvesFind ==
  ASSUME NEW S, NEW s \in Seq(S), NEW d, NEW k \in 0..Len(s), Dates(s), d \in Int, CutsAt(s, d, k),
         NEW f, Halves(f, s, d)
  PROVE  f[<<0, Len(s)>>] = k
<1> DEFINE F == {n \in Nat : \A lo, hi \in 0..Len(s) :
                    lo <= hi /\ hi - lo <= n => f[<<lo, hi>>] = Found(lo, hi, k)}
<1>0. Len(s) \in Nat
  OBVIOUS
<1>1. ASSUME NEW lo \in 0..Len(s), NEW hi \in 0..Len(s)
      PROVE  f[<<lo, hi>>] = IF lo >= hi THEN lo
                             ELSE IF s[(lo + hi) \div 2 + 1].t <= d
                                  THEN f[<<(lo + hi) \div 2 + 1, hi>>] ELSE f[<<lo, (lo + hi) \div 2>>]
  BY DEF Halves
<1>2. 0 \in F
  <2>1. ASSUME NEW lo \in 0..Len(s), NEW hi \in 0..Len(s), lo <= hi, hi - lo <= 0
        PROVE  f[<<lo, hi>>] = Found(lo, hi, k)
    <3>1. lo >= hi
      BY <1>0, <2>1
    <3>2. QED
      BY <3>1, <1>1 DEF Found
  <2>2. QED
    BY <2>1
<1>3. ASSUME NEW n \in Nat, n \in F PROVE n + 1 \in F
  <2>1. ASSUME NEW lo \in 0..Len(s), NEW hi \in 0..Len(s), lo <= hi, hi - lo <= n + 1
        PROVE  f[<<lo, hi>>] = Found(lo, hi, k)
    <3>1. CASE lo >= hi
      BY <3>1, <1>1 DEF Found
    <3>2. CASE lo < hi
      <4>1. PICK m \in Nat : m = (lo + hi) \div 2 /\ lo <= m /\ m < hi
        BY <1>0, <3>2, Middle
      <4>2. m + 1 \in 1..Len(s) /\ m \in 0..Len(s) /\ m + 1 \in 0..Len(s)
        BY <4>1, <1>0
      <4>3. s[m + 1].t <= d <=> m + 1 <= k
        BY <4>2, <1>0 DEF CutsAt, Dates
      <4>4. m + 1 <= hi /\ hi - (m + 1) <= n /\ lo <= m /\ m - lo <= n
        BY <4>1, <2>1, <1>0
      <4>5. f[<<m + 1, hi>>] = Found(m + 1, hi, k) /\ f[<<lo, m>>] = Found(lo, m, k)
        BY <1>3, <4>2, <4>4
      <4>6. Found(lo, hi, k) = IF m + 1 <= k THEN Found(m + 1, hi, k) ELSE Found(lo, m, k)
        BY <1>0, <3>2, <4>1 DEF Found
      <4>7. ~ (lo >= hi)
        BY <3>2, <1>0
      <4>8. f[<<lo, hi>>] = IF s[m + 1].t <= d THEN f[<<m + 1, hi>>] ELSE f[<<lo, m>>]
        BY <1>1, <4>1, <4>7
      <4>9. QED
        BY <4>3, <4>5, <4>6, <4>8
    <3>3. QED
      BY <3>1, <3>2, <1>0
  <2>2. QED
    BY <2>1
<1>4. \A n \in Nat : n \in F
  <2> HIDE DEF F
  <2> QED BY <1>2, <1>3, NatInSet
<1>5. Len(s) \in F
  BY <1>0, <1>4
<1>6. f[<<0, Len(s)>>] = Found(0, Len(s), k)
  BY <1>0, <1>5
<1>7. QED
  BY <1>0, <1>6 DEF Found

(* The dichotomy of read() finds the cut.                                  *)
LEMMA BisectCuts ==
  ASSUME NEW S, NEW s \in Seq(S), Dates(s), Sorted(s), NEW d \in Int
  PROVE  CutsAt(s, d, Bisect(s, d))
<1>1. PICK k \in 0..Len(s) : CutsAt(s, d, k)
  BY Cut
<1>2. \E f : Halves(f, s, d)
  BY <1>1, HalvesExist
<1>3. Bisect(s, d) = (CHOOSE f : Halves(f, s, d))[<<0, Len(s)>>]
  BY DEF Bisect, Halves
<1>4. Halves(CHOOSE f : Halves(f, s, d), s, d)
  BY <1>2
<1>5. Bisect(s, d) = k
  BY <1>1, <1>3, <1>4, HalvesFind
<1>6. QED
  BY <1>1, <1>5

-----------------------------------------------------------------------------
(* read(): the samples later than the cursor, which are the last ones.     *)
LEMMA AfterIs ==
  ASSUME NEW S, NEW s \in Seq(S), Dates(s), Sorted(s), NEW d \in Int
  PROVE  /\ After(s, d) \in Seq(S)
         /\ \E k \in 0..Len(s) : CutsAt(s, d, k) /\ Suffix(After(s, d), s, k)
<1>1. CutsAt(s, d, Bisect(s, d)) /\ Len(s) \in Nat
  BY BisectCuts
<1>2. PICK k \in 0..Len(s) : k = Bisect(s, d)
  BY <1>1 DEF CutsAt
<1>3. After(s, d) = SubSeq(s, k + 1, Len(s))
  BY <1>2 DEF After
<1>4. SubSeq(s, k + 1, Len(s)) \in Seq(S) /\ Suffix(SubSeq(s, k + 1, Len(s)), s, k)
  <2>1. Len(s) \in Nat
    OBVIOUS
  <2>2. QED
    BY <2>1 DEF Suffix
<1>5. QED
  BY <1>1, <1>2, <1>3, <1>4

(* Without a limit nothing is left out.                                    *)
LEMMA ReadAll ==
  ASSUME NEW S, NEW s \in Seq(S)
  PROVE  Decimated(s, 0) = s
<1>1. Len(s) \in Nat /\ \A n \in Nat : n \div 1 = n
  OBVIOUS
<1>2. Decimated(s, 0) = [i \in 1..Len(s) |-> s[i]]
  <2> DEFINE step == IF 0 > 0 /\ Len(s) > 0 THEN (Len(s) + 0 - 1) \div 0 ELSE 1
             kept == [i \in 1..((Len(s) + step - 1) \div step) |-> s[(i - 1) * step + 1]]
  <2>1. Decimated(s, 0) = IF step > 1 /\ kept[Len(kept)].t # s[Len(s)].t
                          THEN Append(kept, s[Len(s)]) ELSE kept
    BY DEF Decimated
  <2>2. step = 1
    OBVIOUS
  <2>3. Decimated(s, 0) = kept
    BY <2>1, <2>2
  <2>4. (Len(s) + step - 1) \div step = Len(s)
    BY <2>2, <1>1
  <2>5. \A i \in 1..Len(s) : (i - 1) * step + 1 = i
    BY <2>2
  <2>6. kept = [i \in 1..Len(s) |-> s[i]]
    BY <2>4, <2>5
  <2>7. QED
    BY <2>3, <2>6
<1>3. QED
  BY <1>2

(* Division, as the decimation uses it.                                    *)
LEMMA Quotient ==
  ASSUME NEW n \in Nat, NEW p \in Nat \ {0}
  PROVE  /\ n \div p \in Nat
         /\ (n \div p) * p <= n /\ n < (n \div p) * p + p
  BY Z3

LEMMA Products ==
  ASSUME NEW i \in Nat, NEW j \in Nat, NEW p \in Nat, i <= j
  PROVE  i * p <= j * p /\ i * p \in Nat
  BY Z3

(* With a limit what is given comes from the samples and ends at the date  *)
(* of the last one.                                                        *)
LEMMA DecimatedEnds ==
  ASSUME NEW S, NEW s \in Seq(S), s # <<>>, NEW max \in Nat
  PROVE  LET r == Decimated(s, max)
         IN  /\ r \in Seq(S) /\ r # <<>>
             /\ Among(r, s)
             /\ r[Len(r)].t = s[Len(s)].t
<1>1. Len(s) \in Nat /\ Len(s) >= 1 /\ Len(s) \in 1..Len(s)
  OBVIOUS
<1> DEFINE step == IF max > 0 /\ Len(s) > max THEN (Len(s) + max - 1) \div max ELSE 1
           last == (Len(s) + step - 1) \div step
           kept == [i \in 1..last |-> s[(i - 1) * step + 1]]
           r == Decimated(s, max)
<1>2. r = IF step > 1 /\ kept[Len(kept)].t # s[Len(s)].t THEN Append(kept, s[Len(s)]) ELSE kept
  BY DEF Decimated
<1>3. step \in Nat /\ step >= 1
  <2>1. CASE max > 0 /\ Len(s) > max
    <3>1. Len(s) + max - 1 \in Nat /\ max \in Nat \ {0}
      BY <1>1, <2>1
    <3>2. PICK q \in Nat : q = (Len(s) + max - 1) \div max /\ Len(s) + max - 1 < q * max + max
      BY <3>1, Quotient
    <3>3. q # 0
      BY <3>1, <3>2, <1>1, <2>1
    <3>4. QED
      BY <2>1, <3>2, <3>3
  <2>2. QED
    BY <2>1
<1>4. last \in Nat /\ last * step <= Len(s) + step - 1 /\ Len(s) + step - 1 < last * step + step
  <2> HIDE DEF step
  <2>1. Len(s) + step - 1 \in Nat /\ step \in Nat \ {0}
    BY <1>1, <1>3
  <2>2. QED
    BY <2>1, Quotient
<1>5. last >= 1
  <2> HIDE DEF step, last
  <2>1. CASE last = 0
    <3>1. last * step = 0
      BY <2>1, <1>3
    <3>2. QED
      BY <3>1, <1>1, <1>3, <1>4
  <2>2. QED
    BY <2>1, <1>4
<1>6. ASSUME NEW i \in 1..last PROVE (i - 1) * step + 1 \in 1..Len(s)
  <2> HIDE DEF step, last
  <2>1. i - 1 \in Nat /\ last - 1 \in Nat /\ i - 1 <= last - 1
    BY <1>4, <1>5
  <2>2. (i - 1) * step <= (last - 1) * step /\ (i - 1) * step \in Nat
    BY <2>1, <1>3, Products
  <2>3. (last - 1) * step = last * step - step
    BY <1>3, <1>4, Z3
  <2>4. QED
    BY <2>2, <2>3, <1>1, <1>3, <1>4
<1>7. kept \in Seq(S) /\ Len(kept) = last
  <2> HIDE DEF step, last
  <2>1. \A i \in 1..last : s[(i - 1) * step + 1] \in S
    BY <1>6
  <2>2. QED
    BY <2>1, <1>4
<1>8. step = 1 => kept[last] = s[Len(s)]
  <2>1. ASSUME step = 1 PROVE kept[last] = s[Len(s)]
    <3> HIDE DEF step
    <3>1. last = Len(s)
      BY <2>1, <1>1
    <3>2. kept[last] = s[(last - 1) * step + 1]
      BY <1>4, <1>5
    <3>3. (last - 1) * step + 1 = Len(s)
      BY <2>1, <3>1, <1>1
    <3>4. QED
      BY <3>2, <3>3
  <2>2. QED
    BY <2>1
<1>9. \A i \in 1..last : \E j \in 1..Len(s) : kept[i] = s[j]
  <2> HIDE DEF step, last
  <2>1. QED
    BY <1>6
<1>10. CASE step > 1 /\ kept[Len(kept)].t # s[Len(s)].t
  <2>1. r = Append(kept, s[Len(s)])
    BY <1>2, <1>10
  <2> HIDE DEF step, last, kept, r
  <2>2. s[Len(s)] \in S
    BY <1>1
  <2>3. /\ r \in Seq(S) /\ Len(r) = last + 1 /\ r[last + 1] = s[Len(s)]
        /\ \A i \in 1..last : r[i] = kept[i]
    BY <2>1, <2>2, <1>4, <1>7
  <2>4. \A i \in 1..Len(r) : i \in 1..last \/ i = last + 1
    BY <2>3, <1>4
  <2>5. \A i \in 1..Len(r) : \E j \in 1..Len(s) : r[i] = s[j]
    BY <2>3, <2>4, <1>9, <1>1
  <2>6. QED
    BY <2>3, <2>5, <1>4 DEF r, Among
<1>11. CASE ~ (step > 1 /\ kept[Len(kept)].t # s[Len(s)].t)
  <2>1. r = kept
    BY <1>2, <1>11
  <2>2. kept[last].t = s[Len(s)].t
    <3> HIDE DEF step, last, kept, r
    <3> QED BY <1>11, <1>7, <1>8, <1>3
  <2> HIDE DEF step, last, kept
  <2>3. QED
    BY <2>1, <2>2, <1>4, <1>5, <1>7, <1>9 DEF Among
<1>12. QED
  BY <1>10, <1>11

-----------------------------------------------------------------------------
(* push(): a sample takes its place, the oldest ones go.                   *)

\* r is s with x after its first k samples.
Inserted(r, s, x, k) ==
  /\ k \in 0..Len(s) /\ Len(r) = Len(s) + 1
  /\ \A i \in 1..Len(r) : r[i] = IF i <= k THEN s[i] ELSE IF i = k + 1 THEN x ELSE s[i - 1]
\* No two samples have the same number.
Numbered(s) == \A i, j \in 1..Len(s) : s[i].n = s[j].n => i = j
\* The dates go strictly forward.
Rising(s) == \A i, j \in 1..Len(s) : i < j => s[i].t < s[j].t

LEMMA NewerIs ==
  ASSUME NEW S, NEW s \in Seq(S), Dates(s), Sorted(s), NEW d \in Int
  PROVE  \E k \in 0..Len(s) : CutsAt(s, d, k) /\ Newer(s, d) = Len(s) - k
<1>1. PICK k \in 0..Len(s) : CutsAt(s, d, k)
  BY Cut
<1>2. Len(s) \in Nat
  OBVIOUS
<1>3. {i \in 1..Len(s) : \A j \in i..Len(s) : s[j].t > d} = (k + 1)..Len(s)
  <2>1. ASSUME NEW i \in 1..Len(s), \A j \in i..Len(s) : s[j].t > d PROVE i >= k + 1
    <3>1. i \in i..Len(s)
      BY <1>2
    <3>2. s[i].t > d
      BY <2>1, <3>1
    <3>3. QED
      BY <3>2, <1>1 DEF CutsAt
  <2>2. ASSUME NEW i \in 1..Len(s), i >= k + 1, NEW j \in i..Len(s) PROVE s[j].t > d
    <3>1. j \in 1..Len(s) /\ j > k
      BY <1>2, <2>2
    <3>2. QED
      BY <3>1, <1>1 DEF CutsAt
  <2>3. (k + 1)..Len(s) \subseteq 1..Len(s)
    BY <1>2
  <2>4. QED
    BY <2>1, <2>2, <2>3, <1>2
<1>4. Cardinality((k + 1)..Len(s)) = Len(s) - k
  BY <1>2, EndSize
<1>5. QED
  BY <1>1, <1>3, <1>4 DEF Newer

(* The sample is dropped, or inserted where it cuts the others; one that   *)
(* is not before the last goes to the end.                                 *)
LEMMA PlaceIs ==
  ASSUME NEW S, NEW s \in Seq(S), Dates(s), Sorted(s), NEW x \in S, x.t \in Int,
         NEW reach \in Nat
  PROVE  LET r == Place(s, x, reach)
         IN  \/ r = s /\ \E i \in 1..Len(s) : s[i].t > x.t
             \/ r \in Seq(S) /\ \E k \in 0..Len(s) : CutsAt(s, x.t, k) /\ Inserted(r, s, x, k)
<1>1. PICK k \in 0..Len(s) : CutsAt(s, x.t, k) /\ Newer(s, x.t) = Len(s) - k
  BY NewerIs
<1>2. Len(s) \in Nat /\ k \in Nat /\ k <= Len(s)
  OBVIOUS
<1> DEFINE r == SubSeq(s, 1, k) \o <<x>> \o SubSeq(s, k + 1, Len(s))
           back == Len(s) - k
<1>3. Place(s, x, reach) = IF back = 0 \/ back + 1 < reach \/ (k = 0 /\ back < reach) THEN r ELSE s
  <2>1. Len(s) - back = k
    BY <1>2
  <2>2. QED
    BY <1>1, <2>1 DEF Place
<1>4. r \in Seq(S) /\ Inserted(r, s, x, k)
  <2> DEFINE p == SubSeq(s, 1, k)
             q == SubSeq(s, k + 1, Len(s))
  <2>1. p \in Seq(S) /\ Len(p) = k /\ \A i \in 1..k : p[i] = s[i]
    BY <1>2
  <2>2. q \in Seq(S) /\ Len(q) = Len(s) - k /\ \A i \in 1..(Len(s) - k) : q[i] = s[k + i]
    BY <1>2
  <2> HIDE DEF p, q
  <2>3. p \o <<x>> \in Seq(S) /\ Len(p \o <<x>>) = k + 1 /\ (p \o <<x>>)[k + 1] = x
        /\ \A i \in 1..k : (p \o <<x>>)[i] = s[i]
    BY <2>1, <1>2
  <2> DEFINE px == p \o <<x>>
  <2> HIDE DEF px
  <2>4. px \o q \in Seq(S) /\ Len(px \o q) = Len(s) + 1
        /\ (\A i \in 1..(k + 1) : (px \o q)[i] = px[i])
        /\ \A i \in 1..(Len(s) - k) : (px \o q)[k + 1 + i] = q[i]
    BY <2>3, <2>2, <1>2 DEF px
  <2>5. r = px \o q
    BY DEF px, p, q
  <2>6. ASSUME NEW i \in 1..(Len(s) + 1)
        PROVE  (px \o q)[i] = IF i <= k THEN s[i] ELSE IF i = k + 1 THEN x ELSE s[i - 1]
    <3>1. CASE i <= k + 1
      BY <3>1, <2>3, <2>4, <1>2 DEF px
    <3>2. CASE i > k + 1
      <4>1. i - (k + 1) \in 1..(Len(s) - k) /\ k + 1 + (i - (k + 1)) = i /\ k + (i - (k + 1)) = i - 1
        BY <3>2, <1>2
      <4>2. (px \o q)[i] = q[i - (k + 1)] /\ q[i - (k + 1)] = s[i - 1]
        BY <4>1, <2>2, <2>4
      <4>3. QED
        BY <3>2, <4>2, <1>2
    <3>3. i <= k + 1 \/ i > k + 1
      BY <1>2
    <3>4. QED
      BY ONLY <3>1, <3>2, <3>3
  <2> HIDE DEF r
  <2>7. QED
    BY <2>4, <2>5, <2>6 DEF Inserted
<1>5. back # 0 => \E i \in 1..Len(s) : s[i].t > x.t
  <2>1. back # 0 => k + 1 \in 1..Len(s) /\ k + 1 > k
    BY <1>2
  <2>2. QED
    BY <2>1, <1>1 DEF CutsAt
<1> HIDE DEF r, back
<1>6. QED
  BY <1>1, <1>3, <1>4, <1>5

LEMMA TrimmedIs ==
  ASSUME NEW S, NEW s \in Seq(S), Dates(s), Sorted(s), NEW d \in Int
  PROVE  /\ Trimmed(s, d) \in Seq(S)
         /\ \E k \in 0..Len(s) :
               /\ Suffix(Trimmed(s, d), s, k)
               /\ \A i \in 1..Len(s) : s[i].t >= d <=> i > k
<1>1. PICK k \in 0..Len(s) : CutsAt(s, d - 1, k)
  <2>1. d - 1 \in Int
    OBVIOUS
  <2>2. QED
    BY <2>1, Cut
<1>2. Len(s) \in Nat
  OBVIOUS
<1>3. \A i \in 1..Len(s) : s[i].t >= d <=> i > k
  <2>1. TAKE i \in 1..Len(s)
  <2>2. s[i].t \in Int /\ (s[i].t > d - 1 <=> i > k)
    BY <1>1 DEF CutsAt, Dates
  <2>3. QED
    BY <2>2
<1>4. {i \in 1..Len(s) : \A j \in 1..i : s[j].t < d} = 1..k
  <2>1. ASSUME NEW i \in 1..Len(s) PROVE s[i].t < d <=> i <= k
    <3>1. s[i].t \in Int /\ (s[i].t >= d <=> i > k)
      BY <1>3 DEF Dates
    <3>2. QED
      BY <3>1, <1>2
  <2>2. ASSUME NEW i \in 1..Len(s), \A j \in 1..i : s[j].t < d PROVE i <= k
    <3>1. i \in 1..i
      OBVIOUS
    <3>2. QED
      BY <2>1, <2>2, <3>1
  <2>3. ASSUME NEW i \in 1..Len(s), i <= k, NEW j \in 1..i PROVE s[j].t < d
    <3>1. j \in 1..Len(s) /\ j <= k
      BY <1>2, <2>3
    <3>2. QED
      BY <2>1, <3>1
  <2>4. 1..k \subseteq 1..Len(s)
    BY <1>2
  <2>5. QED
    BY <2>2, <2>3, <2>4, <1>2
<1>5. Trimmed(s, d) = SubSeq(s, k + 1, Len(s))
  <2>1. Cardinality(1..k) = k
    BY <1>2, BeginningSize
  <2>2. QED
    BY ONLY <1>4, <2>1 DEF Trimmed
<1>6. SubSeq(s, k + 1, Len(s)) \in Seq(S) /\ Suffix(SubSeq(s, k + 1, Len(s)), s, k)
  BY <1>2 DEF Suffix
<1>7. QED
  BY <1>3, <1>5, <1>6

(* What insertion and trimming keep.                                       *)
LEMMA InsertedKeeps ==
  ASSUME NEW S, NEW s \in Seq(S), NEW r \in Seq(S), NEW x \in S, NEW k \in 0..Len(s),
         Dates(s), x.t \in Int, Sorted(s), CutsAt(s, x.t, k), Inserted(r, s, x, k)
  PROVE  /\ Dates(r) /\ Sorted(r)
         /\ \A i \in 1..Len(r) : r[i] = x \/ \E j \in 1..Len(s) : r[i] = s[j]
         /\ Among(s, r) /\ \E i \in 1..Len(r) : r[i] = x
         /\ Numbered(s) /\ (\A j \in 1..Len(s) : s[j].n # x.n) => Numbered(r)
<1>1. Len(s) \in Nat /\ k \in Nat /\ k <= Len(s) /\ Len(r) = Len(s) + 1
  BY DEF Inserted
<1> DEFINE src(i) == IF i <= k THEN i ELSE i - 1
<1>2. \A i \in 1..Len(r) : i # k + 1 => src(i) \in 1..Len(s) /\ r[i] = s[src(i)]
  BY <1>1 DEF Inserted
<1>3. k + 1 \in 1..Len(r) /\ r[k + 1] = x
  BY <1>1 DEF Inserted
<1>4. \A i \in 1..Len(r) : r[i] = x \/ \E j \in 1..Len(s) : r[i] = s[j]
  BY <1>2, <1>3
<1>5. Dates(r)
  BY <1>2, <1>3 DEF Dates
<1>6. Sorted(r)
  <2>1. ASSUME NEW i \in 1..Len(r), NEW j \in 1..Len(r), i < j PROVE r[i].t <= r[j].t
    <3>1. CASE i # k + 1 /\ j # k + 1
      <4>1. src(i) < src(j) /\ src(i) \in 1..Len(s) /\ src(j) \in 1..Len(s)
        BY <1>1, <1>2, <2>1, <3>1
      <4>2. s[src(i)].t <= s[src(j)].t
        BY <4>1 DEF Sorted
      <4>3. QED
        BY <1>2, <3>1, <4>2
    <3>2. CASE i = k + 1
      <4>1. j # k + 1 /\ src(j) \in 1..Len(s) /\ src(j) > k
        BY <1>1, <1>2, <2>1, <3>2
      <4>2. s[src(j)].t > x.t /\ s[src(j)].t \in Int
        BY <4>1 DEF CutsAt, Dates
      <4>3. QED
        BY <1>2, <1>3, <3>2, <4>1, <4>2
    <3>3. CASE j = k + 1
      <4>1. i # k + 1 /\ src(i) \in 1..Len(s) /\ ~ (src(i) > k)
        BY <1>1, <1>2, <2>1, <3>3
      <4>2. ~ (s[src(i)].t > x.t) /\ s[src(i)].t \in Int
        BY <4>1 DEF CutsAt, Dates
      <4>3. QED
        BY <1>2, <1>3, <3>3, <4>1, <4>2
    <3>4. QED
      BY <3>1, <3>2, <3>3
  <2>2. QED
    BY <2>1 DEF Sorted
<1>7. Among(s, r)
  <2>1. ASSUME NEW j \in 1..Len(s) PROVE \E i \in 1..Len(r) : s[j] = r[i]
    <3>1. CASE j <= k
      <4>1. j \in 1..Len(r) /\ r[j] = s[j]
        BY <1>1, <3>1 DEF Inserted
      <4>2. QED
        BY <4>1
    <3>2. CASE j > k
      <4>1. j + 1 \in 1..Len(r) /\ r[j + 1] = s[j + 1 - 1] /\ j + 1 - 1 = j
        BY <1>1, <3>2 DEF Inserted
      <4>2. QED
        BY <4>1
    <3>3. QED
      BY <3>1, <3>2, <1>1
  <2>2. QED
    BY <2>1 DEF Among
<1>8. ASSUME Numbered(s), \A j \in 1..Len(s) : s[j].n # x.n PROVE Numbered(r)
  <2>1. ASSUME NEW i \in 1..Len(r), NEW j \in 1..Len(r), r[i].n = r[j].n PROVE i = j
    <3>1. CASE i # k + 1 /\ j # k + 1
      <4>1. src(i) \in 1..Len(s) /\ src(j) \in 1..Len(s) /\ s[src(i)].n = s[src(j)].n
        BY <1>2, <2>1, <3>1
      <4>2. src(i) = src(j)
        BY <4>1, <1>8 DEF Numbered
      <4>3. QED
        BY <4>2, <3>1, <1>1
    <3>2. CASE i = k + 1 /\ j # k + 1
      <4>1. src(j) \in 1..Len(s) /\ s[src(j)].n = x.n
        BY <1>2, <1>3, <2>1, <3>2
      <4>2. QED
        BY <4>1, <1>8
    <3>3. CASE j = k + 1 /\ i # k + 1
      <4>1. src(i) \in 1..Len(s) /\ s[src(i)].n = x.n
        BY <1>2, <1>3, <2>1, <3>3
      <4>2. QED
        BY <4>1, <1>8
    <3>4. QED
      BY <3>1, <3>2, <3>3
  <2>2. QED
    BY <2>1 DEF Numbered
<1>9. QED
  BY <1>3, <1>4, <1>5, <1>6, <1>7, <1>8

LEMMA SuffixKeeps ==
  ASSUME NEW S, NEW s \in Seq(S), NEW r \in Seq(S), NEW k \in 0..Len(s), Suffix(r, s, k)
  PROVE  /\ Among(r, s)
         /\ Dates(s) => Dates(r)
         /\ Sorted(s) => Sorted(r)
         /\ Rising(s) => Rising(r)
         /\ Numbered(s) => Numbered(r)
         /\ r # <<>> => r[Len(r)] = s[Len(s)]
<1>1. Len(s) \in Nat /\ k \in Nat /\ k <= Len(s) /\ Len(r) = Len(s) - k
  BY DEF Suffix
<1>2. \A i \in 1..Len(r) : k + i \in 1..Len(s) /\ r[i] = s[k + i]
  BY <1>1 DEF Suffix
<1>3. \A i, j \in 1..Len(r) : (i < j <=> k + i < k + j) /\ (k + i = k + j => i = j)
  BY <1>1
<1>4. Among(r, s)
  BY <1>2 DEF Among
<1>5. Dates(s) => Dates(r)
  BY <1>2 DEF Dates
<1>6. Sorted(s) => Sorted(r)
  BY <1>2, <1>3 DEF Sorted
<1>7. Rising(s) => Rising(r)
  BY <1>2, <1>3 DEF Rising
<1>8. Numbered(s) => Numbered(r)
  BY <1>2, <1>3 DEF Numbered
<1>9. r # <<>> => r[Len(r)] = s[Len(s)]
  <2>1. ASSUME r # <<>> PROVE r[Len(r)] = s[Len(s)]
    <3>1. Len(r) \in 1..Len(r) /\ k + Len(r) = Len(s)
      BY <1>1, <2>1
    <3>2. QED
      BY <3>1, <1>2
  <2>2. QED
    BY <2>1
<1>10. QED
  BY <1>4, <1>5, <1>6, <1>7, <1>8, <1>9

-----------------------------------------------------------------------------
(* The inductive invariant.                                                *)
Reader == [on : BOOLEAN, from : Int, cursor : Int, readAt : 0..MaxTime, got : Seq(Sample)]
Typed ==
  /\ now \in 0..MaxTime /\ dated \in {"server", "source"}
  /\ sink \in [lastT : Int, lastV : Values \cup {0}, lastRet : Int]
  /\ pending \in Seq(Sample) /\ Len(pending) <= 1
  /\ buf \in Seq(Sample) /\ Sorted(buf)
  /\ rec \in Reader /\ ws \in Reader /\ Len(ws.got) <= 1
  /\ count \in 0..MaxPub /\ behind \in SUBSET (1..MaxPub) /\ offered \in Values \cup {0}

\* A sample under way is the newest by its number; a sample is known by it.
Counted(s) == \A i \in 1..Len(s) : s[i].n <= count
Elder(s) == \A i \in 1..Len(s) : s[i].n < count
Numbers ==
  /\ Numbered(buf) /\ Counted(buf) /\ Counted(rec.got)
  /\ \A i \in 1..Len(buf), k \in 1..Len(rec.got) :
        buf[i].n = rec.got[k].n => buf[i].t = rec.got[k].t
  /\ \A n \in behind : n <= count
  /\ pending # <<>> =>
        pending[1].n = count /\ Elder(buf) /\ Elder(rec.got) /\ \A n \in behind : n < count

\* The cursor of the campaign is the date of what it wrote last, and what it
\* passed is written.
Journaled ==
  /\ Sorted(rec.got) /\ Numbered(rec.got)
  /\ \A k \in 1..Len(rec.got) : rec.got[k].t <= rec.cursor
  /\ rec.got = <<>> => rec.cursor = rec.from
  /\ NeverSkipped

\* Dates are of their time.
OfItsTime(x) ==
  /\ x.at <= now
  /\ IF x.own THEN Abs(x.t - x.at) <= SkewMax ELSE x.t <= x.at /\ x.at - x.t < Period
Windowed ==
  /\ \A i \in 1..Len(buf) : OfItsTime(buf[i])
  /\ pending # <<>> => OfItsTime(pending[1])

\* Threads are late by Lag at most; what is not read yet is not old.
Prompt ==
  /\ pending # <<>> => now - pending[1].at <= Lag
  /\ rec.on =>
        /\ rec.readAt <= now /\ now - rec.readAt <= Lag
        /\ \A i \in 1..Len(buf) :
              buf[i].t > rec.cursor => buf[i].t + Horizon >= rec.readAt + Lag

\* With the dates of the server: what the sink has dated last is ahead of the
\* history and of what its readers were given.
Grid(t) == (t \div Period) * Period
Behind(d) ==
  /\ \A i \in 1..Len(buf) : buf[i].t <= d
  /\ rec.got # <<>> => rec.cursor <= d
  /\ ws.got # <<>> => ws.cursor <= d
AheadOfAll(d) ==
  /\ \A i \in 1..Len(buf) : buf[i].t < d
  /\ rec.got # <<>> => rec.cursor < d
  /\ ws.got # <<>> => ws.cursor < d
Sunk ==
  /\ Rising(buf) /\ Behind(now)
  /\ sink.lastT = Never => buf = <<>> /\ pending = <<>> /\ sink.lastRet = Never
  /\ sink.lastT # Never =>
        /\ 0 <= sink.lastT /\ sink.lastT <= now /\ Behind(sink.lastT)
        /\ Grid(sink.lastT) <= sink.lastRet /\ sink.lastRet <= sink.lastT
        /\ sink.lastV = offered
Coming ==
  pending # <<>> =>
    /\ pending[1].t <= sink.lastT /\ pending[1].v = sink.lastV
    /\ IF pending[1].first THEN buf = <<>> ELSE AheadOfAll(pending[1].t)
Latest ==
  /\ pending = <<>> /\ buf # <<>> => Newest.v = sink.lastV
  /\ ws.got # <<>> /\ buf # <<>> =>
        (Newest.t <= ws.cursor /\ ~Newest.first => ws.got[1].n = Newest.n)
Ahead == \A i \in 1..Len(buf) : buf[i].n \in behind => buf[i].first
ByServer == dated = "server" => Sunk /\ Coming /\ Latest /\ Ahead

DInv == Typed /\ Numbers /\ Journaled /\ Windowed /\ Prompt /\ ByServer

LEMMA TypedFacts ==
  ASSUME Typed
  PROVE  /\ now \in Int /\ now >= 0
         /\ Len(buf) \in Nat /\ Dates(buf) /\ Len(rec.got) \in Nat /\ Dates(rec.got)
         /\ \A i \in 1..Len(buf) : buf[i] \in Sample
         /\ \A k \in 1..Len(rec.got) : rec.got[k] \in Sample
         /\ pending # <<>> => Len(pending) = 1 /\ pending[1] \in Sample /\ pending = <<pending[1]>>
         /\ rec.cursor \in Int /\ ws.cursor \in Int /\ rec.readAt \in Int /\ rec.from \in Int
         /\ rec.got \in Seq(Sample) /\ ws.got \in Seq(Sample)
<1>1. now \in Int /\ now >= 0
  BY DeliveryAssumption DEF Typed
<1>2. buf \in Seq(Sample) /\ rec \in Reader /\ ws \in Reader /\ pending \in Seq(Sample) /\ Len(pending) <= 1
  BY DEF Typed
<1>3. /\ rec.cursor \in Int /\ ws.cursor \in Int /\ rec.readAt \in Int /\ rec.from \in Int
      /\ rec.got \in Seq(Sample) /\ ws.got \in Seq(Sample)
  BY <1>2, DeliveryAssumption DEF Reader
<1>4. \A s \in Seq(Sample) : Len(s) \in Nat /\ \A i \in 1..Len(s) : s[i] \in Sample
  OBVIOUS
<1>5. \A x \in Sample : x.t \in Int
  BY DEF Sample
<1>6. \A s \in Seq(Sample) : Dates(s)
  BY <1>4, <1>5 DEF Dates
<1>7. pending # <<>> => Len(pending) = 1 /\ pending[1] \in Sample /\ pending = <<pending[1]>>
  <2>1. SUFFICES ASSUME pending # <<>>
        PROVE Len(pending) = 1 /\ pending[1] \in Sample /\ pending = <<pending[1]>>
    OBVIOUS
  <2>2. Len(pending) \in Nat /\ Len(pending) # 0
    BY <1>2, <2>1
  <2>3. Len(pending) = 1
    <3>1. PICK n \in Nat : n = Len(pending)
      BY <2>2
    <3>2. n <= 1 /\ n # 0
      BY <1>2, <2>2, <3>1
    <3>3. n = 1
      BY <3>2
    <3>4. QED
      BY <3>1, <3>3
  <2>4. QED
    BY <1>2, <1>4, <2>3
<1>8. QED
  BY <1>1, <1>2, <1>3, <1>4, <1>6, <1>7

(* A reader is given what is later than its cursor, and nothing else.      *)
LEMMA Unread ==
  ASSUME Typed, NEW d \in Int
  PROVE  /\ After(buf, d) \in Seq(Sample)
         /\ \E k \in 0..Len(buf) : CutsAt(buf, d, k) /\ Suffix(After(buf, d), buf, k)
<1>1. buf \in Seq(Sample) /\ Sorted(buf)
  BY DEF Typed
<1>2. Dates(buf)
  BY TypedFacts
<1>3. QED
  BY <1>1, <1>2, AfterIs

-----------------------------------------------------------------------------
(* The initial state.                                                      *)
LEMMA InitInv == Init => DInv
<1> SUFFICES ASSUME Init PROVE DInv
  OBVIOUS
<1>1. /\ now = 0 /\ dated \in {"server", "source"} /\ sink = NewSink /\ pending = <<>> /\ buf = <<>>
      /\ rec = Off /\ ws = Off /\ count = 0 /\ behind = {} /\ offered = 0
  BY DEF Init
<1>2. \A S : <<>> \in Seq(S) /\ Len(<<>>) = 0
  OBVIOUS
<1>3. 1..0 = {}
  OBVIOUS
<1>4. Typed
  <2>1. Off \in Reader
    BY <1>2, DeliveryAssumption DEF Off, Reader, Never
  <2>2. NewSink \in [lastT : Int, lastV : Values \cup {0}, lastRet : Int]
    BY DEF NewSink, Never
  <2>3. Len(ws.got) <= 1 /\ Sorted(buf)
    BY <1>1, <1>2, <1>3 DEF Off, Sorted
  <2>4. 0 \in 0..MaxTime /\ 0 \in 0..MaxPub
    BY DeliveryAssumption
  <2>5. QED
    BY <1>1, <1>2, <2>1, <2>2, <2>3, <2>4 DEF Typed
<1>5. rec.got = <<>> /\ rec.cursor = rec.from /\ ~rec.on /\ ws.got = <<>>
  BY <1>1 DEF Off
<1>6. Numbers
  BY <1>1, <1>2, <1>3, <1>5 DEF Numbers, Numbered, Counted
<1>7. Journaled
  BY <1>1, <1>2, <1>3, <1>5 DEF Journaled, Sorted, Numbered, NeverSkipped
<1>8. Windowed /\ Prompt
  BY <1>1, <1>2, <1>3, <1>5 DEF Windowed, Prompt
<1>9. ByServer
  <2>1. sink.lastT = Never /\ sink.lastRet = Never
    BY <1>1 DEF NewSink
  <2>2. Sunk
    BY <1>1, <1>2, <1>3, <1>5, <2>1 DEF Sunk, Rising, Behind
  <2>3. Coming /\ Latest /\ Ahead
    BY <1>1, <1>2, <1>3, <1>5 DEF Coming, Latest, Ahead
  <2>4. QED
    BY <2>2, <2>3 DEF ByServer
<1>10. QED
  BY <1>4, <1>6, <1>7, <1>8, <1>9 DEF DInv

-----------------------------------------------------------------------------
(* Time.                                                                   *)
LEMMA TickKeeps == DInv /\ Tick => DInv'
<1> SUFFICES ASSUME DInv, Tick PROVE DInv'
  OBVIOUS
<1>1. /\ now < MaxTime /\ (rec.on => now - rec.readAt < Lag)
      /\ (pending # <<>> => now - pending[1].at < Lag) /\ now' = now + 1
      /\ UNCHANGED <<dated, sink, pending, buf, rec, ws, count, behind, offered>>
  BY DEF Tick
<1>2. Typed /\ Numbers /\ Journaled /\ Windowed /\ Prompt /\ ByServer
  BY DEF DInv
<1>3. Typed'
  <2>1. now' \in 0..MaxTime
    BY <1>1, <1>2, DeliveryAssumption DEF Typed
  <2>2. QED
    BY <1>1, <1>2, <2>1 DEF Typed, Sorted
<1>4. Numbers'
  BY <1>1, <1>2 DEF Numbers, Numbered, Counted, Elder
<1>5. Journaled'
  BY <1>1, <1>2 DEF Journaled, Sorted, Numbered, NeverSkipped, Written
<1>6. \A x \in Sample : OfItsTime(x) => OfItsTime(x)'
  <2>1. \A x \in Sample : x.at \in Int
    BY DeliveryAssumption DEF Sample
  <2>2. QED
    BY <1>1, <1>2, <2>1, TypedFacts DEF OfItsTime
<1>7. Windowed'
  BY <1>1, <1>2, <1>6, TypedFacts DEF Windowed
<1>8. Prompt'
  <2>1. pending # <<>> => now' - pending[1].at <= Lag
    <3>1. pending # <<>> => pending[1].at \in Int
      BY <1>2, TypedFacts, DeliveryAssumption DEF Sample
    <3>2. now \in Int /\ Lag \in Int
      BY <1>2, TypedFacts, DeliveryAssumption
    <3>3. QED
      BY ONLY <1>1, <3>1, <3>2
  <2>2. rec.on => rec.readAt <= now' /\ now' - rec.readAt <= Lag
    <3>1. now \in Int /\ Lag \in Int /\ rec.readAt \in Int
      BY <1>2, TypedFacts, DeliveryAssumption
    <3>2. rec.on => rec.readAt <= now
      BY <1>2 DEF Prompt
    <3>3. QED
      BY ONLY <1>1, <3>1, <3>2
  <2>3. QED
    BY <1>1, <1>2, <2>1, <2>2 DEF Prompt
<1>9. ByServer'
  <2>1. SUFFICES ASSUME dated = "server" PROVE Sunk' /\ Coming' /\ Latest' /\ Ahead'
    BY <1>1 DEF ByServer
  <2>2. Sunk /\ Coming /\ Latest /\ Ahead
    BY <1>2, <2>1 DEF ByServer
  <2>3. Behind(now') 
    <3>1. now \in Int /\ Dates(buf) /\ rec.cursor \in Int /\ ws.cursor \in Int
      BY <1>2, TypedFacts
    <3>2. QED
      BY <1>1, <2>2, <3>1 DEF Sunk, Behind, Dates
  <2>4. Sunk'
    <3>1. sink.lastT # Never => sink.lastT <= now'
      <4>1. sink.lastT \in Int /\ now \in Int
        BY <1>2, TypedFacts DEF Typed
      <4>2. QED
        BY <1>1, <2>2, <4>1 DEF Sunk
    <3>2. Behind(now)'
      BY <1>1, <2>3 DEF Behind
    <3>3. sink.lastT # Never => Behind(sink.lastT)'
      BY <1>1, <2>2 DEF Sunk, Behind
    <3>4. QED
      BY <1>1, <2>2, <3>1, <3>2, <3>3 DEF Sunk, Rising, Grid
  <2>5. Coming' /\ Latest' /\ Ahead'
    BY <1>1, <2>2 DEF Coming, AheadOfAll, Latest, Newest, Ahead
  <2>6. QED
    BY <2>4, <2>5
<1>10. QED
  BY <1>3, <1>4, <1>5, <1>7, <1>8, <1>9 DEF DInv

-----------------------------------------------------------------------------
(* publish().                                                              *)
\* The sample that publish() dates.
Dated(v, skew) ==
  [t |-> DateOf(skew), v |-> v, n |-> count + 1, at |-> now, own |-> UsesSource(skew),
   first |-> sink.lastT = Never]

LEMMA GridIs ==
  ASSUME NEW x \in Int
  PROVE  /\ Grid(x) \in Int /\ Grid(x) <= x /\ x < Grid(x) + Period
         /\ \A y \in Int : Grid(x) < Grid(y) => x < Grid(y)
<1>1. Period \in Nat /\ Period > 0
  BY DeliveryAssumption
<1>2. \A y \in Int : y \div Period \in Int /\ (y \div Period) * Period <= y
                     /\ y < (y \div Period) * Period + Period
  BY <1>1, Z3
<1>3. Grid(x) \in Int /\ Grid(x) <= x /\ x < Grid(x) + Period
  BY <1>1, <1>2, Z3 DEF Grid
<1>4. ASSUME NEW y \in Int, Grid(x) < Grid(y) PROVE x < Grid(y)
  <2>1. PICK p \in Int : p = x \div Period
    BY <1>2
  <2>2. PICK q \in Int : q = y \div Period
    BY <1>2
  <2>3. p * Period < q * Period
    BY <1>4, <2>1, <2>2 DEF Grid
  <2>4. p < q
    <3>1. ~ (p >= q)
      <4>1. ASSUME p >= q PROVE FALSE
        <5>1. PICK e \in Nat : p = q + e
          <6>1. p - q \in Nat /\ p = q + (p - q)
            BY <4>1
          <6>2. QED
            BY <6>1
        <5>2. e * Period \in Nat /\ p * Period = q * Period + e * Period
          BY <1>1, <5>1, Z3
        <5>3. p * Period \in Int /\ q * Period \in Int
          BY <1>1, Z3
        <5>4. QED
          BY <2>3, <5>2, <5>3
      <4>2. QED
        BY <4>1
    <3>2. QED
      BY <3>1
  <2>5. PICK e \in Nat : q = p + 1 + e
    <3>1. q - p - 1 \in Nat /\ q = p + 1 + (q - p - 1)
      BY <2>4
    <3>2. QED
      BY <3>1
  <2>6. q * Period = p * Period + Period + e * Period /\ e * Period \in Nat /\ p * Period \in Int
    BY <1>1, <2>5, Z3
  <2>7. x < p * Period + Period
    BY <1>2, <2>1
  <2>8. q * Period >= p * Period + Period /\ q * Period \in Int
    BY <1>1, <2>6
  <2>9. x < q * Period
    BY <1>1, <2>6, <2>7, <2>8
  <2>10. QED
    BY <2>2, <2>9 DEF Grid
<1>5. QED
  BY <1>3, <1>4

(* The date is that of the reading, but for the skew or the grid.          *)
LEMMA DateIs ==
  ASSUME Typed, NEW skew \in Skews \cup {NoDate}
  PROVE  /\ DateOf(skew) \in Int
         /\ IF UsesSource(skew) THEN Abs(DateOf(skew) - now) <= SkewMax
            ELSE DateOf(skew) <= now /\ now - DateOf(skew) < Period
         /\ dated = "server" =>
               /\ ~UsesSource(skew) /\ Grid(now) <= DateOf(skew)
               /\ \/ DateOf(skew) > sink.lastRet /\ DateOf(skew) = Grid(now)
                  \/ DateOf(skew) = now
<1>1. now \in Int /\ Period \in Int /\ Period > 0 /\ sink.lastRet \in Int
  BY TypedFacts, DeliveryAssumption DEF Typed
<1>2. Grid(now) \in Int /\ Grid(now) <= now /\ now < Grid(now) + Period
  BY <1>1, GridIs
<1>3. CASE UsesSource(skew)
  <2>1. skew \in Int /\ dated # "server" /\ DateOf(skew) = now + skew /\ Abs(skew) <= SkewMax
    BY <1>3, DeliveryAssumption DEF UsesSource, DateOf
  <2>2. now + skew \in Int /\ now + skew - now = skew
    BY <1>1, <2>1
  <2>3. DateOf(skew) \in Int /\ DateOf(skew) - now = skew
    BY <1>1, <2>1, <2>2
  <2>4. Abs(DateOf(skew) - now) <= SkewMax
    BY ONLY <2>1, <2>3
  <2>5. QED
    BY ONLY <1>3, <2>1, <2>3, <2>4
<1>4. CASE ~UsesSource(skew)
  <2>1. DateOf(skew) = IF Grid(now) > sink.lastRet THEN Grid(now) ELSE now
    BY <1>4 DEF DateOf, Snap, Grid
  <2>2. QED
    BY <1>1, <1>2, <1>4, <2>1
<1>5. QED
  BY <1>3, <1>4

LEMMA PublishKeeps ==
  ASSUME DInv, NEW v \in Values, NEW skew \in Skews \cup {NoDate}, Publish(v, skew)
  PROVE  DInv'
<1>1. /\ pending = <<>> /\ count < MaxPub /\ now > sink.lastT /\ offered' = v
      /\ UNCHANGED <<now, dated, buf, rec, ws, behind>>
  BY DEF Publish
<1>2. Typed /\ Numbers /\ Journaled /\ Windowed /\ Prompt /\ ByServer
  BY DEF DInv
<1>3. CASE Thinned(v)
  <2>1. UNCHANGED <<sink, pending, count>> /\ v = sink.lastV
    BY <1>3 DEF Publish, Thinned
  <2>2. Typed'
    BY <1>1, <1>2, <2>1 DEF Typed, Sorted
  <2>3. Numbers' /\ Journaled' /\ Windowed' /\ Prompt'
    BY <1>1, <1>2, <2>1 DEF Numbers, Numbered, Counted, Elder, Journaled, Sorted, NeverSkipped, Written,
      Windowed, OfItsTime, Prompt
  <2>4. ByServer'
    <3>1. SUFFICES ASSUME dated = "server" PROVE Sunk' /\ Coming' /\ Latest' /\ Ahead'
      BY <1>1 DEF ByServer
    <3>2. Sunk /\ Coming /\ Latest /\ Ahead
      BY <1>2, <3>1 DEF ByServer
    <3>3. Sunk'
      BY <1>1, <2>1, <3>2 DEF Sunk, Rising, Behind, Grid
    <3>4. Coming' /\ Latest' /\ Ahead'
      BY <1>1, <2>1, <3>2 DEF Coming, AheadOfAll, Latest, Newest, Ahead
    <3>5. QED
      BY <3>3, <3>4
  <2>5. QED
    BY <2>2, <2>3, <2>4 DEF DInv
<1>4. CASE ~Thinned(v)
  <2> DEFINE x == Dated(v, skew)
  <2>1. /\ sink' = [lastT |-> now, lastV |-> v,
                    lastRet |-> IF DateOf(skew) > sink.lastRet THEN DateOf(skew) ELSE sink.lastRet]
        /\ count' = count + 1 /\ pending' = <<x>>
    BY <1>4 DEF Publish, Dated
  <2>2. /\ x.t = DateOf(skew) /\ x.v = v /\ x.n = count + 1 /\ x.at = now
        /\ x.own = UsesSource(skew) /\ x.first = (sink.lastT = Never)
    BY DEF Dated
  <2>3. pending' # <<>> /\ pending'[1] = x /\ Len(pending') = 1
    BY <2>1
  <2>4. /\ DateOf(skew) \in Int
        /\ IF UsesSource(skew) THEN Abs(DateOf(skew) - now) <= SkewMax
           ELSE DateOf(skew) <= now /\ now - DateOf(skew) < Period
    BY <1>2, DateIs
  <2>5. now \in Int /\ count \in Nat /\ count + 1 \in 1..MaxPub /\ sink.lastRet \in Int /\ sink.lastT \in Int
    BY <1>1, <1>2, TypedFacts, DeliveryAssumption DEF Typed
  <2>6. x \in Sample
    <3>1. now \in 0..MaxTime
      BY <1>2 DEF Typed
    <3>2. UsesSource(skew) \in BOOLEAN
      BY DEF UsesSource
    <3>3. QED
      BY <2>4, <2>5, <3>1, <3>2 DEF Sample, Dated
  <2> HIDE DEF x
  <2>7. Typed'
    <3>1. sink' \in [lastT : Int, lastV : Values \cup {0}, lastRet : Int]
      BY <2>1, <2>4, <2>5
    <3>2. pending' \in Seq(Sample) /\ Len(pending') <= 1
      BY <2>1, <2>3, <2>6
    <3>3. count' \in 0..MaxPub
      BY <2>1, <2>5
    <3>4. QED
      BY <1>1, <1>2, <3>1, <3>2, <3>3 DEF Typed, Sorted
  <2>8. Numbers'
    <3>1. ASSUME NEW s \in Seq(Sample), Counted(s)
          PROVE \A i \in 1..Len(s) : s[i].n <= count + 1 /\ s[i].n < count + 1
      <4>1. \A i \in 1..Len(s) : s[i] \in Sample
        OBVIOUS
      <4>2. \A y \in Sample : y.n \in Int
        BY DeliveryAssumption DEF Sample
      <4>3. \A i \in 1..Len(s) : s[i].n \in Int /\ s[i].n <= count
        BY <3>1, <4>1, <4>2 DEF Counted
      <4>4. QED
        BY <4>3, <2>5
    <3>2. buf \in Seq(Sample) /\ rec.got \in Seq(Sample) /\ Counted(buf) /\ Counted(rec.got)
      BY <1>2, TypedFacts DEF Typed, Numbers
    <3>3. Counted(buf)' /\ Elder(buf)' /\ Counted(rec.got)' /\ Elder(rec.got)'
      BY <1>1, <2>1, <3>1, <3>2 DEF Counted, Elder
    <3>4. \A m \in behind' : m <= count' /\ m < count'
      <4>1. \A m \in behind : m \in Int /\ m <= count
        BY <1>2, DeliveryAssumption DEF Typed, Numbers
      <4>2. QED
        BY <1>1, <2>1, <4>1, <2>5
    <3>5. pending'[1].n = count'
      BY <2>1, <2>2, <2>3
    <3>6. QED
      BY <1>1, <1>2, <3>3, <3>4, <3>5 DEF Numbers, Numbered
  <2>9. Journaled'
    BY <1>1, <1>2 DEF Journaled, Sorted, Numbered, NeverSkipped, Written
  <2>10. Windowed'
    <3>1. OfItsTime(x)
      BY <2>2, <2>4, <2>5 DEF OfItsTime
    <3>2. QED
      BY <1>1, <1>2, <2>3, <3>1 DEF Windowed, OfItsTime
  <2>11. Prompt'
    <3>1. now - pending'[1].at <= Lag
      BY <2>2, <2>3, <2>5, DeliveryAssumption
    <3>2. QED
      BY <1>1, <1>2, <3>1 DEF Prompt
  <2>12. ByServer'
    <3>1. SUFFICES ASSUME dated = "server" PROVE Sunk' /\ Coming' /\ Latest' /\ Ahead'
      BY <1>1 DEF ByServer
    <3>2. Sunk /\ Latest /\ Ahead
      BY <1>2, <3>1 DEF ByServer
    <3>3. /\ Grid(now) <= DateOf(skew) /\ DateOf(skew) <= now
          /\ \/ DateOf(skew) > sink.lastRet /\ DateOf(skew) = Grid(now)
             \/ DateOf(skew) = now
      BY <1>2, <2>4, <3>1, DateIs
    <3>4. sink'.lastT = now /\ sink'.lastV = v
          /\ sink'.lastRet = IF DateOf(skew) > sink.lastRet THEN DateOf(skew) ELSE sink.lastRet
      BY <2>1
    <3>5. sink.lastRet <= now
      BY <2>5, <3>2, <1>2, TypedFacts DEF Sunk, Never
    <3>6. Grid(now) \in Int /\ Grid(now) <= sink'.lastRet /\ sink'.lastRet <= now
      BY <2>4, <2>5, <3>3, <3>4, <3>5, GridIs
    <3>7. Sunk'
      <4>1. now >= 0 /\ now # Never
        BY <1>2, TypedFacts DEF Never
      <4>2. Rising(buf)' /\ Behind(now)'
        BY <1>1, <3>2 DEF Sunk, Rising, Behind
      <4>3. Behind(sink.lastT)'
        BY <4>2, <3>4, <1>1 DEF Behind
      <4>4. Grid(sink.lastT)' = Grid(now)
        BY <3>4 DEF Grid
      <4>5. QED
        BY <1>1, <3>4, <3>6, <4>1, <4>2, <4>3, <4>4, <2>5 DEF Sunk
    <3>8. Coming'
      <4>1. pending'[1].t <= sink'.lastT /\ pending'[1].v = sink'.lastV
        BY <2>2, <2>3, <3>3, <3>4
      <4>2. CASE sink.lastT = Never
        BY <1>1, <2>2, <2>3, <3>2, <4>1, <4>2 DEF Sunk, Coming
      <4>3. CASE sink.lastT # Never
        <5>1. sink.lastT < DateOf(skew)
          <6>1. CASE DateOf(skew) = now
            BY <1>1, <2>5, <6>1
          <6>2. CASE DateOf(skew) > sink.lastRet /\ DateOf(skew) = Grid(now)
            <7>1. Grid(sink.lastT) \in Int /\ Grid(sink.lastT) <= sink.lastRet
              BY <2>5, <3>2, <4>3, GridIs DEF Sunk
            <7>2. Grid(sink.lastT) < Grid(now)
              BY <6>2, <7>1, <2>5, <3>6
            <7>3. QED
              BY <2>5, <6>2, <7>2, GridIs
          <6>3. QED
            BY <3>3, <6>1, <6>2
        <5>2. Behind(sink.lastT)
          BY <3>2, <4>3 DEF Sunk
        <5>3. AheadOfAll(DateOf(skew))
          <6>1. Dates(buf) /\ rec.cursor \in Int /\ ws.cursor \in Int
            BY <1>2, TypedFacts
          <6>2. QED
            BY <2>4, <2>5, <5>1, <5>2, <6>1 DEF Behind, AheadOfAll, Dates
        <5>4. AheadOfAll(pending[1].t)'
          BY <1>1, <2>2, <2>3, <5>3 DEF AheadOfAll
        <5>5. QED
          BY <2>2, <2>3, <4>1, <4>3, <5>4 DEF Coming
      <4>4. QED
        BY <4>2, <4>3
    <3>9. Latest' /\ Ahead'
      BY <1>1, <2>3, <3>2 DEF Latest, Newest, Ahead
    <3>10. QED
      BY <3>7, <3>8, <3>9
  <2>13. QED
    BY <2>7, <2>8, <2>9, <2>10, <2>11, <2>12 DEF DInv
<1>5. QED
  BY <1>3, <1>4

-----------------------------------------------------------------------------
(* push().                                                                 *)

(* What push() leaves in the history: nothing but what was there and the   *)
(* sample, with what is not too old of the rest.                           *)
Pushed ==
  /\ Sorted(buf') /\ Numbered(buf') /\ buf' \in Seq(Sample)
  /\ \A i \in 1..Len(buf') : buf'[i] = pending[1] \/ \E j \in 1..Len(buf) : buf'[i] = buf[j]
  /\ \A j \in 1..Len(buf) :
        buf[j].t >= now - Horizon => \E i \in 1..Len(buf') : buf'[i] = buf[j]
  /\ AheadOfAll(pending[1].t) \/ buf = <<>> =>
        /\ Rising(buf) => Rising(buf')
        /\ buf' # <<>> => buf'[Len(buf')] = pending[1]

LEMMA PushedIs ==
  ASSUME DInv, Push
  PROVE  Pushed
<1> DEFINE x == pending[1]
           placed == Place(buf, x, Reach)
<1>1. pending # <<>> /\ buf' = IF placed = buf THEN buf ELSE Trimmed(placed, now - Horizon)
  BY DEF Push
<1>2. Typed /\ Numbers
  BY DEF DInv
<1>3. buf \in Seq(Sample) /\ Dates(buf) /\ Sorted(buf) /\ x \in Sample /\ x.t \in Int /\ Len(buf) \in Nat
  BY <1>1, <1>2, TypedFacts DEF Typed, Sample
<1>4. Numbered(buf) /\ \A j \in 1..Len(buf) : buf[j].n # x.n
  <2>1. Numbered(buf) /\ x.n = count /\ Elder(buf)
    BY <1>1, <1>2 DEF Numbers
  <2>2. count \in Int
    BY <1>2, DeliveryAssumption DEF Typed
  <2>3. QED
    BY <2>1, <2>2 DEF Elder
<1>5. Reach \in Nat /\ now - Horizon \in Int
  BY <1>2, TypedFacts, DeliveryAssumption
<1> HIDE DEF x
<1>6. \/ placed = buf /\ \E i \in 1..Len(buf) : buf[i].t > x.t
      \/ placed \in Seq(Sample) /\ \E k \in 0..Len(buf) : CutsAt(buf, x.t, k) /\ Inserted(placed, buf, x, k)
  BY <1>3, <1>5, PlaceIs
<1> HIDE DEF placed
<1>7. CASE placed = buf /\ \E i \in 1..Len(buf) : buf[i].t > x.t
  <2>1. buf' = buf
    BY <1>1, <1>7
  <2>2. ~ (AheadOfAll(x.t) \/ buf = <<>>)
    <3>1. PICK i \in 1..Len(buf) : buf[i].t > x.t
      BY <1>7
    <3>2. buf[i].t \in Int
      BY <1>3, <3>1 DEF Dates
    <3>3. buf # <<>>
      BY <3>1
    <3>4. QED
      BY <1>3, <3>1, <3>2, <3>3 DEF AheadOfAll
  <2>3. QED
    BY <1>3, <1>4, <2>1, <2>2 DEF Pushed, x
<1>8. CASE placed # buf /\ placed \in Seq(Sample)
           /\ \E k \in 0..Len(buf) : CutsAt(buf, x.t, k) /\ Inserted(placed, buf, x, k)
  <2>1. PICK k \in 0..Len(buf) : CutsAt(buf, x.t, k) /\ Inserted(placed, buf, x, k)
    BY <1>8
  <2>2. placed \in Seq(Sample) /\ buf' = Trimmed(placed, now - Horizon)
    BY <1>1, <1>8
  <2>3. /\ Dates(placed) /\ Sorted(placed) /\ Numbered(placed) /\ Among(buf, placed)
        /\ \A i \in 1..Len(placed) : placed[i] = x \/ \E j \in 1..Len(buf) : placed[i] = buf[j]
    BY <1>3, <1>4, <2>1, <2>2, InsertedKeeps
  <2>4. /\ buf' \in Seq(Sample)
        /\ \E m \in 0..Len(placed) :
              /\ Suffix(buf', placed, m)
              /\ \A i \in 1..Len(placed) : placed[i].t >= now - Horizon <=> i > m
    BY <1>5, <2>2, <2>3, TrimmedIs
  <2>5. PICK m \in 0..Len(placed) :
              /\ Suffix(buf', placed, m)
              /\ \A i \in 1..Len(placed) : placed[i].t >= now - Horizon <=> i > m
    BY <2>4
  <2>6. /\ Among(buf', placed) /\ Sorted(buf') /\ Numbered(buf') /\ (Rising(placed) => Rising(buf'))
        /\ buf' # <<>> => buf'[Len(buf')] = placed[Len(placed)]
    BY <2>2, <2>3, <2>4, <2>5, SuffixKeeps
  <2>7. \A i \in 1..Len(buf') : buf'[i] = x \/ \E j \in 1..Len(buf) : buf'[i] = buf[j]
    BY <2>3, <2>6 DEF Among
  <2>8. ASSUME NEW j \in 1..Len(buf), buf[j].t >= now - Horizon
        PROVE  \E i \in 1..Len(buf') : buf'[i] = buf[j]
    <3>1. PICK l \in 1..Len(placed) : buf[j] = placed[l]
      BY <2>3 DEF Among
    <3>2. l > m /\ Len(placed) \in Nat
      BY <2>2, <2>5, <2>8, <3>1
    <3>3. l - m \in 1..Len(buf') /\ m + (l - m) = l
      BY <2>5, <3>2 DEF Suffix
    <3>4. buf'[l - m] = placed[l]
      BY <2>5, <3>3 DEF Suffix
    <3>5. QED
      BY <3>1, <3>3, <3>4
  <2>9. ASSUME AheadOfAll(x.t) \/ buf = <<>>
        PROVE  /\ Rising(buf) => Rising(buf')
               /\ buf' # <<>> => buf'[Len(buf')] = x
    <3>1. \A i \in 1..Len(buf) : buf[i].t < x.t
      BY <2>9, <1>3 DEF AheadOfAll
    <3>2. k = Len(buf)
      <4>1. CASE k < Len(buf)
        <5>1. k + 1 \in 1..Len(buf) /\ k + 1 > k
          BY <1>3, <4>1
        <5>2. buf[k + 1].t > x.t /\ buf[k + 1].t < x.t /\ buf[k + 1].t \in Int
          BY <1>3, <2>1, <3>1, <5>1 DEF CutsAt, Dates
        <5>3. QED
          BY <1>3, <5>2
      <4>2. QED
        BY <1>3, <4>1
    <3>3. Len(placed) = Len(buf) + 1
      BY <2>1 DEF Inserted
    <3>4. \A i \in 1..Len(placed) : placed[i] = IF i <= Len(buf) THEN buf[i] ELSE x
      <4>1. \A i \in 1..Len(placed) : i <= Len(buf) \/ i = Len(buf) + 1
        BY <1>3, <3>3
      <4>2. QED
        BY <1>3, <2>1, <3>2, <4>1 DEF Inserted
    <3>5. placed[Len(placed)] = x
      BY <1>3, <3>3, <3>4
    <3>6. Rising(buf) => Rising(placed)
      <4>1. SUFFICES ASSUME Rising(buf), NEW i \in 1..Len(placed), NEW j \in 1..Len(placed), i < j
                     PROVE  placed[i].t < placed[j].t
        BY DEF Rising
      <4>2. i <= Len(buf) /\ i \in 1..Len(buf)
        BY <1>3, <3>3, <4>1
      <4>3. CASE j <= Len(buf)
        BY <1>3, <3>4, <4>1, <4>2, <4>3 DEF Rising
      <4>4. CASE ~ (j <= Len(buf))
        BY <3>1, <3>4, <4>2, <4>4
      <4>5. QED
        BY <4>3, <4>4
    <3>7. QED
      BY <2>6, <3>5, <3>6
  <2>10. QED
    BY <2>4, <2>6, <2>7, <2>8, <2>9 DEF Pushed, x
<1>9. CASE placed = buf /\ \E k \in 0..Len(buf) : Inserted(placed, buf, x, k)
  <2>1. Len(buf) = Len(buf) + 1
    BY <1>9 DEF Inserted
  <2>2. QED
    BY <1>3, <2>1
<1>10. QED
  BY <1>6, <1>7, <1>8, <1>9

\* A sample dated within the skew or the period is far from the horizon.
LEMMA NotOld ==
  ASSUME NEW t \in Int, NEW at \in Int, NEW r \in Int, now \in Int,
         now - at <= Lag, r <= now, t >= at - SkewMax \/ t > at - Period
  PROVE  t + Horizon >= r + Lag
<1>1. /\ Lag \in Int /\ SkewMax \in Int /\ Period \in Int /\ Horizon \in Int
      /\ 2 * Lag + SkewMax <= Horizon /\ 2 * Lag + Period <= Horizon
  BY DeliveryAssumption
<1>2. PICK l \in Int, h \in Int : l = Lag /\ h = Horizon
  BY <1>1
<1>3. t > at + 2 * l - h \/ t >= at + 2 * l - h
  BY <1>1, <1>2
<1>4. QED
  BY <1>2, <1>3

LEMMA PushKeeps == DInv /\ Push => DInv'
<1> SUFFICES ASSUME DInv, Push PROVE DInv'
  OBVIOUS
<1> DEFINE x == pending[1]
<1>1. /\ pending # <<>> /\ pending' = <<>>
      /\ behind' = IF rec.got # <<>> /\ x.t <= rec.cursor THEN behind \cup {x.n} ELSE behind
      /\ UNCHANGED <<now, dated, sink, rec, ws, count, offered>>
  BY DEF Push
<1>2. Typed /\ Numbers /\ Journaled /\ Windowed /\ Prompt /\ ByServer
  BY DEF DInv
<1>3. Pushed
  BY PushedIs
<1>4. x \in Sample /\ x.t \in Int /\ x.n \in 1..MaxPub /\ x.n \in Int /\ x.at \in Int /\ x.n = count
  <2>1. \A y \in Sample : y.t \in Int /\ y.n \in 1..MaxPub /\ y.n \in Int /\ y.at \in Int
    BY DeliveryAssumption DEF Sample
  <2>2. x \in Sample /\ x.n = count
    BY <1>1, <1>2, TypedFacts DEF Numbers
  <2>3. QED
    BY ONLY <2>1, <2>2
<1>5. now \in Int /\ count \in Int /\ rec.cursor \in Int /\ ws.cursor \in Int /\ rec.readAt \in Int
      /\ Dates(buf) /\ Len(buf) \in Nat /\ Len(rec.got) \in Nat
  <2>1. count \in 0..MaxPub /\ MaxPub \in Nat
    BY <1>2, DeliveryAssumption DEF Typed
  <2>2. count \in Int
    BY ONLY <2>1
  <2>3. QED
    BY ONLY <1>2, <2>2, TypedFacts
<1>6. buf' \in Seq(Sample) /\ Len(buf') \in Nat /\ \A i \in 1..Len(buf') : buf'[i] \in Sample
  BY <1>3 DEF Pushed
<1>7. \A i \in 1..Len(buf') : buf'[i] = x \/ \E j \in 1..Len(buf) : buf'[i] = buf[j]
  BY <1>3 DEF Pushed
<1>8. \A k \in 1..Len(rec.got) : rec.got[k].n \in Int /\ rec.got[k].n < count
  <2>1. \A y \in Sample : y.n \in Int
    BY DeliveryAssumption DEF Sample
  <2>2. QED
    BY <1>1, <1>2, <2>1, TypedFacts DEF Numbers, Elder
<1> HIDE DEF x
<1>9. Typed'
  <2>1. pending' \in Seq(Sample) /\ Len(pending') <= 1
    BY <1>1
  <2>2. behind' \in SUBSET (1..MaxPub)
    BY <1>1, <1>2, <1>4 DEF Typed
  <2>3. Sorted(buf)'
    BY <1>3 DEF Pushed, Sorted
  <2>4. QED
    BY <1>1, <1>2, <1>6, <2>1, <2>2, <2>3 DEF Typed
<1>10. Numbers'
  <2>1. Numbered(buf)'
    BY <1>3 DEF Pushed, Numbered
  <2>2. Counted(buf)'
    <3>1. \A i \in 1..Len(buf) : buf[i].n <= count
      BY <1>2 DEF Numbers, Counted
    <3>2. \A i \in 1..Len(buf') : buf'[i].n <= count
      BY <1>4, <1>5, <1>7, <3>1
    <3>3. QED
      BY <1>1, <3>2 DEF Counted
  <2>3. Counted(rec.got)'
    BY <1>1, <1>2 DEF Numbers, Counted
  <2>4. \A i \in 1..Len(buf'), k \in 1..Len(rec.got) : buf'[i].n = rec.got[k].n => buf'[i].t = rec.got[k].t
    <3>1. TAKE i \in 1..Len(buf'), k \in 1..Len(rec.got)
    <3>2. CASE buf'[i] = x
      BY <1>4, <1>5, <1>8, <3>2
    <3>3. CASE \E j \in 1..Len(buf) : buf'[i] = buf[j]
      BY <1>2, <3>3 DEF Numbers
    <3>4. QED
      BY <1>7, <3>2, <3>3
  <2>5. \A m \in behind' : m <= count'
    <3>1. \A m \in behind : m <= count
      BY <1>2 DEF Numbers
    <3>2. QED
      BY <1>1, <1>4, <1>5, <3>1
  <2>6. QED
    BY <1>1, <2>1, <2>2, <2>3, <2>4, <2>5 DEF Numbers
<1>11. Journaled'
  <2>1. ASSUME NEW i \in 1..Len(buf'), rec.from < buf'[i].t, buf'[i].t <= rec.cursor
        PROVE  Written(buf'[i].n) \/ buf'[i].n \in behind'
    <3>1. CASE buf'[i] = x
      <4>1. rec.got # <<>>
        <5>1. rec.got = <<>> => rec.cursor = rec.from
          BY <1>2 DEF Journaled
        <5>2. QED
          BY <5>1, <1>4, <1>5, <2>1, <3>1
      <4>2. QED
        BY <1>1, <2>1, <3>1, <4>1
    <3>2. CASE \E j \in 1..Len(buf) : buf'[i] = buf[j]
      BY <1>1, <1>2, <2>1, <3>2 DEF Journaled, NeverSkipped
    <3>3. QED
      BY <1>7, <3>1, <3>2
  <2>2. NeverSkipped'
    <3>1. DOMAIN buf' = 1..Len(buf')
      BY <1>6
    <3>2. QED
      BY <1>1, <2>1, <3>1 DEF NeverSkipped, Written
  <2>3. QED
    BY <1>1, <1>2, <2>2 DEF Journaled, Sorted, Numbered
<1>12. Windowed'
  <2>1. \A i \in 1..Len(buf') : OfItsTime(buf'[i])
    <3>1. OfItsTime(x) /\ \A j \in 1..Len(buf) : OfItsTime(buf[j])
      BY <1>1, <1>2 DEF Windowed, x
    <3>2. QED
      BY <1>7, <3>1
  <2>2. QED
    BY <1>1, <2>1 DEF Windowed, OfItsTime
<1>13. Prompt'
  <2>1. ASSUME rec.on, NEW i \in 1..Len(buf'), buf'[i].t > rec.cursor
        PROVE  buf'[i].t + Horizon >= rec.readAt + Lag
    <3>1. CASE buf'[i] = x
      <4>1. now - x.at <= Lag /\ rec.readAt <= now
        BY <1>1, <1>2, <2>1 DEF Prompt, x
      <4>2. x.t >= x.at - SkewMax \/ x.t > x.at - Period
        <5>1. IF x.own THEN Abs(x.t - x.at) <= SkewMax ELSE x.t <= x.at /\ x.at - x.t < Period
          BY <1>1, <1>2 DEF Windowed, OfItsTime, x
        <5>2. QED
          BY <1>4, <5>1, DeliveryAssumption DEF Abs
      <4>3. x.t + Horizon >= rec.readAt + Lag
        BY <1>4, <1>5, <4>1, <4>2, NotOld
      <4>4. QED
        BY <3>1, <4>3
    <3>2. CASE \E j \in 1..Len(buf) : buf'[i] = buf[j]
      BY <1>2, <2>1, <3>2 DEF Prompt
    <3>3. QED
      BY <1>7, <3>1, <3>2
  <2>2. QED
    BY <1>1, <1>2, <2>1 DEF Prompt
<1>14. ByServer'
  <2>1. SUFFICES ASSUME dated = "server" PROVE Sunk' /\ Coming' /\ Latest' /\ Ahead'
    BY <1>1 DEF ByServer
  <2>2. Sunk /\ Coming /\ Latest /\ Ahead
    BY <1>2, <2>1 DEF ByServer
  <2>3. /\ sink.lastT # Never /\ x.t <= sink.lastT /\ x.v = sink.lastV
        /\ IF x.first THEN buf = <<>> ELSE AheadOfAll(x.t)
    BY <1>1, <2>2 DEF Sunk, Coming, x
  <2>4. sink.lastT \in Int /\ sink.lastT <= now /\ Behind(sink.lastT)
    BY <1>2, <2>2, <2>3 DEF Sunk, Typed
  <2>5. AheadOfAll(x.t) \/ buf = <<>>
    BY <2>3
  <2>6. Rising(buf') /\ (buf' # <<>> => buf'[Len(buf')] = x)
    BY <1>3, <2>2, <2>5 DEF Pushed, Sunk, x
  <2>7. ASSUME NEW d \in Int, Behind(d), x.t <= d PROVE Behind(d)'
    <3>1. \A i \in 1..Len(buf') : buf'[i].t <= d
      BY <1>7, <2>7 DEF Behind
    <3>2. QED
      BY <1>1, <2>7, <3>1 DEF Behind
  <2>8. Sunk'
    <3>1. Behind(now)' 
      <4>1. Behind(now) /\ x.t <= now
        BY <1>4, <1>5, <2>2, <2>3, <2>4 DEF Sunk
      <4>2. \A i \in 1..Len(buf') : buf'[i].t <= now
        BY <1>7, <4>1 DEF Behind
      <4>3. QED
        BY <1>1, <4>1, <4>2 DEF Behind
    <3>2. Behind(sink.lastT)'
      <4>1. \A i \in 1..Len(buf') : buf'[i].t <= sink.lastT
        BY <1>7, <2>3, <2>4 DEF Behind
      <4>2. QED
        BY <1>1, <2>4, <4>1 DEF Behind
    <3>3. QED
      BY <1>1, <2>2, <2>3, <2>6, <3>1, <3>2 DEF Sunk, Rising, Grid
  <2>9. Coming'
    BY <1>1 DEF Coming
  <2>10. Latest'
    <3>1. buf' # <<>> => Newest' = x
      BY <2>6 DEF Newest
    <3>2. buf' # <<>> => Newest'.v = sink.lastV
      BY <2>3, <3>1
    <3>3. ASSUME ws.got # <<>>, buf' # <<>>, x.t <= ws.cursor, ~x.first PROVE FALSE
      <4>1. ws.cursor < x.t
        BY <2>3, <3>3 DEF AheadOfAll
      <4>2. QED
        BY <1>4, <1>5, <3>3, <4>1
    <3>4. QED
      BY <1>1, <3>1, <3>2, <3>3 DEF Latest
  <2>11. Ahead'
    <3>1. ASSUME NEW i \in 1..Len(buf'), buf'[i].n \in behind' PROVE buf'[i].first
      <4>1. CASE buf'[i] = x
        <5>1. CASE ~x.first
          <6>1. rec.got # <<>> => rec.cursor < x.t
            BY <2>3, <5>1 DEF AheadOfAll
          <6>2. ~ (rec.got # <<>> /\ x.t <= rec.cursor)
            BY <1>4, <1>5, <6>1
          <6>3. x.n \in behind
            BY <1>1, <3>1, <4>1, <6>2
          <6>4. x.n < count
            BY <1>1, <1>2, <6>3 DEF Numbers
          <6>5. QED
            BY <1>4, <1>5, <6>4
        <5>2. QED
          BY <4>1, <5>1
      <4>2. CASE \E j \in 1..Len(buf) : buf'[i] = buf[j]
        <5>1. PICK j \in 1..Len(buf) : buf'[i] = buf[j]
          BY <4>2
        <5>2. buf[j].n < count
          BY <1>1, <1>2 DEF Numbers, Elder
        <5>3. buf[j].n # x.n
          BY <1>4, <1>5, <5>2
        <5>4. buf[j].n \in behind
          BY <1>1, <3>1, <5>1, <5>3
        <5>5. QED
          BY <2>2, <5>1, <5>4 DEF Ahead
      <4>3. QED
        BY <1>7, <4>1, <4>2
    <3>2. QED
      BY <3>1 DEF Ahead
  <2>12. QED
    BY <2>8, <2>9, <2>10, <2>11
<1>15. QED
  BY <1>9, <1>10, <1>11, <1>12, <1>13, <1>14 DEF DInv

-----------------------------------------------------------------------------
(* A new configuration.                                                    *)
LEMMA ReconfigureKeeps == DInv /\ Reconfigure => DInv'
<1> SUFFICES ASSUME DInv, Reconfigure PROVE DInv'
  OBVIOUS
<1>1. /\ pending = <<>> /\ buf' = <<>> /\ sink' = NewSink
      /\ UNCHANGED <<now, dated, pending, rec, ws, count, behind, offered>>
  BY DEF Reconfigure
<1>2. Typed /\ Numbers /\ Journaled /\ Windowed /\ Prompt /\ ByServer
  BY DEF DInv
<1>3. Len(buf') = 0 /\ 1..Len(buf') = {} /\ DOMAIN buf' = {}
  BY <1>1
<1>4. Typed'
  <2>1. NewSink \in [lastT : Int, lastV : Values \cup {0}, lastRet : Int]
    BY DEF NewSink, Never
  <2>2. buf' \in Seq(Sample) /\ Sorted(buf)'
    BY <1>1, <1>3 DEF Sorted
  <2>3. QED
    BY <1>1, <1>2, <2>1, <2>2 DEF Typed
<1>5. Numbers'
  BY <1>1, <1>2, <1>3 DEF Numbers, Numbered, Counted
<1>6. Journaled'
  BY <1>1, <1>2, <1>3 DEF Journaled, Sorted, Numbered, NeverSkipped
<1>7. Windowed' /\ Prompt'
  BY <1>1, <1>2, <1>3 DEF Windowed, Prompt
<1>8. ByServer'
  <2>1. SUFFICES ASSUME dated = "server" PROVE Sunk' /\ Coming' /\ Latest' /\ Ahead'
    BY <1>1 DEF ByServer
  <2>2. Sunk
    BY <1>2, <2>1 DEF ByServer
  <2>3. sink'.lastT = Never /\ sink'.lastRet = Never
    BY <1>1 DEF NewSink
  <2>4. Sunk'
    BY <1>1, <1>3, <2>2, <2>3 DEF Sunk, Rising, Behind
  <2>5. Coming' /\ Latest' /\ Ahead'
    BY <1>1, <1>3 DEF Coming, Latest, Ahead
  <2>6. QED
    BY <2>4, <2>5
<1>9. QED
  BY <1>4, <1>5, <1>6, <1>7, <1>8 DEF DInv

-----------------------------------------------------------------------------
(* The campaign.                                                           *)
LEMMA RecStartKeeps == DInv /\ RecStart => DInv'
<1> SUFFICES ASSUME DInv, RecStart PROVE DInv'
  OBVIOUS
<1>1. /\ rec' = [Started(now) EXCEPT !.readAt = now]
      /\ UNCHANGED <<now, dated, sink, pending, buf, ws, count, behind, offered>>
  BY DEF RecStart
<1>2. Typed /\ Numbers /\ Journaled /\ Windowed /\ Prompt /\ ByServer
  BY DEF DInv
<1>3. rec' = [on |-> TRUE, from |-> now, cursor |-> now, readAt |-> now, got |-> <<>>]
  BY <1>1 DEF Started
<1>4. rec'.on /\ rec'.from = now /\ rec'.cursor = now /\ rec'.readAt = now /\ rec'.got = <<>>
  BY <1>3
<1>5. Len(rec'.got) = 0 /\ 1..Len(rec'.got) = {}
  BY <1>4
<1>6. now \in Int /\ now \in 0..MaxTime /\ Dates(buf) /\ Len(buf) \in Nat
  BY <1>2, TypedFacts DEF Typed
<1>7. Typed'
  <2>1. rec' \in Reader
    BY <1>3, <1>6 DEF Reader
  <2>2. QED
    BY <1>1, <1>2, <2>1 DEF Typed, Sorted
<1>8. Numbers'
  BY <1>1, <1>2, <1>5 DEF Numbers, Numbered, Counted, Elder
<1>9. Journaled'
  <2>1. NeverSkipped'
    <3>1. \A i \in DOMAIN buf : ~ (now < buf[i].t /\ buf[i].t <= now)
      BY <1>2, <1>6 DEF Dates, Typed
    <3>2. QED
      BY <1>1, <1>4, <3>1 DEF NeverSkipped
  <2>2. Sorted(rec.got)' /\ Numbered(rec.got)'
    BY <1>5 DEF Sorted, Numbered
  <2>3. QED
    BY <1>4, <1>5, <2>1, <2>2 DEF Journaled
<1>10. Windowed'
  BY <1>1, <1>2 DEF Windowed, OfItsTime
<1>11. Prompt'
  <2>1. \A i \in 1..Len(buf) : buf[i].t > now => buf[i].t + Horizon >= now + Lag
    <3>1. Horizon \in Int /\ Lag \in Int /\ Lag >= 0 /\ 2 * Lag <= Horizon
      BY DeliveryAssumption
    <3>2. QED
      BY <1>6, <3>1 DEF Dates
  <2>2. now <= now /\ now - now <= Lag
    BY <1>6, DeliveryAssumption
  <2>3. QED
    BY <1>1, <1>2, <1>4, <2>1, <2>2 DEF Prompt
<1>12. ByServer'
  <2>1. SUFFICES ASSUME dated = "server" PROVE Sunk' /\ Coming' /\ Latest' /\ Ahead'
    BY <1>1 DEF ByServer
  <2>2. Sunk /\ Coming /\ Latest /\ Ahead
    BY <1>2, <2>1 DEF ByServer
  <2>3. Sunk'
    BY <1>1, <1>4, <2>2 DEF Sunk, Rising, Behind, Grid
  <2>4. Coming' /\ Latest' /\ Ahead'
    BY <1>1, <1>4, <2>2 DEF Coming, AheadOfAll, Latest, Newest, Ahead
  <2>5. QED
    BY <2>3, <2>4
<1>13. QED
  BY <1>7, <1>8, <1>9, <1>10, <1>11, <1>12 DEF DInv

LEMMA Between ==
  ASSUME NEW p \in Int, NEW q \in Int, NEW r \in Int, p <= q, q <= r \/ r > q
  PROVE  p <= r
  OBVIOUS

(* A flush writes what is later than the cursor after what it has written. *)
LEMMA RecFlushKeeps == DInv /\ RecFlush => DInv'
<1> SUFFICES ASSUME DInv, RecFlush PROVE DInv'
  OBVIOUS
<1> DEFINE batch == After(buf, rec.cursor)
<1>2. Typed /\ Numbers /\ Journaled /\ Windowed /\ Prompt /\ ByServer
  BY DEF DInv
<1>3. /\ now \in Int /\ rec.cursor \in Int /\ rec.readAt \in Int /\ rec.from \in Int /\ count \in Int
      /\ now \in 0..MaxTime
      /\ buf \in Seq(Sample) /\ Dates(buf) /\ Sorted(buf) /\ Len(buf) \in Nat
      /\ rec.got \in Seq(Sample) /\ Dates(rec.got) /\ Len(rec.got) \in Nat /\ rec \in Reader
  BY <1>2, TypedFacts, DeliveryAssumption DEF Typed
<1>4. batch \in Seq(Sample) /\ \E k \in 0..Len(buf) : CutsAt(buf, rec.cursor, k) /\ Suffix(batch, buf, k)
  BY <1>2, <1>3, Unread
<1>5. PICK k \in 0..Len(buf) : CutsAt(buf, rec.cursor, k) /\ Suffix(batch, buf, k)
  BY <1>4
<1>6. /\ rec.on
      /\ rec' = [rec EXCEPT !.readAt = now, !.got = rec.got \o batch,
                            !.cursor = IF batch = <<>> THEN rec.cursor ELSE batch[Len(batch)].t]
      /\ UNCHANGED <<now, dated, sink, pending, buf, ws, count, behind, offered>>
  <2>1. Decimated(batch, 0) = batch
    BY <1>4, ReadAll
  <2>2. QED
    BY <2>1 DEF RecFlush, Read
<1> HIDE DEF batch
<1>7. /\ rec'.on /\ rec'.from = rec.from /\ rec'.readAt = now /\ rec'.got = rec.got \o batch
      /\ rec'.cursor = IF batch = <<>> THEN rec.cursor ELSE batch[Len(batch)].t
      /\ DOMAIN rec' = DOMAIN rec
  BY <1>3, <1>6 DEF Reader
<1> DEFINE n == Len(rec.got)
           c == rec'.cursor
<1>8. /\ Len(batch) \in Nat /\ k \in Nat /\ k <= Len(buf) /\ Len(batch) = Len(buf) - k
      /\ \A i \in 1..Len(batch) : k + i \in 1..Len(buf) /\ batch[i] = buf[k + i] /\ batch[i].t > rec.cursor
      /\ \A j \in 1..Len(buf) : buf[j].t > rec.cursor => j - k \in 1..Len(batch) /\ batch[j - k] = buf[j]
  <2>1. Len(batch) \in Nat /\ k \in Nat /\ k <= Len(buf) /\ Len(batch) = Len(buf) - k
    BY <1>3, <1>5 DEF Suffix
  <2>2. ASSUME NEW i \in 1..Len(batch)
        PROVE  k + i \in 1..Len(buf) /\ batch[i] = buf[k + i] /\ batch[i].t > rec.cursor
    <3>1. k + i \in 1..Len(buf) /\ k + i > k /\ batch[i] = buf[k + i]
      BY <1>5, <2>1 DEF Suffix
    <3>2. QED
      BY <1>5, <3>1 DEF CutsAt
  <2>3. ASSUME NEW j \in 1..Len(buf), buf[j].t > rec.cursor
        PROVE  j - k \in 1..Len(batch) /\ batch[j - k] = buf[j]
    <3>1. j > k
      BY <1>5, <2>3 DEF CutsAt
    <3>2. j - k \in 1..Len(batch) /\ k + (j - k) = j
      BY <2>1, <3>1
    <3>3. QED
      BY <1>5, <3>2 DEF Suffix
  <2>4. QED
    BY <2>1, <2>2, <2>3
<1>9. Dates(batch) /\ Sorted(batch)
  BY <1>3, <1>4, <1>5, SuffixKeeps
<1>10. Numbered(batch)
  BY <1>2, <1>3, <1>4, <1>5, SuffixKeeps DEF Numbers
<1>11. /\ rec'.got \in Seq(Sample) /\ Len(rec'.got) = n + Len(batch)
       /\ \A i \in 1..n : rec'.got[i] = rec.got[i]
       /\ \A i \in 1..Len(batch) : rec'.got[n + i] = batch[i]
  BY <1>3, <1>4, <1>7
<1>12. \A i \in 1..Len(rec'.got) : i \in 1..n \/ (i - n \in 1..Len(batch) /\ rec'.got[i] = batch[i - n])
  <2>1. TAKE i \in 1..Len(rec'.got)
  <2>2. CASE i <= n
    BY <2>2, <1>3, <1>11
  <2>3. CASE i > n
    <3>1. i - n \in 1..Len(batch) /\ n + (i - n) = i
      BY <2>3, <1>3, <1>8, <1>11
    <3>2. QED
      BY <3>1, <1>11
  <2>4. QED
    BY <2>2, <2>3, <1>3, <1>11
<1>13. c \in Int /\ rec.cursor <= c /\ \A j \in 1..Len(buf) : buf[j].t <= c
  <2>1. CASE batch = <<>>
    <3>1. Len(batch) = 0
      BY <2>1
    <3>2. \A j \in 1..Len(buf) : ~ (buf[j].t > rec.cursor)
      BY <1>8, <3>1
    <3>3. QED
      BY <1>3, <1>7, <2>1, <3>2 DEF Dates
  <2>2. CASE batch # <<>>
    <3>1. Len(batch) \in 1..Len(batch) /\ Len(batch) > 0
      BY <1>4, <2>2
    <3>2. c = batch[Len(batch)].t /\ batch[Len(batch)] = buf[k + Len(batch)] /\ k + Len(batch) = Len(buf)
          /\ c > rec.cursor
      BY <1>7, <1>8, <2>2, <3>1
    <3>3. c = buf[Len(buf)].t /\ Len(buf) \in 1..Len(buf)
      BY <1>8, <3>1, <3>2
    <3>4. \A j \in 1..Len(buf) : j < Len(buf) \/ j = Len(buf)
      BY <1>3
    <3>5. c \in Int
      BY <1>3, <3>3 DEF Dates
    <3>6. \A j \in 1..Len(buf) : buf[j].t <= buf[Len(buf)].t
      BY <1>3, <3>3, <3>4, <3>5 DEF Sorted, Dates
    <3>7. QED
      BY <1>3, <3>2, <3>3, <3>5, <3>6
  <2>3. QED
    BY <2>1, <2>2
<1>14. rec'.got # <<>> /\ rec.got = <<>> => \E j \in 1..Len(buf) : c = buf[j].t
  <2>1. SUFFICES ASSUME rec'.got # <<>>, rec.got = <<>> PROVE \E j \in 1..Len(buf) : c = buf[j].t
    OBVIOUS
  <2>2. batch # <<>>
    BY <1>4, <1>7, <2>1
  <2>3. Len(batch) \in 1..Len(batch)
    BY <1>4, <2>2
  <2>4. c = batch[Len(batch)].t /\ batch[Len(batch)] = buf[k + Len(batch)] /\ k + Len(batch) \in 1..Len(buf)
    BY <1>7, <1>8, <2>2, <2>3
  <2>5. QED
    BY <2>4
<1>140. c = rec.cursor \/ \E j \in 1..Len(buf) : c = buf[j].t
  <2>1. CASE batch = <<>>
    BY <1>7, <2>1
  <2>2. CASE batch # <<>>
    <3>1. Len(batch) \in 1..Len(batch)
      BY <1>4, <2>2
    <3>2. c = batch[Len(batch)].t /\ batch[Len(batch)] = buf[k + Len(batch)] /\ k + Len(batch) \in 1..Len(buf)
      BY <1>7, <1>8, <2>2, <3>1
    <3>3. QED
      BY <3>2
  <2>3. QED
    BY <2>1, <2>2
<1>15. Typed'
  <2>1. rec' \in Reader
    <3>1. rec'.on \in BOOLEAN /\ rec'.from \in Int /\ rec'.cursor \in Int /\ rec'.readAt \in 0..MaxTime
      BY <1>3, <1>6, <1>7, <1>13
    <3>2. rec' = [on |-> rec'.on, from |-> rec'.from, cursor |-> rec'.cursor, readAt |-> rec'.readAt,
                  got |-> rec'.got]
      BY <1>3, <1>6 DEF Reader
    <3>3. QED
      BY <1>11, <3>1, <3>2 DEF Reader
  <2>2. QED
    BY <1>2, <1>6, <2>1 DEF Typed, Sorted
<1>16. Numbers'
  <2>1. Counted(buf) /\ Counted(rec.got) /\ (pending # <<>> => Elder(buf) /\ Elder(rec.got))
    BY <1>2 DEF Numbers
  <2>2. Counted(rec.got)'
    <3>1. ASSUME NEW i \in 1..Len(rec'.got) PROVE rec'.got[i].n <= count
      <4>1. CASE i \in 1..n
        BY <1>11, <2>1, <4>1 DEF Counted
      <4>2. CASE i - n \in 1..Len(batch) /\ rec'.got[i] = batch[i - n]
        <5>1. rec'.got[i] = buf[k + (i - n)] /\ k + (i - n) \in 1..Len(buf)
          BY <1>8, <4>2
        <5>2. QED
          BY <2>1, <5>1 DEF Counted
      <4>3. QED
        BY <1>12, <4>1, <4>2
    <3>2. QED
      BY <1>6, <3>1 DEF Counted
  <2>3. pending # <<>> => Elder(rec.got)'
    <3>1. ASSUME pending # <<>>, NEW i \in 1..Len(rec'.got) PROVE rec'.got[i].n < count
      <4>1. CASE i \in 1..n
        BY <1>11, <2>1, <3>1, <4>1 DEF Elder
      <4>2. CASE i - n \in 1..Len(batch) /\ rec'.got[i] = batch[i - n]
        <5>1. rec'.got[i] = buf[k + (i - n)] /\ k + (i - n) \in 1..Len(buf)
          BY <1>8, <4>2
        <5>2. QED
          BY <2>1, <3>1, <5>1 DEF Elder
      <4>3. QED
        BY <1>12, <4>1, <4>2
    <3>2. QED
      BY <1>6, <3>1 DEF Elder
  <2>4. \A i \in 1..Len(buf), l \in 1..Len(rec'.got) : buf[i].n = rec'.got[l].n => buf[i].t = rec'.got[l].t
    <3>1. TAKE i \in 1..Len(buf), l \in 1..Len(rec'.got)
    <3>2. CASE l \in 1..n
      BY <1>2, <1>11, <3>2 DEF Numbers
    <3>3. CASE l - n \in 1..Len(batch) /\ rec'.got[l] = batch[l - n]
      <4>1. rec'.got[l] = buf[k + (l - n)] /\ k + (l - n) \in 1..Len(buf)
        BY <1>8, <3>3
      <4>2. QED
        BY <1>2, <4>1 DEF Numbers, Numbered
    <3>4. QED
      BY <1>12, <3>2, <3>3
  <2>5. Numbered(buf)' /\ Counted(buf)' /\ (pending' # <<>> => Elder(buf)')
    BY <1>2, <1>6, <2>1 DEF Numbers, Numbered, Counted, Elder
  <2>6. QED
    BY <1>2, <1>6, <2>2, <2>3, <2>4, <2>5 DEF Numbers
<1>17. Journaled'
  <2>1. \A i \in 1..n : rec.got[i].t <= rec.cursor /\ rec.got[i].t \in Int
    BY <1>2, <1>3 DEF Journaled, Dates
  <2>2. Sorted(rec'.got)
    <3>1. ASSUME NEW i \in 1..Len(rec'.got), NEW j \in 1..Len(rec'.got), i < j
          PROVE  rec'.got[i].t <= rec'.got[j].t
      <4>1. CASE i \in 1..n /\ j \in 1..n
        BY <1>2, <1>11, <3>1, <4>1 DEF Journaled, Sorted
      <4>2. CASE i \in 1..n /\ j - n \in 1..Len(batch) /\ rec'.got[j] = batch[j - n]
        <5>1. batch[j - n].t > rec.cursor /\ batch[j - n].t \in Int /\ rec'.got[i].t <= rec.cursor
              /\ rec'.got[i].t \in Int
          BY <1>8, <1>9, <1>11, <2>1, <4>2 DEF Dates
        <5>2. rec'.got[i].t <= batch[j - n].t
          BY <1>3, <5>1, Between
        <5>3. QED
          BY <4>2, <5>2
      <4>3. CASE i - n \in 1..Len(batch) /\ rec'.got[i] = batch[i - n] /\ j - n \in 1..Len(batch)
                 /\ rec'.got[j] = batch[j - n]
        <5>1. i - n < j - n
          BY <1>3, <1>11, <3>1
        <5>2. QED
          BY <1>9, <4>3, <5>1 DEF Sorted
      <4>4. CASE i - n \in 1..Len(batch) /\ j \in 1..n
        BY <1>3, <1>11, <3>1, <4>4
      <4>5. QED
        BY <1>12, <4>1, <4>2, <4>3, <4>4
    <3>2. QED
      BY <3>1 DEF Sorted
  <2>3. Numbered(rec'.got)
    <3>0. ASSUME NEW i \in 1..n, NEW l \in 1..Len(batch) PROVE rec.got[i].n # batch[l].n
      <4>1. k + l \in 1..Len(buf) /\ batch[l] = buf[k + l] /\ batch[l].t > rec.cursor /\ batch[l].t \in Int
        BY <1>8, <1>9 DEF Dates
      <4>2. buf[k + l].n = rec.got[i].n => buf[k + l].t = rec.got[i].t
        BY <1>2, <4>1 DEF Numbers
      <4>3. rec.got[i].t <= rec.cursor /\ rec.got[i].t \in Int
        BY <2>1
      <4>4. batch[l].t # rec.got[i].t
        BY ONLY <1>3, <4>1, <4>3
      <4>5. QED
        BY <4>1, <4>2, <4>4
    <3>1. ASSUME NEW i \in 1..Len(rec'.got), NEW j \in 1..Len(rec'.got), rec'.got[i].n = rec'.got[j].n
          PROVE  i = j
      <4>1. CASE i \in 1..n /\ j \in 1..n
        BY <1>2, <1>11, <3>1, <4>1 DEF Journaled, Numbered
      <4>2. CASE i \in 1..n /\ j - n \in 1..Len(batch) /\ rec'.got[j] = batch[j - n]
        BY <1>11, <3>0, <3>1, <4>2
      <4>3. CASE i - n \in 1..Len(batch) /\ rec'.got[i] = batch[i - n] /\ j - n \in 1..Len(batch)
                 /\ rec'.got[j] = batch[j - n]
        <5>1. i - n = j - n
          BY <1>10, <3>1, <4>3 DEF Numbered
        <5>2. QED
          BY <1>3, <1>11, <5>1
      <4>4. CASE i - n \in 1..Len(batch) /\ rec'.got[i] = batch[i - n] /\ j \in 1..n
        BY <1>11, <3>0, <3>1, <4>4
      <4>5. QED
        BY <1>12, <4>1, <4>2, <4>3, <4>4
    <3>2. QED
      BY <3>1 DEF Numbered
  <2>4. \A i \in 1..Len(rec'.got) : rec'.got[i].t <= c
    <3>1. TAKE i \in 1..Len(rec'.got)
    <3>2. CASE i \in 1..n
      <4>1. rec'.got[i].t <= rec.cursor /\ rec'.got[i].t \in Int
        BY <1>11, <2>1, <3>2
      <4>2. QED
        BY <1>3, <1>13, <4>1, Between
    <3>3. CASE i - n \in 1..Len(batch) /\ rec'.got[i] = batch[i - n]
      <4>1. rec'.got[i] = buf[k + (i - n)] /\ k + (i - n) \in 1..Len(buf)
        BY <1>8, <3>3
      <4>2. buf[k + (i - n)].t <= c
        BY <1>13, <4>1
      <4>3. QED
        BY <4>1, <4>2
    <3>4. QED
      BY <1>12, <3>2, <3>3
  <2>5. rec'.got = <<>> => c = rec.from
    <3>1. SUFFICES ASSUME rec'.got = <<>> PROVE c = rec.from
      OBVIOUS
    <3>2. rec.got = <<>> /\ batch = <<>>
      <4>1. Len(rec'.got) = 0
        BY <3>1
      <4>2. n = 0 /\ Len(batch) = 0
        BY <1>3, <1>8, <1>11, <4>1
      <4>3. QED
        BY <1>3, <1>4, <4>2
    <3>3. QED
      BY <1>2, <1>7, <3>2 DEF Journaled
  <2>6. ASSUME NEW i \in 1..Len(buf), rec.from < buf[i].t
        PROVE  Written(buf[i].n)' \/ buf[i].n \in behind
    <3>1. CASE buf[i].t <= rec.cursor
      <4>1. Written(buf[i].n) \/ buf[i].n \in behind
        BY <1>2, <1>3, <2>6, <3>1 DEF Journaled, NeverSkipped
      <4>2. DOMAIN rec.got = 1..n /\ DOMAIN rec'.got = 1..Len(rec'.got) /\ 1..n \subseteq 1..Len(rec'.got)
        BY <1>3, <1>8, <1>11
      <4>3. Written(buf[i].n) => \E l \in DOMAIN rec'.got : rec'.got[l].n = buf[i].n
        BY <1>11, <4>2 DEF Written
      <4>4. QED
        BY <1>6, <4>1, <4>3 DEF Written
    <3>2. CASE buf[i].t > rec.cursor
      <4>1. i - k \in 1..Len(batch) /\ batch[i - k] = buf[i]
        BY <1>8, <3>2
      <4>2. n + (i - k) \in 1..Len(rec'.got) /\ rec'.got[n + (i - k)] = buf[i]
        BY <1>3, <1>8, <1>11, <4>1
      <4>3. n + (i - k) \in DOMAIN rec'.got
        BY <1>11, <4>2
      <4>4. \E l \in DOMAIN rec'.got : rec'.got[l].n = buf[i].n
        BY <4>2, <4>3
      <4>5. QED
        BY <1>6, <4>4 DEF Written
    <3>3. QED
      BY <1>3, <3>1, <3>2 DEF Dates
  <2>7. NeverSkipped'
    <3>1. \A i \in DOMAIN buf : rec.from < buf[i].t => Written(buf[i].n)' \/ buf[i].n \in behind
      BY <1>3, <2>6
    <3>2. QED
      BY <1>6, <1>7, <3>1 DEF NeverSkipped, Written
  <2>8. QED
    BY <1>7, <2>2, <2>3, <2>4, <2>5, <2>7 DEF Journaled, Sorted, Numbered
<1>18. Windowed'
  BY <1>2, <1>6 DEF Windowed, OfItsTime
<1>19. Prompt'
  <2>1. \A i \in 1..Len(buf) : ~ (buf[i].t > c)
    BY <1>3, <1>13 DEF Dates
  <2>2. now <= now /\ now - now <= Lag
    BY <1>3, DeliveryAssumption
  <2>3. QED
    BY <1>2, <1>6, <1>7, <2>1, <2>2 DEF Prompt
<1>20. ByServer'
  <2>1. SUFFICES ASSUME dated = "server" PROVE Sunk' /\ Coming' /\ Latest' /\ Ahead'
    BY <1>6 DEF ByServer
  <2>2. Sunk /\ Coming /\ Latest /\ Ahead
    BY <1>2, <2>1 DEF ByServer
  <2>3. ASSUME NEW d \in Int, Behind(d), rec'.got # <<>> PROVE c <= d
    <3>1. CASE \E j \in 1..Len(buf) : c = buf[j].t
      BY <2>3, <3>1 DEF Behind
    <3>2. CASE c = rec.cursor /\ rec.got # <<>>
      BY <2>3, <3>2 DEF Behind
    <3>3. QED
      BY <1>14, <1>140, <2>3, <3>1, <3>2
  <2>4. Sunk'
    <3>1. Behind(now)'
      <4>1. Behind(now)
        BY <2>2 DEF Sunk
      <4>2. rec'.got # <<>> => c <= now
        BY <1>3, <2>3, <4>1
      <4>3. QED
        BY <1>6, <4>1, <4>2 DEF Behind
    <3>2. sink.lastT # Never => Behind(sink.lastT)'
      <4>1. SUFFICES ASSUME sink.lastT # Never PROVE Behind(sink.lastT)'
        OBVIOUS
      <4>2. Behind(sink.lastT) /\ sink.lastT \in Int
        BY <1>2, <2>2, <4>1 DEF Sunk, Typed
      <4>3. rec'.got # <<>> => c <= sink.lastT
        BY <2>3, <4>2
      <4>4. QED
        BY <1>6, <4>2, <4>3 DEF Behind
    <3>3. QED
      BY <1>6, <2>2, <3>1, <3>2 DEF Sunk, Rising, Grid
  <2>5. Coming'
    <3>1. ASSUME pending # <<>>, ~pending[1].first PROVE AheadOfAll(pending[1].t)'
      <4>1. AheadOfAll(pending[1].t)
        BY <2>2, <3>1 DEF Coming
      <4>2. rec'.got # <<>> => c < pending[1].t
        <5>1. CASE \E j \in 1..Len(buf) : c = buf[j].t
          BY <4>1, <5>1 DEF AheadOfAll
        <5>2. CASE c = rec.cursor /\ rec.got # <<>>
          BY <4>1, <5>2 DEF AheadOfAll
        <5>3. QED
          BY <1>14, <1>140, <5>1, <5>2
      <4>3. QED
        BY <1>6, <4>1, <4>2 DEF AheadOfAll
    <3>2. QED
      BY <1>6, <2>2, <3>1 DEF Coming
  <2>6. Latest' /\ Ahead'
    BY <1>6, <2>2 DEF Latest, Newest, Ahead
  <2>7. QED
    BY <2>4, <2>5, <2>6
<1>21. QED
  BY <1>15, <1>16, <1>17, <1>18, <1>19, <1>20 DEF DInv

-----------------------------------------------------------------------------
(* The session.                                                            *)
LEMMA WsSubKeeps == DInv /\ WsSub => DInv'
<1> SUFFICES ASSUME DInv, WsSub PROVE DInv'
  OBVIOUS
<1>1. /\ ws' = [on |-> TRUE, from |-> now - Past, cursor |-> now - Past, readAt |-> 0, got |-> <<>>]
      /\ UNCHANGED <<now, dated, sink, pending, buf, rec, count, behind, offered>>
  BY DEF WsSub, Started
<1>2. Typed /\ Numbers /\ Journaled /\ Windowed /\ Prompt /\ ByServer
  BY DEF DInv
<1>3. ws'.got = <<>> /\ Len(ws'.got) = 0
  BY <1>1
<1>4. Typed'
  <2>1. now - Past \in Int /\ 0 \in 0..MaxTime
    BY <1>2, TypedFacts, DeliveryAssumption
  <2>2. ws' \in Reader
    BY <1>1, <2>1 DEF Reader
  <2>3. QED
    BY <1>1, <1>2, <1>3, <2>2 DEF Typed, Sorted
<1>5. Numbers' /\ Journaled'
  BY <1>1, <1>2 DEF Numbers, Numbered, Counted, Elder, Journaled, Sorted, NeverSkipped, Written
<1>6. Windowed' /\ Prompt'
  BY <1>1, <1>2 DEF Windowed, OfItsTime, Prompt
<1>7. ByServer'
  <2>1. SUFFICES ASSUME dated = "server" PROVE Sunk' /\ Coming' /\ Latest' /\ Ahead'
    BY <1>1 DEF ByServer
  <2>2. Sunk /\ Coming /\ Latest /\ Ahead
    BY <1>2, <2>1 DEF ByServer
  <2>3. Sunk'
    BY <1>1, <1>3, <2>2 DEF Sunk, Rising, Behind, Grid
  <2>4. Coming' /\ Latest' /\ Ahead'
    BY <1>1, <1>3, <2>2 DEF Coming, AheadOfAll, Latest, Newest, Ahead
  <2>5. QED
    BY <2>3, <2>4
<1>8. QED
  BY <1>4, <1>5, <1>6, <1>7 DEF DInv

(* A frame ends at the date of the newest sample.                          *)
LEMMA WsFlushKeeps == DInv /\ WsFlush => DInv'
<1> SUFFICES ASSUME DInv, WsFlush PROVE DInv'
  OBVIOUS
<1> DEFINE s == After(buf, ws.cursor)
           batch == Read(buf, ws.cursor, MaxOut)
           last == batch[Len(batch)]
<1>1. /\ ws' = [ws EXCEPT !.got = IF batch = <<>> THEN ws.got ELSE <<last>>,
                          !.cursor = IF batch = <<>> THEN ws.cursor ELSE last.t]
      /\ UNCHANGED <<now, dated, sink, pending, buf, rec, count, behind, offered>>
  BY DEF WsFlush
<1>2. Typed /\ Numbers /\ Journaled /\ Windowed /\ Prompt /\ ByServer
  BY DEF DInv
<1>3. buf \in Seq(Sample) /\ Dates(buf) /\ Sorted(buf) /\ Len(buf) \in Nat /\ ws \in Reader
      /\ ws.cursor \in Int /\ ws.got \in Seq(Sample)
  BY <1>2, TypedFacts DEF Typed
<1>4. s \in Seq(Sample) /\ \E k \in 0..Len(buf) : CutsAt(buf, ws.cursor, k) /\ Suffix(s, buf, k)
  BY <1>2, <1>3, Unread
<1>5. PICK k \in 0..Len(buf) : CutsAt(buf, ws.cursor, k) /\ Suffix(s, buf, k)
  BY <1>4
<1>6. batch = Decimated(s, MaxOut) /\ MaxOut \in Nat
  BY DeliveryAssumption DEF Read
<1> HIDE DEF batch, s
\* Nothing to give, or the last sample given is of the history, at the date of the newest.
<1>7. s = <<>> => batch = <<>>
  <2>1. SUFFICES ASSUME s = <<>> PROVE batch = <<>>
    OBVIOUS
  <2>2. Len(s) = 0 /\ ~ (MaxOut > 0 /\ Len(s) > MaxOut)
    BY <2>1, <1>6
  <2>3. batch = [i \in 1..((0 + 1 - 1) \div 1) |-> s[(i - 1) * 1 + 1]]
    BY <1>6, <2>2 DEF Decimated
  <2>4. 1..((0 + 1 - 1) \div 1) = {}
    OBVIOUS
  <2>5. QED
    BY <2>3, <2>4
<1>8. s # <<>> => /\ batch # <<>> /\ last \in Sample
                  /\ \E j \in 1..Len(buf) : last = buf[j]
                  /\ buf # <<>> /\ last.t = Newest.t /\ last.t > ws.cursor
  <2>1. SUFFICES ASSUME s # <<>>
                 PROVE  /\ batch # <<>> /\ last \in Sample
                        /\ \E j \in 1..Len(buf) : last = buf[j]
                        /\ buf # <<>> /\ last.t = Newest.t /\ last.t > ws.cursor
    OBVIOUS
  <2>2. /\ batch \in Seq(Sample) /\ batch # <<>> /\ Among(batch, s) /\ last.t = s[Len(s)].t
    BY <1>4, <1>6, <2>1, DecimatedEnds
  <2>3. Among(s, buf) /\ s[Len(s)] = buf[Len(buf)]
    BY <1>3, <1>4, <1>5, <2>1, SuffixKeeps
  <2>4. Len(batch) \in 1..Len(batch) /\ last \in Sample
    BY <2>2
  <2>5. PICK i \in 1..Len(s) : last = s[i]
    BY <2>2, <2>4 DEF Among
  <2>6. PICK j \in 1..Len(buf) : s[i] = buf[j]
    BY <2>3 DEF Among
  <2>7. buf # <<>>
    BY <2>6
  <2>8. k + i \in 1..Len(buf) /\ k + i > k /\ s[i] = buf[k + i]
    BY <1>3, <1>5, <2>5 DEF Suffix
  <2>9. s[i].t > ws.cursor
    BY <1>5, <2>8 DEF CutsAt
  <2>10. QED
    BY <2>2, <2>3, <2>4, <2>5, <2>6, <2>7, <2>9 DEF Newest
<1>9. s = <<>> => \A j \in 1..Len(buf) : buf[j].t <= ws.cursor
  <2>1. SUFFICES ASSUME s = <<>>, NEW j \in 1..Len(buf) PROVE buf[j].t <= ws.cursor
    OBVIOUS
  <2>2. Len(s) = 0
    BY <2>1
  <2>3. k = Len(buf)
    BY <1>3, <1>5, <2>2 DEF Suffix
  <2>4. ~ (j > k)
    BY <1>3, <2>3
  <2>5. QED
    BY <1>3, <1>5, <2>4 DEF CutsAt, Dates
<1>10. CASE s = <<>>
  <2>1. ws' = ws
    BY <1>1, <1>3, <1>7, <1>10 DEF Reader
  <2>2. Typed'
    BY <1>1, <1>2, <2>1 DEF Typed, Sorted
  <2>3. Numbers' /\ Journaled'
    BY <1>1, <1>2 DEF Numbers, Numbered, Counted, Elder, Journaled, Sorted, NeverSkipped, Written
  <2>4. Windowed' /\ Prompt'
    BY <1>1, <1>2 DEF Windowed, OfItsTime, Prompt
  <2>5. ByServer'
    BY <1>1, <1>2, <2>1 DEF ByServer, Sunk, Rising, Behind, Grid, Coming, AheadOfAll, Latest, Newest, Ahead
  <2>6. QED
    BY <2>2, <2>3, <2>4, <2>5 DEF DInv
<1>11. CASE s # <<>>
  <2>1. batch # <<>> /\ last \in Sample /\ buf # <<>> /\ last.t = Newest.t /\ last.t > ws.cursor
    BY <1>8, <1>11
  <2>2. PICK j \in 1..Len(buf) : last = buf[j]
    BY <1>8, <1>11
  <2>3. ws'.got = <<last>> /\ ws'.cursor = last.t /\ ws'.on = ws.on /\ ws'.from = ws.from
        /\ ws'.readAt = ws.readAt
    BY <1>1, <1>3, <2>1 DEF Reader
  <2> HIDE DEF last
  <2>4. Typed'
    <3>1. ws' \in Reader
      <4>1. last.t \in Int /\ <<last>> \in Seq(Sample)
        BY <2>1 DEF Sample
      <4>2. ws' = [on |-> ws.on, from |-> ws.from, cursor |-> last.t, readAt |-> ws.readAt, got |-> <<last>>]
        BY <1>1, <1>3, <2>1, <2>3 DEF Reader
      <4>3. QED
        BY <1>3, <4>1, <4>2 DEF Reader
    <3>2. Len(ws'.got) <= 1
      BY <2>3
    <3>3. QED
      BY <1>1, <1>2, <3>1, <3>2 DEF Typed, Sorted
  <2>5. Numbers' /\ Journaled'
    BY <1>1, <1>2 DEF Numbers, Numbered, Counted, Elder, Journaled, Sorted, NeverSkipped, Written
  <2>6. Windowed' /\ Prompt'
    BY <1>1, <1>2 DEF Windowed, OfItsTime, Prompt
  <2>7. ByServer'
    <3>1. SUFFICES ASSUME dated = "server" PROVE Sunk' /\ Coming' /\ Latest' /\ Ahead'
      BY <1>1 DEF ByServer
    <3>2. Sunk /\ Coming /\ Latest /\ Ahead
      BY <1>2, <3>1 DEF ByServer
    <3>3. ASSUME NEW d, Behind(d) PROVE ws'.cursor <= d
      BY <2>2, <2>3, <3>3 DEF Behind
    <3>4. Sunk'
      <4>1. Behind(now)'
        <5>1. Behind(now)
          BY <3>2 DEF Sunk
        <5>2. ws'.cursor <= now
          BY <3>3, <5>1
        <5>3. QED
          BY <1>1, <5>1, <5>2 DEF Behind
      <4>2. sink.lastT # Never => Behind(sink.lastT)'
        <5>1. SUFFICES ASSUME sink.lastT # Never PROVE Behind(sink.lastT)'
          OBVIOUS
        <5>2. Behind(sink.lastT)
          BY <3>2, <5>1 DEF Sunk
        <5>3. ws'.cursor <= sink.lastT
          BY <3>3, <5>2
        <5>4. QED
          BY <1>1, <5>2, <5>3 DEF Behind
      <4>3. QED
        BY <1>1, <3>2, <4>1, <4>2 DEF Sunk, Rising, Grid
    <3>5. Coming'
      <4>1. ASSUME pending # <<>>, ~pending[1].first PROVE AheadOfAll(pending[1].t)'
        <5>1. AheadOfAll(pending[1].t)
          BY <3>2, <4>1 DEF Coming
        <5>2. ws'.cursor < pending[1].t
          BY <2>2, <2>3, <5>1 DEF AheadOfAll
        <5>3. QED
          BY <1>1, <5>1, <5>2 DEF AheadOfAll
      <4>2. QED
        BY <1>1, <3>2, <4>1 DEF Coming
    <3>6. last = Newest
      <4>1. j = Len(buf)
        <5>1. CASE j < Len(buf)
          <6>1. Len(buf) \in 1..Len(buf)
            BY <1>3, <5>1
          <6>2. buf[j].t < buf[Len(buf)].t
            BY <3>2, <5>1, <6>1 DEF Sunk, Rising
          <6>3. buf[j].t \in Int /\ buf[j].t = buf[Len(buf)].t
            BY <1>3, <2>1, <2>2 DEF Dates, Newest
          <6>4. QED
            BY <6>2, <6>3
        <5>2. QED
          BY <1>3, <5>1
      <4>2. QED
        BY <2>2, <4>1 DEF Newest
    <3>7. Latest'
      <4>1. ws'.got[1].n = Newest.n
        BY <2>3, <3>6
      <4>2. QED
        BY <1>1, <3>2, <4>1 DEF Latest, Newest
    <3>8. Ahead'
      BY <1>1, <3>2 DEF Ahead
    <3>9. QED
      BY <3>4, <3>5, <3>7, <3>8
  <2>8. QED
    BY <2>4, <2>5, <2>6, <2>7 DEF DInv
<1>12. QED
  BY <1>10, <1>11

-----------------------------------------------------------------------------
LEMMA StutterKeeps == DInv /\ UNCHANGED vars => DInv'
<1> SUFFICES ASSUME DInv, UNCHANGED vars PROVE DInv'
  OBVIOUS
<1>1. UNCHANGED <<now, dated, sink, pending, buf, rec, ws, count, behind, offered>>
  BY DEF vars
<1>2. Typed /\ Numbers /\ Journaled /\ Windowed /\ Prompt /\ ByServer
  BY DEF DInv
<1>3. Typed' /\ Numbers' /\ Journaled'
  BY <1>1, <1>2 DEF Typed, Numbers, Numbered, Counted, Elder, Journaled, Sorted, NeverSkipped, Written
<1>4. Windowed' /\ Prompt'
  BY <1>1, <1>2 DEF Windowed, OfItsTime, Prompt
<1>5. ByServer'
  BY <1>1, <1>2 DEF ByServer, Sunk, Rising, Behind, Grid, Coming, AheadOfAll, Latest, Newest, Ahead
<1>6. QED
  BY <1>3, <1>4, <1>5 DEF DInv

LEMMA StepKeeps == DInv /\ [Next]_vars => DInv'
<1> SUFFICES ASSUME DInv, [Next]_vars PROVE DInv'
  OBVIOUS
<1>1. ASSUME NEW v \in Values, NEW skew \in Skews \cup {NoDate}, Publish(v, skew) PROVE DInv'
  BY <1>1, PublishKeeps
<1>2. QED
  BY <1>1, PushKeeps, ReconfigureKeeps, RecStartKeeps, RecFlushKeeps, WsSubKeeps, WsFlushKeeps,
     TickKeeps, StutterKeeps DEF Next

-----------------------------------------------------------------------------
(* What the invariant gives.                                               *)
LEMMA FaithfulFrom == DInv => JournalFaithful
<1> SUFFICES ASSUME DInv PROVE JournalFaithful
  OBVIOUS
<1>1. Typed /\ Numbers /\ Journaled
  BY DEF DInv
<1>2. buf \in Seq(Sample) /\ Dates(buf) /\ Sorted(buf) /\ rec.got \in Seq(Sample) /\ ws.got \in Seq(Sample)
      /\ rec.cursor \in Int /\ ws.cursor \in Int
  BY <1>1, TypedFacts DEF Typed
<1>3. \A q \in Seq(Sample) : DOMAIN q = 1..Len(q) /\ \A i \in DOMAIN q : q[i] \in Sample
  OBVIOUS
<1>4. TypeOK
  <2>1. \A r \in {rec, ws} : r.on \in BOOLEAN /\ r.from \in Int /\ r.cursor \in Int /\ r.readAt \in 0..MaxTime
                             /\ \A i \in DOMAIN r.got : r.got[i] \in Sample
    BY <1>1, <1>2, <1>3 DEF Typed, Reader
  <2>2. \A i \in DOMAIN pending : pending[i] \in Sample
    BY <1>1, <1>3 DEF Typed
  <2>3. \A i \in DOMAIN buf : buf[i] \in Sample
    BY <1>2, <1>3
  <2>4. QED
    BY <1>1, <2>1, <2>2, <2>3 DEF Typed, TypeOK
<1>5. ReadsAreExact
  <2>1. ASSUME NEW since \in {rec.cursor, ws.cursor} \cup {buf[i].t : i \in DOMAIN buf}
        PROVE  \A i \in DOMAIN buf : buf[i].t > since <=> i > Bisect(buf, since)
    <3>1. since \in Int
      BY <1>2, <1>3 DEF Dates
    <3>2. CutsAt(buf, since, Bisect(buf, since))
      BY <1>2, <3>1, BisectCuts
    <3>3. QED
      BY <1>2, <1>3, <3>2 DEF CutsAt
  <2>2. QED
    BY <2>1 DEF ReadsAreExact
<1>6. JournalInOrder
  <2>1. ASSUME NEW i \in DOMAIN rec.got, NEW j \in DOMAIN rec.got, i < j
        PROVE  rec.got[i].t <= rec.got[j].t /\ rec.got[i].n # rec.got[j].n
    <3>1. i \in 1..Len(rec.got) /\ j \in 1..Len(rec.got) /\ i # j
      BY <1>2, <1>3, <2>1
    <3>2. QED
      BY <1>1, <2>1, <3>1 DEF Journaled, Sorted, Numbered
  <2>2. QED
    BY <2>1 DEF JournalInOrder
<1>7. NeverSkipped
  BY <1>1 DEF Journaled
<1>8. QED
  BY <1>4, <1>5, <1>6, <1>7 DEF JournalFaithful

LEMMA SoundFrom == DInv => DatesSound
<1> SUFFICES ASSUME DInv PROVE DatesSound
  OBVIOUS
<1>1. Typed /\ Windowed /\ ByServer
  BY DEF DInv
<1>2. buf \in Seq(Sample) /\ DOMAIN buf = 1..Len(buf)
  BY <1>1 DEF Typed
<1>3. InsideWindow
  BY <1>1, <1>2 DEF Windowed, OfItsTime, InsideWindow
<1>4. ServerDatesAhead
  BY <1>1, <1>2 DEF ByServer, Ahead, ServerDatesAhead
<1>5. LatestIsShown
  <2>1. SUFFICES ASSUME dated = "server", ws.got # <<>>, pending = <<>>, buf # <<>>,
                        Newest.t <= ws.cursor, ~Newest.first
                 PROVE  ws.got[1].n = Newest.n /\ Newest.v = offered
    BY DEF LatestIsShown
  <2>2. Sunk /\ Latest
    BY <1>1, <2>1 DEF ByServer
  <2>3. sink.lastT # Never
    BY <2>1, <2>2 DEF Sunk
  <2>4. QED
    BY <2>1, <2>2, <2>3 DEF Sunk, Latest
<1>6. QED
  BY <1>3, <1>4, <1>5 DEF DatesSound

(* A sample that the campaign has yet to write is not old: it stays.       *)
UnreadStays ==
  rec.on /\ buf' # << >> =>
    \A i \in DOMAIN buf : buf[i].t > rec.cursor => \E j \in DOMAIN buf' : buf'[j].n = buf[i].n

LEMMA KeptBy == DInv /\ [Next]_vars => UnreadStays
<1> SUFFICES ASSUME DInv, [Next]_vars, rec.on, buf' # <<>>,
                    NEW i \in DOMAIN buf, buf[i].t > rec.cursor
             PROVE  \E j \in DOMAIN buf' : buf'[j].n = buf[i].n
  BY DEF UnreadStays
<1>1. Typed /\ Prompt
  BY DEF DInv
<1>2. buf \in Seq(Sample) /\ DOMAIN buf = 1..Len(buf) /\ Dates(buf) /\ now \in Int /\ rec.readAt \in Int
  BY <1>1, TypedFacts DEF Typed
<1>3. CASE buf' = buf
  BY <1>3
<1>4. CASE Push
  <2>1. Pushed
    BY <1>4, PushedIs
  <2>2. buf[i].t \in Int /\ buf[i].t + Horizon >= rec.readAt + Lag /\ now - rec.readAt <= Lag
    BY <1>1, <1>2 DEF Prompt, Dates
  <2>3. Horizon \in Int /\ Lag \in Int
    BY DeliveryAssumption
  <2>4. buf[i].t >= now - Horizon
    BY <1>2, <2>2, <2>3
  <2>5. PICK j \in 1..Len(buf') : buf'[j] = buf[i]
    BY <1>2, <2>1, <2>4 DEF Pushed
  <2>6. j \in DOMAIN buf'
    <3>1. buf' \in Seq(Sample)
      BY <2>1 DEF Pushed
    <3>2. DOMAIN buf' = 1..Len(buf')
      BY <3>1
    <3>3. QED
      BY <3>2, <2>5
  <2>7. QED
    BY <2>5, <2>6
<1>5. CASE Reconfigure
  BY <1>5 DEF Reconfigure
<1>6. ~Push /\ ~Reconfigure => buf' = buf
  BY DEF Next, Publish, RecStart, RecFlush, WsSub, WsFlush, Tick, vars
<1>7. QED
  BY <1>3, <1>4, <1>5, <1>6

-----------------------------------------------------------------------------
(* The theorems.                                                           *)

(* The inductive invariant of the delivery: what the history, the sink, a  *)
(* campaign and a session know of each other's dates and numbers, whatever *)
(* the period, the horizon, the skew and the lateness of the threads.      *)
THEOREM DeliveryInvariant == Spec => []DInv
<1>1. Init => DInv
  BY InitInv
<1>2. DInv /\ [Next]_vars => DInv'
  BY StepKeeps
<1>3. QED
  BY <1>1, <1>2, PTL DEF Spec

(* The journal of a campaign is what the history held, in order, once each,*)
(* and passes over nothing but what was pushed behind it, while samples    *)
(* are inserted, trimmed and thinned, and configurations change.           *)
(* (LinkSink::publish, ProtocolSource::push and read, Recorder::flush)     *)
THEOREM JournalsAreFaithful == Spec => []JournalFaithful
  BY DeliveryInvariant, FaithfulFrom, PTL

(* A sample is dated within the skew or the period of its reading; those   *)
(* the server dates are never behind what was written, but for the first   *)
(* of a configuration; and a session that has read all shows the last      *)
(* value the driver offered. (horodate, snap_grid, read)                   *)
THEOREM DatesAreSound == Spec => []DatesSound
  BY DeliveryInvariant, SoundFrom, PTL

(* Making room never drops a sample that the campaign has yet to write.    *)
(* (the trimming of push, against the wake-ups of the recorder)            *)
THEOREM UnreadStaysInTheHistory == Spec => UnreadIsKept
<1>1. DInv /\ [Next]_vars => [UnreadStays]_vars
  BY KeptBy
<1>2. QED
  BY <1>1, DeliveryInvariant, PTL DEF Spec, UnreadIsKept, UnreadStays

-----------------------------------------------------------------------------
(* The dots of the campaigns.                                              *)

Campaigns == {Clean[n] : n \in Names}
CampAnswers == {<<>>, <<TRUE>>} \cup {<<list>> : list \in SUBSET Campaigns}
CampCalls == [op : {"start", "stop", "status", "boot"}, tab : Tabs \cup {None},
          name : Campaigns \cup {None}, answer : CampAnswers, good : BOOLEAN]

CampIsCommand(c) == c.op \in {"start", "stop"}

\* What call c is worth when the campaigns `list` run and the tabs are tb.
CampSound(c, list, tb) ==
  /\ c.tab # None => tb[c.tab] # None
  /\ CampIsCommand(c) => c.name \in Campaigns
  /\ CampIsCommand(c) /\ c.good = TRUE /\ c.tab # None => c.name = Clean[tb[c.tab].name]
  /\ c.good = TRUE /\ c.answer # <<>> =>
       /\ c.op = "start" => c.name \in list
       /\ c.op = "stop" => c.name \notin list
       /\ ~CampIsCommand(c) => c.answer[1] = list

CampTyped ==
  /\ running \subseteq Campaigns
  /\ tab \in [Tabs -> Ca!TabStates \cup {None}] /\ saved \in [Tabs -> Ca!TabStates \cup {None}]
  /\ online \in BOOLEAN
  /\ modal # None => modal \in Tabs /\ tab[modal] # None
  /\ sure \subseteq Tabs

CampAlike ==
  /\ \E t \in Tabs : tab[t] # None
  /\ \A t \in Tabs : saved[t] = None <=> tab[t] = None

CampHeard ==
  /\ posts \in Seq(CampCalls) /\ Len(posts) <= MaxCalls
  /\ \A i \in 1..Len(posts) : CampSound(posts[i], running, tab)

\* DotTells, by the value of the dot.
CampDots == \A t \in sure : tab[t] # None /\ tab[t].dest = "server" =>
          (tab[t].enabled = TRUE <=> Clean[tab[t].name] \in running)

CampInv == CampTyped /\ CampAlike /\ CampHeard /\ CampDots

-----------------------------------------------------------------------------
(* Sequences and tabs.                                                     *)

CampAmong(u, s) == \A j \in 1..Len(u) : \E k \in 1..Len(s) : u[j] = s[k]

\* A sequence without its element i has only elements of the sequence.
LEMMA CampRemoveAtIs ==
  ASSUME NEW S, NEW s \in Seq(S), NEW i \in 1..Len(s)
  PROVE  Ca!RemoveAt(s, i) \in Seq(S) /\ Len(Ca!RemoveAt(s, i)) = Len(s) - 1 /\ CampAmong(Ca!RemoveAt(s, i), s)
<1> DEFINE u == SubSeq(s, 1, i - 1)
           v == SubSeq(s, i + 1, Len(s))
<1>1. Ca!RemoveAt(s, i) = u \o v
  BY DEF Ca!RemoveAt
<1>2. u \in Seq(S) /\ Len(u) = i - 1 /\ \A j \in 1..i - 1 : u[j] = s[j]
  OBVIOUS
<1>3. v \in Seq(S) /\ Len(v) = Len(s) - i /\ \A j \in 1..Len(s) - i : v[j] = s[i + j]
  OBVIOUS
<1> HIDE DEF u, v
<1>4. u \o v \in Seq(S) /\ Len(u \o v) = Len(s) - 1
  BY <1>2, <1>3
<1>5. ASSUME NEW j \in 1..Len(s) - 1
      PROVE  \E k \in 1..Len(s) : (u \o v)[j] = s[k]
  <2>1. CASE j <= i - 1
    BY <1>2, <1>3, <2>1
  <2>2. CASE j > i - 1
    <3>1. (u \o v)[j] = v[j - (i - 1)]
      BY <1>2, <1>3, <2>2
    <3>2. j - (i - 1) \in 1..Len(s) - i /\ j + 1 \in 1..Len(s) /\ i + (j - (i - 1)) = j + 1
      BY <2>2
    <3>3. QED
      BY <1>3, <3>1, <3>2
  <2>3. j <= i - 1 \/ j > i - 1
    OBVIOUS
  <2>4. QED
    BY <2>1, <2>2, <2>3
<1>6. QED
  BY <1>1, <1>4, <1>5 DEF CampAmong

LEMMA CampCardinality == \A S : Ca!Cardinality(S) = Cardinality(S)
  BY DEF Ca!Cardinality, Cardinality

\* The elements of a finite set in some order.
LEMMA CampInOrder ==
  ASSUME NEW S, IsFiniteSet(S)
  PROVE  /\ Ca!SetToSeq(S) \in Seq(S) /\ Len(Ca!SetToSeq(S)) = Cardinality(S)
         /\ Cardinality(S) \in Nat
<1>1. Cardinality(S) \in Nat /\ Bijection(1..Cardinality(S), S) # {}
  BY FS_CardinalityType DEF ExistsBijection
<1>2. \E f \in [1..Cardinality(S) -> S] : Ca!IsInjective(f)
  BY <1>1 DEF Bijection, Injection, IsInjective, Ca!IsInjective
<1>3. Ca!SetToSeq(S) \in [1..Cardinality(S) -> S]
  BY <1>2, CampCardinality DEF Ca!SetToSeq
<1>4. QED
  BY <1>1, <1>3

\* A tab whose field is set is otherwise what it was.
LEMMA CampSetIs ==
  ASSUME CampTyped, NEW t \in Tabs, tab[t] # None,
         NEW f \in {"name", "dest", "enabled"}, NEW v, Ca!Set(t, f, v)
  PROVE  /\ \A x \in Tabs : x # t => tab'[x] = tab[x]
         /\ tab'[t] = [tab[t] EXCEPT ![f] = v]
         /\ tab[t] \in Ca!TabStates
         /\ f = "name" => tab'[t] = [name |-> v, dest |-> tab[t].dest, enabled |-> tab[t].enabled]
         /\ f = "dest" => tab'[t] = [name |-> tab[t].name, dest |-> v, enabled |-> tab[t].enabled]
         /\ f = "enabled" => tab'[t] = [name |-> tab[t].name, dest |-> tab[t].dest, enabled |-> v]
         /\ tab' = [tab EXCEPT ![t] = tab'[t]]
<1>1. tab' = [tab EXCEPT ![t] = [tab[t] EXCEPT ![f] = v]]
  BY DEF Ca!Set
<1>2. tab \in [Tabs -> Ca!TabStates \cup {None}]
  BY DEF CampTyped
<1>3. tab[t] \in Ca!TabStates
  BY <1>2
<1>4. tab'[t] = [tab[t] EXCEPT ![f] = v] /\ \A x \in Tabs : x # t => tab'[x] = tab[x]
  BY <1>1, <1>2
<1>5. tab' = [tab EXCEPT ![t] = tab'[t]]
  BY <1>1, <1>4
<1>6. /\ f = "name" => tab'[t] = [name |-> v, dest |-> tab[t].dest, enabled |-> tab[t].enabled]
      /\ f = "dest" => tab'[t] = [name |-> tab[t].name, dest |-> v, enabled |-> tab[t].enabled]
      /\ f = "enabled" => tab'[t] = [name |-> tab[t].name, dest |-> tab[t].dest, enabled |-> v]
  BY <1>3, <1>4 DEF Ca!TabStates
<1>7. QED
  BY <1>3, <1>4, <1>5, <1>6

-----------------------------------------------------------------------------
(* What the news are worth after a step.                                   *)

\* The tabs that are open stay, with their names.
CampNamesStay == \A x \in Tabs :
  /\ tab'[x] = None <=> tab[x] = None
  /\ tab[x] # None => tab'[x].name = tab[x].name

LEMMA CampSoundStays ==
  ASSUME CampNamesStay, NEW c \in CampCalls, NEW list, CampSound(c, list, tab)
  PROVE  CampSound(c, list, tab')
<1>1. c.tab # None => c.tab \in Tabs
  BY DEF CampCalls
<1>2. QED
  BY <1>1 DEF CampNamesStay, CampSound

\* The calls under way are as before, or fewer, and a call that left asks what
\* its tab is.
LEMMA CampHeardStays ==
  ASSUME CampHeard, CampNamesStay, running' = running,
         posts' \in Seq(CampCalls), Len(posts') <= MaxCalls,
         NEW c, CampSound(c, running, tab),
         \A j \in 1..Len(posts') : posts'[j] = c \/ \E k \in 1..Len(posts) : posts'[j] = posts[k]
  PROVE  CampHeard'
<1>1. ASSUME NEW j \in 1..Len(posts') PROVE CampSound(posts'[j], running, tab')
  <2>1. posts'[j] \in CampCalls
    OBVIOUS
  <2>2. CampSound(posts'[j], running, tab)
    BY DEF CampHeard
  <2>3. QED
    BY <2>1, <2>2, CampSoundStays
<1>2. QED
  BY <1>1 DEF CampHeard

\* What is asked is under way, with what was.
LEMMA CampAskedIs ==
  ASSUME CampHeard, NEW c \in CampCalls, Ca!Asked(c)
  PROVE  /\ posts' \in Seq(CampCalls) /\ Len(posts') <= MaxCalls
         /\ \A j \in 1..Len(posts') : posts'[j] = c \/ \E k \in 1..Len(posts) : posts'[j] = posts[k]
<1>1. posts \in Seq(CampCalls) /\ Len(posts) < MaxCalls /\ posts' = Append(posts, c)
  BY DEF CampHeard, Ca!Asked
<1>2. MaxCalls \in Nat /\ Len(posts) \in Nat
  BY <1>1, CampaignAssumption
<1>3. Len(posts') = Len(posts) + 1 /\ posts' \in Seq(CampCalls)
  BY <1>1
<1>4. \A j \in 1..Len(posts') : posts'[j] = IF j <= Len(posts) THEN posts[j] ELSE c
  BY <1>1, <1>3
<1>5. ASSUME NEW j \in 1..Len(posts'), posts'[j] # c
      PROVE  \E k \in 1..Len(posts) : posts'[j] = posts[k]
  <2>1. j \in 1..Len(posts) /\ posts'[j] = posts[j]
    BY <1>2, <1>3, <1>4, <1>5
  <2>2. QED
    BY <2>1
<1>6. Len(posts') <= MaxCalls
  BY <1>1, <1>2, <1>3
<1>7. QED
  BY <1>3, <1>5, <1>6

\* A call that leaves is sound, when its name is that of its tab.
LEMMA CampCallIs ==
  ASSUME CampTyped, NEW t \in Tabs, tab[t] # None
  PROVE  /\ Ca!Campaign(t) \in Campaigns
         /\ \A op \in {"start", "stop"} :
              /\ Ca!Call(op, t, Ca!Campaign(t)) \in CampCalls
              /\ CampSound(Ca!Call(op, t, Ca!Campaign(t)), running, tab)
         /\ Ca!Call("status", t, None) \in CampCalls /\ CampSound(Ca!Call("status", t, None), running, tab)
<1>1. tab[t].name \in Names
  BY DEF CampTyped, Ca!TabStates
<1>2. Ca!Campaign(t) \in Campaigns
  BY <1>1 DEF Ca!Campaign, Campaigns
<1>3. <<>> \in CampAnswers
  BY DEF CampAnswers
<1>4. ASSUME NEW op \in {"start", "stop"}
      PROVE  Ca!Call(op, t, Ca!Campaign(t)) \in CampCalls /\ CampSound(Ca!Call(op, t, Ca!Campaign(t)), running, tab)
  <2>1. Ca!Call(op, t, Ca!Campaign(t)) \in CampCalls
    BY <1>2, <1>3 DEF Ca!Call, CampCalls
  <2>2. CampSound(Ca!Call(op, t, Ca!Campaign(t)), running, tab)
    BY <1>2 DEF Ca!Call, CampSound, Ca!Campaign, CampIsCommand
  <2>3. QED
    BY <2>1, <2>2
<1>5. Ca!Call("status", t, None) \in CampCalls
  BY <1>3 DEF Ca!Call, CampCalls
<1>6. CampSound(Ca!Call("status", t, None), running, tab)
  BY DEF Ca!Call, CampSound, CampIsCommand
<1>7. QED
  BY <1>2, <1>4, <1>5, <1>6

-----------------------------------------------------------------------------
(* The steps of the page.                                                  *)

\* A command or a reading asked: nothing changes but the calls under way.
LEMMA CampAsksKeeps ==
  ASSUME CampInv, NEW c \in CampCalls, CampSound(c, running, tab), Ca!Asked(c),
         UNCHANGED <<running, tab, saved, online, modal, sure>>
  PROVE  CampInv'
<1>1. CampNamesStay
  BY DEF CampNamesStay
<1>2. CampHeard'
  BY <1>1, CampAskedIs, CampHeardStays DEF CampInv
<1>3. CampTyped' /\ CampAlike' /\ CampDots'
  BY DEF CampInv, CampTyped, CampAlike, CampDots
<1>4. QED
  BY <1>2, <1>3 DEF CampInv

\* A dot that changes at home, on a tab of the browser.
LEMMA CampHomeKeeps ==
  ASSUME CampInv, NEW t \in Tabs, tab[t] # None, tab[t].dest # "server", NEW b \in BOOLEAN,
         Ca!Set(t, "enabled", b), Ca!onChange, UNCHANGED <<running, online, modal, posts, sure>>
  PROVE  CampInv'
<1>1. CampTyped /\ CampAlike /\ CampHeard /\ CampDots
  BY DEF CampInv
<1>2. /\ \A x \in Tabs : x # t => tab'[x] = tab[x]
      /\ tab'[t] = [name |-> tab[t].name, dest |-> tab[t].dest, enabled |-> b]
      /\ tab[t] \in Ca!TabStates /\ tab' = [tab EXCEPT ![t] = tab'[t]]
  BY <1>1, CampSetIs
<1>3. tab'[t] \in Ca!TabStates /\ tab'[t] # None
  BY <1>2, CampaignAssumption DEF Ca!TabStates
<1>4. tab' \in [Tabs -> Ca!TabStates \cup {None}]
  BY <1>1, <1>2, <1>3 DEF CampTyped
<1>5. CampNamesStay
  BY <1>2, <1>3 DEF CampNamesStay
<1>6. CampHeard'
  <2>1. \A j \in 1..Len(posts) : CampSound(posts[j], running, tab')
    BY <1>1, <1>5, CampSoundStays DEF CampHeard
  <2>2. QED
    BY <1>1, <2>1 DEF CampHeard
<1>7. CampTyped'
  BY <1>1, <1>3, <1>4, <1>5 DEF CampTyped, Ca!onChange, CampNamesStay
<1>8. CampAlike'
  BY <1>1, <1>5 DEF CampAlike, Ca!onChange, CampNamesStay
<1>9. CampDots'
  <2>1. \A x \in sure' : x # t => x \in sure /\ tab'[x] = tab[x]
    BY <1>1, <1>2 DEF CampTyped
  <2>2. \A x \in sure' : x = t => tab'[x].dest # "server"
    BY <1>2
  <2>3. QED
    BY <1>1, <2>1, <2>2 DEF CampDots
<1>10. QED
  BY <1>6, <1>7, <1>8, <1>9 DEF CampInv

LEMMA CampCommandKeeps ==
  ASSUME CampInv, NEW t \in Tabs, Ca!startLogging(t) \/ Ca!stopLogging(t) \/ Ca!refresh(t)
  PROVE  CampInv'
<1>1. CampTyped /\ modal = t
  BY DEF CampInv, Ca!startLogging, Ca!stopLogging, Ca!refresh
<1>2. t # None
  BY CampaignAssumption
<1>3. tab[t] # None /\ tab[t] \in Ca!TabStates
  BY <1>1, <1>2 DEF CampTyped
<1>4. CASE Ca!startLogging(t)
  <2>1. CASE tab[t].dest = "browser"
    BY <1>3, <1>4, <2>1, CampHomeKeeps DEF Ca!startLogging
  <2>2. CASE tab[t].dest # "browser"
    BY <1>1, <1>3, <1>4, <2>2, CampCallIs, CampAsksKeeps DEF Ca!startLogging
  <2>3. QED
    BY <2>1, <2>2
<1>5. CASE Ca!stopLogging(t)
  <2>1. CASE tab[t].dest = "browser"
    BY <1>3, <1>5, <2>1, CampHomeKeeps DEF Ca!stopLogging
  <2>2. CASE tab[t].dest # "browser"
    BY <1>1, <1>3, <1>5, <2>2, CampCallIs, CampAsksKeeps DEF Ca!stopLogging
  <2>3. QED
    BY <2>1, <2>2
<1>6. CASE Ca!refresh(t)
  BY <1>1, <1>3, <1>6, CampCallIs, CampAsksKeeps DEF Ca!refresh
<1>7. QED
  BY <1>4, <1>5, <1>6

\* A tab whose destination is set: its dot is no longer that of a campaign, or
\* no longer sure.
LEMMA CampDestKeeps ==
  ASSUME CampInv, NEW t \in Tabs, tab[t] # None, NEW d \in {"browser", "server"},
         Ca!Set(t, "dest", d), saved' = tab' \/ saved' = saved,
         modal' = t, sure' \subseteq sure, d = "server" => t \notin sure',
         UNCHANGED <<running, online, posts>>
  PROVE  CampInv'
<1>1. CampTyped /\ CampAlike /\ CampHeard /\ CampDots
  BY DEF CampInv
<1>2. /\ \A x \in Tabs : x # t => tab'[x] = tab[x]
      /\ tab'[t] = [name |-> tab[t].name, dest |-> d, enabled |-> tab[t].enabled]
      /\ tab[t] \in Ca!TabStates /\ tab' = [tab EXCEPT ![t] = tab'[t]]
  BY <1>1, CampSetIs
<1>3. tab'[t] \in Ca!TabStates /\ tab'[t] # None
  BY <1>2, CampaignAssumption DEF Ca!TabStates
<1>4. tab' \in [Tabs -> Ca!TabStates \cup {None}]
  BY <1>1, <1>2, <1>3 DEF CampTyped
<1>5. CampNamesStay
  BY <1>2, <1>3 DEF CampNamesStay
<1>6. CampHeard'
  <2>1. \A j \in 1..Len(posts) : CampSound(posts[j], running, tab')
    BY <1>1, <1>5, CampSoundStays DEF CampHeard
  <2>2. QED
    BY <1>1, <2>1 DEF CampHeard
<1>7. CampTyped'
  BY <1>1, <1>3, <1>4, <1>5 DEF CampTyped, CampNamesStay
<1>8. CampAlike'
  BY <1>1, <1>5 DEF CampAlike, CampNamesStay
<1>9. CampDots'
  <2>1. \A x \in sure' : x # t => x \in sure /\ tab'[x] = tab[x]
    BY <1>1, <1>2 DEF CampTyped
  <2>2. \A x \in sure' : x = t => tab'[x].dest # "server"
    BY <1>2
  <2>3. QED
    BY <1>1, <2>1, <2>2 DEF CampDots
<1>10. QED
  BY <1>6, <1>7, <1>8, <1>9 DEF CampInv

LEMMA CampWindowKeeps ==
  ASSUME CampInv, NEW t \in Tabs, Ca!openLogModal(t) \/ Ca!ChangeDest(t) \/ Ca!Close
  PROVE  CampInv'
<1>1. CampTyped /\ t # None
  BY CampaignAssumption DEF CampInv
<1>2. CASE Ca!openLogModal(t) /\ ~online
  BY <1>2, CampDestKeeps DEF Ca!openLogModal, Ca!IsOpen
<1>3. CASE Ca!ChangeDest(t)
  <2>1. tab[t] # None /\ modal' = t /\ sure' \subseteq sure /\ t \notin sure'
    BY <1>1, <1>3 DEF CampTyped, Ca!ChangeDest
  <2>2. PICK d \in {"browser", "server"} : Ca!Set(t, "dest", d)
    BY <1>3 DEF Ca!ChangeDest
  <2>3. QED
    BY <1>3, <2>1, <2>2, CampDestKeeps DEF Ca!ChangeDest, Ca!onChange
<1>4. CASE (Ca!openLogModal(t) /\ online) \/ Ca!Close
  <2>1. /\ UNCHANGED <<running, tab, saved, online, posts, sure>>
        /\ modal' # None => modal' \in Tabs /\ tab[modal'] # None
    BY <1>4 DEF Ca!openLogModal, Ca!Close, Ca!IsOpen
  <2>2. QED
    BY <2>1 DEF CampInv, CampTyped, CampAlike, CampHeard, CampDots
<1>5. QED
  BY <1>2, <1>3, <1>4

LEMMA CampSeqIs ==
  ASSUME NEW S, NEW n \in Nat, NEW s, s = [i \in 1..n |-> s[i]], \A i \in 1..n : s[i] \in S
  PROVE  s \in Seq(S) /\ Len(s) = n
  OBVIOUS

\* The commands under way on a tab that takes another name are no longer good.
LEMMA CampOutdatedIs ==
  ASSUME NEW c \in CampCalls, NEW t
  PROVE  /\ Ca!Outdated(c, t) \in CampCalls
         /\ Ca!Outdated(c, t).op = c.op /\ Ca!Outdated(c, t).tab = c.tab
         /\ Ca!Outdated(c, t).name = c.name /\ Ca!Outdated(c, t).answer = c.answer
         /\ Ca!Outdated(c, t).good = TRUE => c.good = TRUE /\ (CampIsCommand(c) => c.tab # t)
<1>1. CASE c.tab = t /\ CampIsCommand(c)
  BY <1>1 DEF Ca!Outdated, CampIsCommand, CampCalls
<1>2. CASE ~(c.tab = t /\ CampIsCommand(c))
  BY <1>2 DEF Ca!Outdated, CampIsCommand, CampCalls
<1>3. QED
  BY <1>1, <1>2

LEMMA CampRenameKeeps ==
  ASSUME CampInv, NEW t \in Tabs, NEW n \in Names, Ca!startRename(t, n)
  PROVE  CampInv'
<1>1. CampTyped /\ CampAlike /\ CampHeard /\ CampDots
  BY DEF CampInv
<1>2. /\ tab[t] # None /\ Ca!Set(t, "name", n) /\ saved' = tab' /\ sure' = sure \ {t}
      /\ posts' = [i \in DOMAIN posts |-> Ca!Outdated(posts[i], t)]
      /\ modal = None /\ UNCHANGED <<running, online, modal>>
  BY DEF Ca!startRename, Ca!IsOpen, Ca!onChange
<1>3. /\ \A x \in Tabs : x # t => tab'[x] = tab[x]
      /\ tab'[t] = [name |-> n, dest |-> tab[t].dest, enabled |-> tab[t].enabled]
      /\ tab[t] \in Ca!TabStates /\ tab' = [tab EXCEPT ![t] = tab'[t]]
  BY <1>1, <1>2, CampSetIs
<1>4. tab'[t] \in Ca!TabStates /\ tab'[t] # None
  BY <1>3, CampaignAssumption DEF Ca!TabStates
<1>5. tab' \in [Tabs -> Ca!TabStates \cup {None}]
  BY <1>1, <1>3, <1>4 DEF CampTyped
<1>6. posts \in Seq(CampCalls) /\ Len(posts) \in Nat /\ DOMAIN posts = 1..Len(posts)
  BY <1>1 DEF CampHeard
<1>7. \A i \in 1..Len(posts) : posts'[i] = Ca!Outdated(posts[i], t) /\ posts[i] \in CampCalls
  BY <1>2, <1>6
<1>8. posts' \in Seq(CampCalls) /\ Len(posts') = Len(posts)
  <2>1. posts' = [i \in 1..Len(posts) |-> posts'[i]]
    BY <1>2, <1>6
  <2>2. \A i \in 1..Len(posts) : posts'[i] \in CampCalls
    <3>1. ASSUME NEW i \in 1..Len(posts) PROVE posts'[i] \in CampCalls
      <4>1. posts[i] \in CampCalls /\ posts'[i] = Ca!Outdated(posts[i], t)
        BY <1>7
      <4>2. Ca!Outdated(posts[i], t) \in CampCalls
        BY <4>1, CampOutdatedIs, Zenon
      <4>3. QED
        BY <4>1, <4>2, Zenon
    <3>2. QED
      BY <3>1
  <2>3. QED
    BY <1>6, <2>1, <2>2, CampSeqIs
<1>9. ASSUME NEW i \in 1..Len(posts) PROVE CampSound(posts'[i], running, tab')
  <2>1. posts[i] \in CampCalls /\ posts'[i] = Ca!Outdated(posts[i], t) /\ CampSound(posts[i], running, tab)
    BY <1>1, <1>7 DEF CampHeard
  <2>2. posts[i].tab # None => posts[i].tab \in Tabs
    BY <2>1 DEF CampCalls
  <2>3. /\ posts'[i].op = posts[i].op /\ posts'[i].tab = posts[i].tab
        /\ posts'[i].name = posts[i].name /\ posts'[i].answer = posts[i].answer
        /\ posts'[i].good = TRUE => posts[i].good = TRUE /\ (CampIsCommand(posts[i]) => posts[i].tab # t)
    <3>1. /\ Ca!Outdated(posts[i], t).op = posts[i].op /\ Ca!Outdated(posts[i], t).tab = posts[i].tab
          /\ Ca!Outdated(posts[i], t).name = posts[i].name /\ Ca!Outdated(posts[i], t).answer = posts[i].answer
          /\ Ca!Outdated(posts[i], t).good = TRUE =>
               posts[i].good = TRUE /\ (CampIsCommand(posts[i]) => posts[i].tab # t)
      BY <2>1, CampOutdatedIs, Zenon
    <3>2. QED
      BY <2>1, <3>1, Zenon
  <2>4. CampIsCommand(posts'[i]) <=> CampIsCommand(posts[i])
    BY <2>3 DEF CampIsCommand
  <2>5. posts'[i].tab # None => tab'[posts'[i].tab] # None
    BY <1>3, <1>4, <2>1, <2>2, <2>3 DEF CampSound
  <2>6. CampIsCommand(posts'[i]) => posts'[i].name \in Campaigns
    BY <2>1, <2>3, <2>4 DEF CampSound
  <2>7. CampIsCommand(posts'[i]) /\ posts'[i].good = TRUE /\ posts'[i].tab # None =>
          posts'[i].name = Clean[tab'[posts'[i].tab].name]
    BY <1>3, <2>1, <2>2, <2>3, <2>4 DEF CampSound
  <2>8. posts'[i].good = TRUE /\ posts'[i].answer # <<>> =>
          /\ posts'[i].op = "start" => posts'[i].name \in running
          /\ posts'[i].op = "stop" => posts'[i].name \notin running
          /\ ~CampIsCommand(posts'[i]) => posts'[i].answer[1] = running
    BY <2>1, <2>3, <2>4 DEF CampSound
  <2>9. QED
    BY <2>5, <2>6, <2>7, <2>8 DEF CampSound
<1>10. CampHeard'
  BY <1>1, <1>2, <1>8, <1>9 DEF CampHeard
<1>11. CampTyped'
  BY <1>1, <1>2, <1>5 DEF CampTyped
<1>12. CampAlike'
  BY <1>1, <1>2, <1>3, <1>4 DEF CampAlike
<1>13. CampDots'
  <2>1. \A x \in sure' : x \in sure /\ tab'[x] = tab[x]
    BY <1>1, <1>2, <1>3 DEF CampTyped
  <2>2. QED
    BY <1>1, <1>2, <2>1 DEF CampDots
<1>14. QED
  BY <1>10, <1>11, <1>12, <1>13 DEF CampInv

LEMMA CampCreateKeeps ==
  ASSUME CampInv, NEW t \in Tabs, NEW n \in Names, Ca!createTab(t, n)
  PROVE  CampInv'
<1>1. CampTyped /\ CampAlike /\ CampHeard /\ CampDots
  BY DEF CampInv
<1>2. /\ tab[t] = None /\ tab' = [tab EXCEPT ![t] = Ca!Fresh(n)] /\ saved' = tab'
      /\ modal = None /\ UNCHANGED <<running, online, modal, posts, sure>>
  BY DEF Ca!createTab, Ca!IsOpen, Ca!onChange
<1>3. Ca!Fresh(n) \in Ca!TabStates /\ Ca!Fresh(n) # None /\ Ca!Fresh(n).dest = "browser"
  <2>1. Ca!Fresh(n) \in Ca!TabStates /\ Ca!Fresh(n).dest = "browser"
    BY DEF Ca!Fresh, Ca!TabStates
  <2>2. QED
    BY <2>1, CampaignAssumption
<1>4. /\ tab' \in [Tabs -> Ca!TabStates \cup {None}] /\ tab'[t] = Ca!Fresh(n)
      /\ \A x \in Tabs : x # t => tab'[x] = tab[x]
  BY <1>1, <1>2, <1>3 DEF CampTyped
<1>5. ASSUME NEW i \in 1..Len(posts) PROVE CampSound(posts[i], running, tab')
  <2>1. posts[i] \in CampCalls /\ CampSound(posts[i], running, tab)
    BY <1>1 DEF CampHeard
  <2>2. posts[i].tab # None => posts[i].tab \in Tabs /\ posts[i].tab # t
    BY <1>2, <2>1 DEF CampCalls, CampSound
  <2>3. posts[i].tab # None => tab'[posts[i].tab] = tab[posts[i].tab]
    BY <1>4, <2>2
  <2>4. QED
    BY <2>1, <2>3 DEF CampSound
<1>6. CampHeard'
  BY <1>1, <1>2, <1>5 DEF CampHeard
<1>7. CampTyped'
  BY <1>1, <1>2, <1>4 DEF CampTyped
<1>8. CampAlike'
  BY <1>1, <1>2, <1>3, <1>4 DEF CampAlike
<1>9. CampDots'
  <2>1. \A x \in sure' : x # t => x \in sure /\ tab'[x] = tab[x]
    BY <1>1, <1>2, <1>4 DEF CampTyped
  <2>2. \A x \in sure' : x = t => tab'[x].dest # "server"
    BY <1>3, <1>4
  <2>3. QED
    BY <1>1, <1>2, <2>1, <2>2 DEF CampDots
<1>10. QED
  BY <1>6, <1>7, <1>8, <1>9 DEF CampInv

LEMMA CampCloseTabKeeps ==
  ASSUME CampInv, NEW t \in Tabs, Ca!closeTab(t)
  PROVE  CampInv'
<1>1. CampTyped /\ CampAlike /\ CampHeard /\ CampDots
  BY DEF CampInv
<1>2. /\ \E x \in Tabs : x # t /\ tab[x] # None
      /\ tab' = [tab EXCEPT ![t] = None] /\ saved' = tab' /\ sure' = sure \ {t}
      /\ posts' = [i \in DOMAIN posts |->
            IF posts[i].tab = t THEN [posts[i] EXCEPT !.tab = None] ELSE posts[i]]
      /\ modal = None /\ UNCHANGED <<running, online, modal>>
  BY DEF Ca!closeTab, Ca!IsOpen, Ca!onChange
<1>3. /\ tab' \in [Tabs -> Ca!TabStates \cup {None}] /\ tab'[t] = None
      /\ \A x \in Tabs : x # t => tab'[x] = tab[x]
  BY <1>1, <1>2 DEF CampTyped
<1>4. posts \in Seq(CampCalls) /\ Len(posts) \in Nat /\ DOMAIN posts = 1..Len(posts)
  BY <1>1 DEF CampHeard
<1>5. ASSUME NEW i \in 1..Len(posts)
      PROVE  /\ posts[i] \in CampCalls /\ posts'[i] \in CampCalls
             /\ posts'[i].op = posts[i].op /\ posts'[i].name = posts[i].name
             /\ posts'[i].answer = posts[i].answer /\ posts'[i].good = posts[i].good
             /\ posts'[i].tab = IF posts[i].tab = t THEN None ELSE posts[i].tab
  <2>1. posts[i] \in CampCalls
    BY <1>4
  <2>2. posts'[i] = IF posts[i].tab = t THEN [posts[i] EXCEPT !.tab = None] ELSE posts[i]
    BY <1>2, <1>4
  <2>3. QED
    BY <2>1, <2>2 DEF CampCalls
<1>6. posts' \in Seq(CampCalls) /\ Len(posts') = Len(posts)
  BY <1>2, <1>4, <1>5, CampSeqIs
<1>7. ASSUME NEW i \in 1..Len(posts) PROVE CampSound(posts'[i], running, tab')
  <2>1. CampSound(posts[i], running, tab)
    BY <1>1 DEF CampHeard
  <2>2. posts'[i].tab # None =>
          posts'[i].tab = posts[i].tab /\ posts[i].tab \in Tabs /\ tab'[posts'[i].tab] = tab[posts[i].tab]
    BY <1>3, <1>5 DEF CampCalls
  <2>3. CampIsCommand(posts'[i]) <=> CampIsCommand(posts[i])
    BY <1>5 DEF CampIsCommand
  <2>4. QED
    BY <1>5, <2>1, <2>2, <2>3 DEF CampSound
<1>8. CampHeard'
  BY <1>1, <1>2, <1>6, <1>7 DEF CampHeard
<1>9. CampTyped'
  BY <1>1, <1>2, <1>3 DEF CampTyped
<1>10. CampAlike'
  BY <1>1, <1>2, <1>3 DEF CampAlike
<1>11. CampDots'
  <2>1. \A x \in sure' : x \in sure /\ tab'[x] = tab[x]
    BY <1>1, <1>2, <1>3 DEF CampTyped
  <2>2. QED
    BY <1>1, <1>2, <2>1 DEF CampDots
<1>12. QED
  BY <1>8, <1>9, <1>10, <1>11 DEF CampInv

-----------------------------------------------------------------------------
(* The controller.                                                         *)

\* Of what is answered, the news that stay good are about another campaign.
CampAgedFrom(c, d, n) ==
  /\ c.op = d.op /\ c.tab = d.tab /\ c.name = d.name /\ c.answer = d.answer
  /\ d.answer = <<>> => c = d
  /\ c.good = TRUE => d.good = TRUE /\ (d.answer # <<>> => CampIsCommand(d) /\ d.name # n)

LEMMA CampAgedIs ==
  ASSUME NEW s \in Seq(CampCalls), NEW n
  PROVE  /\ Ca!Aged(s, n) \in Seq(CampCalls) /\ Len(Ca!Aged(s, n)) = Len(s)
         /\ \A i \in 1..Len(s) : CampAgedFrom(Ca!Aged(s, n)[i], s[i], n)
<1> DEFINE u == Ca!Aged(s, n)
           Old(c) == c.answer # <<>> /\ (c.op \in {"status", "boot"} \/ c.name = n)
<1>1. u = [i \in 1..Len(s) |-> IF Old(s[i]) THEN [s[i] EXCEPT !.good = FALSE] ELSE s[i]]
  BY DEF Ca!Aged
<1>2. ASSUME NEW i \in 1..Len(s)
      PROVE  u[i] \in CampCalls /\ CampAgedFrom(u[i], s[i], n)
  <2>1. s[i] \in CampCalls
    OBVIOUS
  <2>2. u[i] = IF Old(s[i]) THEN [s[i] EXCEPT !.good = FALSE] ELSE s[i]
    BY <1>1
  <2>3. CASE Old(s[i])
    BY <2>1, <2>2, <2>3 DEF CampCalls, CampAgedFrom
  <2>4. CASE ~Old(s[i])
    BY <2>1, <2>2, <2>4 DEF CampCalls, CampIsCommand, CampAgedFrom
  <2>5. QED
    BY <2>3, <2>4
<1>3. u \in Seq(CampCalls) /\ Len(u) = Len(s)
  <2>1. u = [i \in 1..Len(s) |-> u[i]]
    BY <1>1
  <2> HIDE DEF u
  <2>2. Len(s) \in Nat
    OBVIOUS
  <2>3. \A i \in 1..Len(s) : u[i] \in CampCalls
    BY <1>2
  <2>4. QED
    BY <2>1, <2>2, <2>3, CampSeqIs
<1>4. QED
  BY <1>2, <1>3

\* When a campaign starts or stops, what is still good is about another.
LEMMA CampAgedSound ==
  ASSUME CampHeard, NEW n, NEW list, \A m : m # n => (m \in running <=> m \in list),
         NEW i \in 1..Len(posts)
  PROVE  CampSound(Ca!Aged(posts, n)[i], list, tab)
<1>1. posts \in Seq(CampCalls) /\ CampSound(posts[i], running, tab)
  BY DEF CampHeard
<1> DEFINE c == Ca!Aged(posts, n)[i]
<1>2. CampAgedFrom(c, posts[i], n)
  BY <1>1, CampAgedIs
<1> HIDE DEF c
<1>3. CampIsCommand(c) <=> CampIsCommand(posts[i])
  BY <1>2 DEF CampAgedFrom, CampIsCommand
<1>4. CampSound(c, list, tab)
  BY <1>1, <1>2, <1>3 DEF CampAgedFrom, CampSound
<1>5. QED
  BY <1>4 DEF c

\* The dots of the other campaigns.
LEMMA CampChangedDots ==
  ASSUME CampDots, NEW n, Ca!Changed(n), tab' = tab,
         \A m : m # n => (m \in running <=> m \in running')
  PROVE  CampDots' /\ sure' \subseteq sure
<1>1. sure' = {t \in sure : Clean[tab[t].name] # n}
  BY DEF Ca!Changed, Ca!Campaign
<1>2. QED
  BY <1>1 DEF CampDots

LEMMA CampElsewhereKeeps ==
  ASSUME CampInv, Ca!Elsewhere
  PROVE  CampInv'
<1>1. CampTyped /\ CampAlike /\ CampHeard /\ CampDots
  BY DEF CampInv
<1>2. PICK n \in Campaigns :
        /\ running' = IF n \in running THEN running \ {n} ELSE running \cup {n}
        /\ posts' = Ca!Aged(posts, n) /\ Ca!Changed(n)
  BY DEF Ca!Elsewhere, Campaigns
<1>3. UNCHANGED <<tab, saved, online, modal>>
  BY DEF Ca!Elsewhere
<1>4. \A m : m # n => (m \in running <=> m \in running')
  BY <1>2
<1>5. CampDots' /\ sure' \subseteq sure
  BY <1>1, <1>2, <1>3, <1>4, CampChangedDots
<1>6. running' \subseteq Campaigns
  BY <1>1, <1>2 DEF CampTyped
<1>7. posts' \in Seq(CampCalls) /\ Len(posts') = Len(posts)
  BY <1>1, <1>2, CampAgedIs DEF CampHeard
<1>8. \A i \in 1..Len(posts) : CampSound(posts'[i], running', tab)
  BY <1>1, <1>2, <1>4, CampAgedSound
<1>9. CampHeard'
  BY <1>1, <1>3, <1>7, <1>8 DEF CampHeard
<1>10. CampTyped' /\ CampAlike'
  BY <1>1, <1>3, <1>5, <1>6 DEF CampTyped, CampAlike
<1>11. QED
  BY <1>5, <1>9, <1>10 DEF CampInv

\* A command obeyed and answered.
LEMMA CampObeyedKeeps ==
  ASSUME CampInv, NEW i \in DOMAIN posts, Ca!Started(i) \/ Ca!Stopped(i)
  PROVE  CampInv'
<1>1. CampTyped /\ CampAlike /\ CampHeard /\ CampDots
  BY DEF CampInv
<1> DEFINE n == posts[i].name
           u == Ca!Aged(posts, n)
<1>2. /\ posts[i].op \in {"start", "stop"} /\ posts[i].answer = <<>>
      /\ running' = IF posts[i].op = "start" THEN running \cup {n} ELSE running \ {n}
      /\ posts' = Ca!With(i, TRUE, u) /\ Ca!Changed(n)
      /\ UNCHANGED <<tab, saved, online, modal>>
  BY DEF Ca!Started, Ca!Stopped
<1>3. posts \in Seq(CampCalls) /\ i \in 1..Len(posts) /\ posts[i] \in CampCalls
  BY <1>1 DEF CampHeard
<1>4. /\ u \in Seq(CampCalls) /\ Len(u) = Len(posts) /\ u[i] = posts[i]
  BY <1>2, <1>3, CampAgedIs DEF CampAgedFrom
<1>5. \A m : m # n => (m \in running <=> m \in running')
  BY <1>2
<1>6. \A j \in 1..Len(posts) : CampSound(u[j], running', tab)
  BY <1>1, <1>5, CampAgedSound
<1> HIDE DEF u
<1>7. posts' = [u EXCEPT ![i].answer = <<TRUE>>]
  BY <1>2 DEF Ca!With
<1>8. posts'[i] = [u[i] EXCEPT !.answer = <<TRUE>>]
  BY <1>3, <1>4, <1>7
<1>9. /\ posts'[i] \in CampCalls /\ posts'[i].op = posts[i].op /\ posts'[i].tab = posts[i].tab
      /\ posts'[i].name = n /\ posts'[i].good = posts[i].good
  BY <1>3, <1>4, <1>8 DEF CampCalls, CampAnswers
<1>10. posts' = [u EXCEPT ![i] = posts'[i]]
  BY <1>3, <1>4, <1>7, <1>8
<1>11. posts' \in Seq(CampCalls) /\ Len(posts') = Len(posts)
  BY <1>3, <1>4, <1>9, <1>10
<1>12. \A j \in 1..Len(posts) : j # i => posts'[j] = u[j]
  BY <1>3, <1>4, <1>10
<1>13. CampSound(posts'[i], running', tab)
  <2>1. CampSound(posts[i], running, tab)
    BY <1>1, <1>3 DEF CampHeard
  <2>2. CampIsCommand(posts[i]) /\ CampIsCommand(posts'[i])
    BY <1>2, <1>9 DEF CampIsCommand
  <2>3. posts'[i].op = "start" => n \in running'
    BY <1>2, <1>9
  <2>4. posts'[i].op = "stop" => n \notin running'
    BY <1>2, <1>9
  <2>5. QED
    BY <1>9, <2>1, <2>2, <2>3, <2>4 DEF CampSound
<1>14. CampHeard'
  BY <1>1, <1>2, <1>6, <1>11, <1>12, <1>13 DEF CampHeard
<1>15. CampDots' /\ sure' \subseteq sure
  BY <1>1, <1>2, <1>5, CampChangedDots
<1>16. n \in Campaigns
  BY <1>1, <1>2, <1>3 DEF CampHeard, CampSound, CampIsCommand
<1>17. CampTyped' /\ CampAlike'
  BY <1>1, <1>2, <1>15, <1>16 DEF CampTyped, CampAlike
<1>18. QED
  BY <1>14, <1>15, <1>17 DEF CampInv

LEMMA CampListedKeeps ==
  ASSUME CampInv, NEW i \in DOMAIN posts, Ca!Listed(i)
  PROVE  CampInv'
<1>1. CampTyped /\ CampAlike /\ CampHeard /\ CampDots
  BY DEF CampInv
<1>2. /\ posts[i].op \in {"status", "boot"}
      /\ posts' = [posts EXCEPT ![i].answer = <<running>>]
      /\ UNCHANGED <<running, tab, saved, online, modal, sure>>
  BY DEF Ca!Listed, Ca!With
<1>3. posts \in Seq(CampCalls) /\ i \in 1..Len(posts) /\ posts[i] \in CampCalls
  BY <1>1 DEF CampHeard
<1>4. posts'[i] = [posts[i] EXCEPT !.answer = <<running>>]
  BY <1>2, <1>3
<1>5. <<running>> \in CampAnswers
  BY <1>1 DEF CampTyped, CampAnswers
<1>6. /\ posts'[i] \in CampCalls /\ posts'[i].op = posts[i].op /\ posts'[i].tab = posts[i].tab
      /\ posts'[i].answer = <<running>>
  BY <1>3, <1>4, <1>5 DEF CampCalls
<1>7. posts' = [posts EXCEPT ![i] = posts'[i]]
  BY <1>2, <1>3, <1>4
<1>8. posts' \in Seq(CampCalls) /\ Len(posts') = Len(posts)
  BY <1>3, <1>6, <1>7
<1>9. \A j \in 1..Len(posts) : j # i => posts'[j] = posts[j]
  BY <1>3, <1>7
<1>10. CampSound(posts'[i], running, tab)
  <2>1. ~CampIsCommand(posts'[i]) /\ (posts'[i].tab # None => tab[posts'[i].tab] # None)
    BY <1>1, <1>2, <1>3, <1>6 DEF CampHeard, CampSound, CampIsCommand
  <2>2. posts'[i].answer[1] = running /\ posts'[i].op \notin {"start", "stop"}
    BY <1>2, <1>6
  <2>3. QED
    BY <2>1, <2>2 DEF CampSound
<1>11. CampHeard'
  BY <1>1, <1>2, <1>8, <1>9, <1>10 DEF CampHeard
<1>12. CampTyped' /\ CampAlike' /\ CampDots'
  BY <1>1, <1>2 DEF CampTyped, CampAlike, CampDots
<1>13. QED
  BY <1>11, <1>12 DEF CampInv

-----------------------------------------------------------------------------
(* What the page does of an answer.                                        *)

\* A call that ended is under way no more.
LEMMA CampEndedKeeps ==
  ASSUME CampInv, NEW i \in DOMAIN posts, Ca!Ended(i), CampNamesStay, running' = running
  PROVE  CampHeard'
<1>1. posts \in Seq(CampCalls) /\ Len(posts) <= MaxCalls /\ i \in 1..Len(posts)
  BY DEF CampInv, CampHeard
<1>2. /\ posts' \in Seq(CampCalls) /\ Len(posts') = Len(posts) - 1
      /\ \A j \in 1..Len(posts') : \E k \in 1..Len(posts) : posts'[j] = posts[k]
  <2>1. posts' = Ca!RemoveAt(posts, i)
    BY DEF Ca!Ended
  <2>2. /\ Ca!RemoveAt(posts, i) \in Seq(CampCalls) /\ Len(Ca!RemoveAt(posts, i)) = Len(posts) - 1
        /\ CampAmong(Ca!RemoveAt(posts, i), posts)
    BY <1>1, CampRemoveAtIs
  <2>3. QED
    BY <2>1, <2>2 DEF CampAmong
<1>3. CampSound(posts[i], running, tab)
  BY <1>1 DEF CampInv, CampHeard
<1>4. Len(posts) \in Nat /\ Len(posts') <= MaxCalls
  BY <1>1, <1>2, CampaignAssumption
<1>5. QED
  BY <1>2, <1>3, <1>4, CampHeardStays DEF CampInv

CampRedotted(S, b) ==
  tab' = [x \in Tabs |-> IF x \in S THEN [tab[x] EXCEPT !.enabled = b[x]] ELSE tab[x]]

\* The tabs of which only the dots change.
LEMMA CampOnlyDots ==
  ASSUME CampInv, NEW S, S \subseteq Tabs, \A x \in S : tab[x] # None, NEW b \in [S -> BOOLEAN],
         CampRedotted(S, b), saved' = saved \/ saved' = tab', sure' \subseteq Tabs, running' \subseteq Campaigns,
         UNCHANGED <<online, modal>>
  PROVE  /\ CampNamesStay /\ CampTyped' /\ CampAlike'
         /\ \A x \in Tabs : tab[x] # None => tab'[x].dest = tab[x].dest
         /\ \A x \in S : tab'[x].enabled = b[x]
<1>1. /\ CampTyped /\ CampAlike
      /\ tab' = [x \in Tabs |-> IF x \in S THEN [tab[x] EXCEPT !.enabled = b[x]] ELSE tab[x]]
  BY DEF CampInv, CampRedotted
<1>2. ASSUME NEW x \in S
      PROVE  /\ x \in Tabs /\ tab'[x] \in Ca!TabStates /\ tab'[x].name = tab[x].name
             /\ tab'[x].dest = tab[x].dest /\ tab'[x].enabled = b[x]
  <2>1. x \in Tabs /\ tab[x] \in Ca!TabStates
    BY <1>1 DEF CampTyped
  <2>2. tab'[x] = [tab[x] EXCEPT !.enabled = b[x]] /\ b[x] \in BOOLEAN
    BY <1>1, <2>1
  <2>3. QED
    BY <2>1, <2>2 DEF Ca!TabStates
<1>3. ASSUME NEW x \in Tabs, x \notin S PROVE tab'[x] = tab[x]
  BY <1>1, <1>3
<1>4. ASSUME NEW x \in Tabs PROVE tab'[x] \in Ca!TabStates \cup {None}
  <2>1. CASE x \in S
    BY <1>2, <2>1
  <2>2. CASE x \notin S
    BY <1>1, <1>3, <2>2 DEF CampTyped
  <2>3. QED
    BY <2>1, <2>2
<1>5. \A x \in S : tab'[x] # None
  BY <1>2, CampaignAssumption
<1>6. tab' \in [Tabs -> Ca!TabStates \cup {None}]
  <2> DEFINE next(x) == IF x \in S THEN [tab[x] EXCEPT !.enabled = b[x]] ELSE tab[x]
  <2>1. tab' = [x \in Tabs |-> next(x)]
    BY <1>1
  <2> HIDE DEF next
  <2>2. \A x \in Tabs : next(x) \in Ca!TabStates \cup {None}
    BY <1>4, <2>1
  <2>3. QED
    BY <2>1, <2>2
<1>7. CampNamesStay
  <2>1. ASSUME NEW x \in Tabs
        PROVE  /\ tab'[x] = None <=> tab[x] = None
               /\ tab[x] # None => tab'[x].name = tab[x].name
    <3>1. CASE x \in S
      BY <1>2, <1>5, <3>1, Zenon
    <3>2. CASE x \notin S
      BY <1>3, <3>2, Zenon
    <3>3. QED
      BY <3>1, <3>2
  <2>2. QED
    BY <2>1 DEF CampNamesStay
<1>8. CampTyped'
  BY <1>1, <1>6, <1>7 DEF CampTyped, CampNamesStay
<1>9. CampAlike'
  BY <1>1, <1>7 DEF CampAlike, CampNamesStay
<1>10. ASSUME NEW x \in Tabs PROVE tab'[x].dest = tab[x].dest
  <2>1. CASE x \in S
    BY <1>2, <2>1
  <2>2. CASE x \notin S
    BY <1>3, <2>2
  <2>3. QED
    BY <2>1, <2>2
<1>11. \A x \in S : tab'[x].enabled = b[x]
  BY <1>2
<1>12. QED
  BY <1>7, <1>8, <1>9, <1>10, <1>11, Zenon

\* A call about a tab that was closed tells nothing.
LEMMA CampGoneKeeps ==
  ASSUME CampInv, NEW i \in DOMAIN posts, Ca!Ended(i), UNCHANGED <<running, online, modal, tab, sure>>,
         saved' = saved \/ saved' = tab'
  PROVE  CampInv'
<1>1. CampNamesStay
  BY DEF CampNamesStay
<1>2. CampHeard'
  BY <1>1, CampEndedKeeps
<1>3. CampTyped' /\ CampAlike' /\ CampDots'
  BY DEF CampInv, CampTyped, CampAlike, CampDots
<1>4. QED
  BY <1>2, <1>3 DEF CampInv

\* One about a tab that is open tells of its dot, or it is sure no more.
LEMMA CampTellsKeeps ==
  ASSUME CampInv, NEW i \in DOMAIN posts, Ca!Ended(i), NEW t \in Tabs, tab[t] # None,
         NEW v \in BOOLEAN, Ca!Set(t, "enabled", v), NEW good \in BOOLEAN, Ca!Sure({t}, good),
         good => (v = TRUE <=> Clean[tab[t].name] \in running),
         saved' = saved \/ saved' = tab', UNCHANGED <<running, online, modal>>
  PROVE  CampInv'
<1>1. CampTyped /\ CampDots
  BY DEF CampInv
<1> DEFINE b == [x \in {t} |-> v]
<1>2. tab' = [x \in Tabs |-> IF x \in {t} THEN [tab[x] EXCEPT !.enabled = b[x]] ELSE tab[x]]
  BY <1>1 DEF Ca!Set, CampTyped
<1>3. b \in [{t} -> BOOLEAN] /\ b[t] = v
  OBVIOUS
<1> HIDE DEF b
<1>4. sure' \subseteq Tabs /\ running' \subseteq Campaigns
  BY <1>1 DEF CampTyped, Ca!Sure
<1>5. /\ CampNamesStay /\ CampTyped' /\ CampAlike' /\ tab'[t].enabled = v
      /\ \A x \in Tabs : tab[x] # None => tab'[x].dest = tab[x].dest
  <2>1. CampRedotted({t}, b)
    BY <1>2 DEF CampRedotted
  <2>2. {t} \subseteq Tabs /\ \A x \in {t} : tab[x] # None
    OBVIOUS
  <2>3. t \in {t}
    OBVIOUS
  <2>4. QED
    BY <1>3, <1>4, <2>1, <2>2, <2>3, CampOnlyDots
<1>6. CampHeard'
  BY <1>5, CampEndedKeeps
<1>7. CampDots'
  <2>1. ASSUME NEW x \in sure', tab'[x] # None, tab'[x].dest = "server"
        PROVE  tab'[x].enabled = TRUE <=> Clean[tab'[x].name] \in running
    <3>1. x \in Tabs /\ tab[x] # None /\ tab'[x].name = tab[x].name /\ tab[x].dest = "server"
      BY <1>4, <1>5, <2>1 DEF CampNamesStay
    <3>2. CASE x = t
      <4>1. good
        BY <2>1, <3>2 DEF Ca!Sure
      <4>2. QED
        BY <1>5, <3>1, <3>2, <4>1
    <3>3. CASE x # t
      <4>1. x \in sure /\ tab'[x] = tab[x]
        BY <1>2, <2>1, <3>1, <3>3 DEF Ca!Sure
      <4>2. QED
        BY <1>1, <3>1, <4>1 DEF CampDots
    <3>4. QED
      BY <3>2, <3>3
  <2>2. QED
    BY <2>1 DEF CampDots
<1>8. QED
  BY <1>5, <1>6, <1>7 DEF CampInv

LEMMA CampAnsweredKeeps ==
  ASSUME CampInv, NEW i \in DOMAIN posts,
         Ca!StartAnswered(i) \/ Ca!StopAnswered(i) \/ Ca!StatusAnswered(i)
  PROVE  CampInv'
<1> DEFINE c == posts[i]
           t == c.tab
<1>1. /\ Ca!Ended(i) /\ c.answer # <<>> /\ UNCHANGED <<running, online, modal>>
      /\ saved' = saved \/ saved' = tab'
  BY DEF Ca!StartAnswered, Ca!StopAnswered, Ca!StatusAnswered, Ca!onChange
<1>2. c \in CampCalls /\ CampSound(c, running, tab)
  BY DEF CampInv, CampHeard
<1>3. CASE t = None
  <2>1. UNCHANGED <<tab, sure>>
    BY <1>3 DEF Ca!StartAnswered, Ca!StopAnswered, Ca!StatusAnswered
  <2>2. QED
    BY <1>1, <2>1, CampGoneKeeps
<1>4. CASE t # None
  <2>1. t \in Tabs /\ tab[t] # None /\ c.good \in BOOLEAN
    BY <1>2, <1>4 DEF CampCalls, CampSound
  <2>2. Ca!Sure({t}, c.good)
    BY <1>4 DEF Ca!StartAnswered, Ca!StopAnswered, Ca!StatusAnswered
  <2>3. CASE Ca!StartAnswered(i)
    <3>1. Ca!Set(t, "enabled", TRUE) /\ c.op = "start"
      BY <1>4, <2>3 DEF Ca!StartAnswered
    <3>2. c.good => Clean[tab[t].name] \in running
      BY <1>1, <1>2, <1>4, <3>1 DEF CampSound, CampIsCommand
    <3>3. QED
      BY <1>1, <2>1, <2>2, <3>1, <3>2, CampTellsKeeps
  <2>4. CASE Ca!StopAnswered(i)
    <3>1. Ca!Set(t, "enabled", FALSE) /\ c.op = "stop"
      BY <1>4, <2>4 DEF Ca!StopAnswered
    <3>2. c.good => Clean[tab[t].name] \notin running
      BY <1>1, <1>2, <1>4, <3>1 DEF CampSound, CampIsCommand
    <3>3. QED
      BY <1>1, <2>1, <2>2, <3>1, <3>2, CampTellsKeeps
  <2>5. CASE Ca!StatusAnswered(i)
    <3>1. Ca!Set(t, "enabled", Ca!Campaign(t) \in c.answer[1]) /\ c.op = "status"
      BY <1>4, <2>5 DEF Ca!StatusAnswered, Ca!OnIn
    <3>2. c.good => c.answer[1] = running
      BY <1>1, <1>2, <3>1 DEF CampSound, CampIsCommand
    <3>3. (Ca!Campaign(t) \in c.answer[1]) \in BOOLEAN
      OBVIOUS
    <3>4. c.good => ((Ca!Campaign(t) \in c.answer[1]) = TRUE <=> Clean[tab[t].name] \in running)
      BY <3>2 DEF Ca!Campaign
    <3>5. QED
      BY <1>1, <2>1, <2>2, <3>1, <3>3, <3>4, CampTellsKeeps
  <2>6. QED
    BY <2>3, <2>4, <2>5
<1>5. QED
  BY <1>3, <1>4

LEMMA CampReconcileKeeps ==
  ASSUME CampInv, NEW i \in DOMAIN posts, Ca!reconcileServerLogging(i)
  PROVE  CampInv'
<1> DEFINE c == posts[i]
           S == {t \in Tabs : Ca!OnServer(t)}
           list == c.answer[1]
           b == [x \in S |-> Clean[tab[x].name] \in list]
<1>1. /\ Ca!Ended(i) /\ c.answer # <<>> /\ c.op = "boot" /\ Ca!Sure(S, c.good)
      /\ UNCHANGED <<running, saved, online, modal>>
      /\ tab' = [x \in Tabs |-> IF Ca!OnServer(x)
               THEN [tab[x] EXCEPT !.enabled = Ca!OnIn(x, list)] ELSE tab[x]]
  BY DEF Ca!reconcileServerLogging
<1>2. c \in CampCalls /\ CampSound(c, running, tab) /\ CampTyped
  BY DEF CampInv, CampHeard
<1>3. c.good \in BOOLEAN /\ (c.good = TRUE => list = running)
  BY <1>1, <1>2 DEF CampCalls, CampSound, CampIsCommand
<1>4. S \subseteq Tabs /\ \A x \in S : tab[x] # None /\ tab[x].dest = "server"
  BY DEF Ca!OnServer, Ca!IsOpen
<1>5. tab' = [x \in Tabs |-> IF x \in S THEN [tab[x] EXCEPT !.enabled = b[x]] ELSE tab[x]]
  BY <1>1 DEF Ca!OnIn, Ca!Campaign
<1>6a. b \in [S -> BOOLEAN]
  OBVIOUS
<1>6b. \A x \in S : b[x] = (Clean[tab[x].name] \in list)
  OBVIOUS
<1>6c. saved' = saved /\ online' = online /\ modal' = modal
  BY <1>1
<1>7. \A x \in Tabs : tab[x] # None /\ tab[x].dest = "server" => x \in S
  BY DEF Ca!OnServer, Ca!IsOpen
<1> HIDE DEF S, b
<1>8. sure' \subseteq Tabs /\ running' \subseteq Campaigns
  BY <1>1, <1>2, <1>4 DEF CampTyped, Ca!Sure
<1>9. /\ CampNamesStay /\ CampTyped' /\ CampAlike'
      /\ \A x \in Tabs : tab[x] # None => tab'[x].dest = tab[x].dest
      /\ \A x \in S : tab'[x].enabled = b[x]
  <2>1. CampRedotted(S, b)
    BY <1>5 DEF CampRedotted
  <2>2. QED
    BY <1>4, <1>6a, <1>6c, <1>8, <2>1, CampOnlyDots
<1>10. CampHeard'
  BY <1>1, <1>9, CampEndedKeeps
<1>11. CampDots'
  <2>1. ASSUME NEW x \in sure', tab'[x] # None, tab'[x].dest = "server"
        PROVE  tab'[x].enabled = TRUE <=> Clean[tab'[x].name] \in running
    <3>1. x \in Tabs /\ tab[x] # None /\ tab'[x].name = tab[x].name /\ tab[x].dest = "server"
      BY <1>8, <1>9, <2>1 DEF CampNamesStay
    <3>2. x \in S
      BY <1>7, <3>1
    <3>3. c.good = TRUE
      BY <1>1, <1>3, <2>1, <3>2 DEF Ca!Sure
    <3>4. list = running
      BY <1>3, <3>3
    <3>5. tab'[x].enabled = (Clean[tab[x].name] \in list)
      BY <1>6b, <1>9, <3>2
    <3>6. QED
      BY <3>1, <3>4, <3>5
  <2>2. QED
    BY <1>1, <2>1 DEF CampDots
<1>12. QED
  BY <1>9, <1>10, <1>11 DEF CampInv

\* A call that failed: nothing is sure of any tab.
LEMMA CampLostKeeps ==
  ASSUME CampInv, NEW i \in DOMAIN posts, Ca!Lost(i)
  PROVE  CampInv'
<1> DEFINE c == posts[i]
           n == c.name
           u == IF c.op \in {"status", "boot"} THEN posts ELSE Ca!Aged(posts, n)
           Out(x) == \/ x = c.tab /\ c.op \in {"stop", "status"}
                     \/ c.op = "boot" /\ Ca!OnServer(x)
           S == {x \in Tabs : Out(x)}
           b == [x \in S |-> FALSE]
<1>1. /\ posts' = Ca!RemoveAt(u, i) /\ sure' = {} /\ UNCHANGED <<online, modal>>
      /\ saved' = saved \/ saved' = tab'
      /\ tab' = [x \in Tabs |-> IF x \in S THEN [tab[x] EXCEPT !.enabled = FALSE] ELSE tab[x]]
  <2>1. /\ posts' = Ca!RemoveAt(u, i) /\ sure' = {} /\ UNCHANGED <<online, modal>>
        /\ saved' = saved \/ saved' = tab'
    BY DEF Ca!Lost, Ca!onChange
  <2>2. tab' = [x \in Tabs |-> IF Out(x) THEN [tab[x] EXCEPT !.enabled = FALSE] ELSE tab[x]]
    BY DEF Ca!Lost
  <2>3. QED
    BY <2>1, <2>2
<1>2. \/ running' = running
      \/ c.op = "start" /\ c.answer = <<>> /\ running' = running \cup {n}
      \/ c.op = "stop" /\ c.answer = <<>> /\ running' = running \ {n}
  BY DEF Ca!Lost
<1>3. /\ CampTyped /\ CampHeard /\ posts \in Seq(CampCalls) /\ Len(posts) <= MaxCalls
      /\ i \in 1..Len(posts) /\ c \in CampCalls /\ CampSound(c, running, tab)
  BY DEF CampInv, CampHeard
<1>4. running' \subseteq Campaigns
  BY <1>2, <1>3 DEF CampTyped, CampSound, CampIsCommand
<1>5. S \subseteq Tabs /\ \A x \in S : tab[x] # None
  <2>1. c.tab # None => tab[c.tab] # None
    BY <1>3 DEF CampSound
  <2>2. \A x \in Tabs : Out(x) => tab[x] # None
    BY <2>1, CampaignAssumption DEF Ca!OnServer, Ca!IsOpen
  <2>3. QED
    BY <2>2
<1> HIDE DEF Out
<1>6. /\ b \in [S -> BOOLEAN]
      /\ tab' = [x \in Tabs |-> IF x \in S THEN [tab[x] EXCEPT !.enabled = b[x]] ELSE tab[x]]
  BY <1>1
<1> HIDE DEF S, b
<1>7. CampNamesStay /\ CampTyped' /\ CampAlike'
  <2>1. CampRedotted(S, b) /\ sure' \subseteq Tabs
    BY <1>1, <1>6 DEF CampRedotted
  <2>2. QED
    BY <1>1, <1>4, <1>5, <1>6, <2>1, CampOnlyDots
<1>8. u \in Seq(CampCalls) /\ Len(u) = Len(posts)
  BY <1>3, CampAgedIs
<1>9. \A j \in 1..Len(posts) : CampSound(u[j], running', tab)
  <2>1. CASE c.op \in {"status", "boot"}
    <3>1. running' = running /\ u = posts
      BY <1>2, <2>1
    <3>2. QED
      BY <1>3, <3>1 DEF CampHeard
  <2>2. CASE c.op \notin {"status", "boot"}
    <3>1. \A m : m # n => (m \in running <=> m \in running')
      BY <1>2
    <3>2. QED
      BY <1>3, <2>2, <3>1, CampAgedSound
  <2>3. QED
    BY <2>1, <2>2
<1> HIDE DEF u
<1>10. /\ posts' \in Seq(CampCalls) /\ Len(posts') = Len(posts) - 1
       /\ \A j \in 1..Len(posts') : \E k \in 1..Len(posts) : posts'[j] = u[k]
  <2>1. posts' = Ca!RemoveAt(u, i) /\ i \in 1..Len(u)
    BY <1>1, <1>3, <1>8
  <2>2. /\ Ca!RemoveAt(u, i) \in Seq(CampCalls) /\ Len(Ca!RemoveAt(u, i)) = Len(u) - 1
        /\ CampAmong(Ca!RemoveAt(u, i), u)
    BY <1>8, <2>1, CampRemoveAtIs
  <2>3. QED
    BY <1>8, <2>1, <2>2 DEF CampAmong
<1>11. CampHeard'
  <2>1. ASSUME NEW j \in 1..Len(posts') PROVE CampSound(posts'[j], running', tab')
    <3>1. posts'[j] \in CampCalls /\ CampSound(posts'[j], running', tab)
      BY <1>9, <1>10
    <3>2. QED
      BY <1>7, <3>1, CampSoundStays
  <2>2. Len(posts') <= MaxCalls
    BY <1>3, <1>10, CampaignAssumption
  <2>3. QED
    BY <1>10, <2>1, <2>2 DEF CampHeard
<1>12. CampDots'
  BY <1>1 DEF CampDots
<1>13. QED
  BY <1>7, <1>11, <1>12 DEF CampInv

-----------------------------------------------------------------------------
(* The page that opens again on its session.                               *)

\* The starts it asks for: as many as tabs whose journal was on.
LEMMA CampDueAre ==
  ASSUME CampTyped
  PROVE  LET S == {Ca!Call("start", t, Clean[saved[t].name]) : t \in Ca!Due}
         IN IsFiniteSet(S) /\ Cardinality(S) = Cardinality(Ca!Due) /\ Cardinality(Ca!Due) \in Nat
<1> DEFINE S == {Ca!Call("start", t, Clean[saved[t].name]) : t \in Ca!Due}
           f == [t \in Ca!Due |-> Ca!Call("start", t, Clean[saved[t].name])]
<1>1. Ca!Due \subseteq Tabs
  BY DEF Ca!Due
<1>2. IsFiniteSet(Ca!Due) /\ Cardinality(Ca!Due) \in Nat
  BY <1>1, FS_Subset, FS_CardinalityType, CampaignAssumption
<1>3. f \in [Ca!Due -> S]
  OBVIOUS
<1>4. \A x, y \in Ca!Due : f[x] = f[y] => x = y
  BY DEF Ca!Call
<1>5. \A s \in S : \E x \in Ca!Due : f[x] = s
  OBVIOUS
<1> HIDE DEF f
<1>6. f \in Bijection(Ca!Due, S)
  BY <1>3, <1>4, <1>5 DEF Bijection, Injection, Surjection, IsInjective
<1>7. ExistsBijection(Ca!Due, S)
  BY <1>6 DEF ExistsBijection
<1> HIDE DEF S
<1>8. IsFiniteSet(S) /\ Cardinality(S) = Cardinality(Ca!Due)
  BY <1>2, <1>7, FS_Bijection
<1>9. QED
  BY <1>2, <1>8 DEF S

LEMMA CampBootKeeps ==
  ASSUME CampInv, Ca!Boot
  PROVE  CampInv'
<1>1. CampTyped /\ CampAlike
  BY DEF CampInv
<1> DEFINE S == {Ca!Call("start", t, Clean[saved[t].name]) : t \in Ca!Due}
           q == Ca!SetToSeq(S)
           last == Ca!Call("boot", None, None)
<1>2. /\ Cardinality(Ca!Due) < MaxCalls /\ online' \in BOOLEAN
      /\ tab' = [t \in Tabs |-> IF saved[t] = None THEN None
               ELSE [saved[t] EXCEPT !.enabled = saved[t].enabled /\ saved[t].dest = "browser"]]
      /\ posts' = (IF ~online' THEN <<>> ELSE Append(q, last))
      /\ saved' = tab' /\ modal' = None /\ sure' = {} /\ running' = running
  BY CampCardinality DEF Ca!Boot, Ca!onChange
<1>3. ASSUME NEW t \in Tabs
      PROVE  /\ saved[t] = None => tab'[t] = None
             /\ saved[t] # None =>
                  tab'[t] \in Ca!TabStates /\ tab'[t] # None /\ tab'[t].name = saved[t].name
  <2>1. CASE saved[t] = None
    BY <1>2, <2>1
  <2>2. CASE saved[t] # None
    <3>1. saved[t] \in Ca!TabStates
      BY <1>1, <2>2 DEF CampTyped
    <3>2. tab'[t] = [saved[t] EXCEPT !.enabled = saved[t].enabled /\ saved[t].dest = "browser"]
      BY <1>2, <2>2
    <3>3. tab'[t] = [name |-> saved[t].name, dest |-> saved[t].dest,
                     enabled |-> saved[t].enabled /\ saved[t].dest = "browser"]
      BY <3>1, <3>2 DEF Ca!TabStates
    <3>4. (saved[t].enabled /\ saved[t].dest = "browser") \in BOOLEAN
      OBVIOUS
    <3>5. tab'[t] \in Ca!TabStates /\ tab'[t].name = saved[t].name
      BY <3>1, <3>3, <3>4 DEF Ca!TabStates
    <3>6. QED
      BY <2>2, <3>5, CampaignAssumption
  <2>3. QED
    BY <2>1, <2>2
<1>4. tab' \in [Tabs -> Ca!TabStates \cup {None}]
  <2>1. \A t \in Tabs : tab'[t] \in Ca!TabStates \cup {None}
    BY <1>3
  <2>2. QED
    BY <1>2, <2>1
<1>5. CampTyped'
  BY <1>1, <1>2, <1>4 DEF CampTyped
<1>6. CampAlike'
  BY <1>1, <1>2, <1>3 DEF CampAlike
<1>7. IsFiniteSet(S) /\ Cardinality(S) = Cardinality(Ca!Due) /\ Cardinality(Ca!Due) \in Nat
  BY <1>1, CampDueAre
<1>8. ASSUME NEW c \in S
      PROVE  c \in CampCalls /\ CampSound(c, running, tab')
  <2>1. PICK t \in Ca!Due : c = Ca!Call("start", t, Clean[saved[t].name])
    OBVIOUS
  <2>2. t \in Tabs /\ saved[t] # None
    BY <2>1 DEF Ca!Due
  <2>3. tab'[t] # None /\ tab'[t].name = saved[t].name /\ Clean[saved[t].name] \in Campaigns
    BY <1>1, <1>3, <2>2 DEF CampTyped, Ca!TabStates, Campaigns
  <2>4. c \in CampCalls
    BY <2>1, <2>2, <2>3 DEF Ca!Call, CampCalls, CampAnswers
  <2>5. CampSound(c, running, tab')
    BY <2>1, <2>3 DEF Ca!Call, CampSound, CampIsCommand
  <2>6. QED
    BY <2>4, <2>5
<1>9. last \in CampCalls /\ CampSound(last, running, tab')
  <2>1. last \in CampCalls
    BY DEF Ca!Call, CampCalls, CampAnswers
  <2>2. QED
    BY <2>1 DEF Ca!Call, CampSound, CampIsCommand
<1>10. q \in Seq(S) /\ Len(q) = Cardinality(Ca!Due)
  BY <1>7, CampInOrder
<1> HIDE DEF S, q, last
<1>11. CampHeard'
  <2>1. CASE ~online'
    <3>1. posts' = <<>> /\ MaxCalls \in Nat
      BY <1>2, <2>1, CampaignAssumption
    <3>2. QED
      BY <3>1 DEF CampHeard
  <2>2. CASE online'
    <3>1. posts' = Append(q, last)
      BY <1>2, <2>2
    <3>2. q \in Seq(CampCalls) /\ \A j \in 1..Len(q) : q[j] \in S
      <4>1. S \subseteq CampCalls
        BY <1>8
      <4>2. QED
        BY <1>10, <4>1
    <3>3. posts' \in Seq(CampCalls) /\ Len(posts') = Len(q) + 1 /\ Len(q) \in Nat
      BY <1>9, <3>1, <3>2
    <3>4. Len(posts') <= MaxCalls
      BY <1>2, <1>7, <1>10, <3>3, CampaignAssumption
    <3>5. \A j \in 1..Len(posts') : posts'[j] = last \/ posts'[j] \in S
      BY <3>1, <3>2, <3>3
    <3>6. \A j \in 1..Len(posts') : CampSound(posts'[j], running, tab')
      BY <1>8, <1>9, <3>5
    <3>7. QED
      BY <1>2, <3>3, <3>4, <3>6 DEF CampHeard
  <2>3. QED
    BY <2>1, <2>2
<1>12. CampDots'
  BY <1>2 DEF CampDots
<1>13. QED
  BY <1>5, <1>6, <1>11, <1>12 DEF CampInv

-----------------------------------------------------------------------------
(* The theorems.                                                           *)

LEMMA CampCStart ==
  ASSUME Ca!Init
  PROVE  CampInv
<1>1. PICK t \in Tabs, n \in Names : tab = [x \in Tabs |-> IF x = t THEN Ca!Fresh(n) ELSE None]
  BY DEF Ca!Init
<1>2. Ca!Fresh(n) \in Ca!TabStates
  BY DEF Ca!Fresh, Ca!TabStates
<1>3. Ca!Fresh(n) # None
  BY <1>2, CampaignAssumption
<1>4. tab \in [Tabs -> Ca!TabStates \cup {None}] /\ tab[t] # None
  BY <1>1, <1>2, <1>3
<1>5. CampTyped
  BY <1>4 DEF Ca!Init, CampTyped
<1>6. CampAlike
  BY <1>4 DEF Ca!Init, CampAlike
<1>7. CampHeard /\ CampDots
  BY CampaignAssumption DEF Ca!Init, CampHeard, CampDots
<1>8. QED
  BY <1>5, <1>6, <1>7 DEF CampInv

LEMMA CampCStep ==
  ASSUME CampInv, [Ca!Next]_(Ca!vars)
  PROVE  CampInv'
<1>1. ASSUME NEW t \in Tabs,
             Ca!startLogging(t) \/ Ca!stopLogging(t) \/ Ca!refresh(t) \/ Ca!openLogModal(t)
               \/ Ca!ChangeDest(t) \/ Ca!closeTab(t)
      PROVE  CampInv'
  BY <1>1, CampCommandKeeps, CampWindowKeeps, CampCloseTabKeeps
<1>2. ASSUME NEW t \in Tabs, NEW n \in Names, Ca!startRename(t, n) \/ Ca!createTab(t, n)
      PROVE  CampInv'
  BY <1>2, CampRenameKeeps, CampCreateKeeps
<1>3. ASSUME Ca!Close
      PROVE  CampInv'
  <2>1. \E t \in Tabs : TRUE
    BY DEF CampInv, CampAlike
  <2>2. QED
    BY <1>3, <2>1, CampWindowKeeps
<1>4. ASSUME Ca!Elsewhere \/ Ca!Boot
      PROVE  CampInv'
  BY <1>4, CampElsewhereKeeps, CampBootKeeps
<1>5. ASSUME NEW i \in DOMAIN posts,
             \/ Ca!Started(i) \/ Ca!Stopped(i) \/ Ca!Listed(i) \/ Ca!Lost(i)
             \/ Ca!StartAnswered(i) \/ Ca!StopAnswered(i) \/ Ca!StatusAnswered(i)
             \/ Ca!reconcileServerLogging(i)
      PROVE  CampInv'
  BY <1>5, CampObeyedKeeps, CampListedKeeps, CampLostKeeps, CampAnsweredKeeps, CampReconcileKeeps
<1>6. ASSUME UNCHANGED Ca!vars
      PROVE  CampInv'
  BY <1>6 DEF Ca!vars, CampInv, CampTyped, CampAlike, CampHeard, CampDots
<1>7. QED
  BY <1>1, <1>2, <1>3, <1>4, <1>5, <1>6 DEF Ca!Next

\* In every state each call is worth what its marks say, and the session
\* describes the tabs that are open (app.js).
THEOREM CampaignsInvariant ==
  Ca!Spec => []CampInv
<1>1. Ca!Init => CampInv
  BY CampCStart
<1>2. CampInv /\ [Ca!Next]_(Ca!vars) => CampInv'
  BY CampCStep
<1>3. QED
  BY <1>1, <1>2, PTL DEF Ca!Spec

\* A behaviour of the page's campaigns is one of Campaign.
LEMMA CampPart == MCSpec => Ca!Spec
<1>1. MCInit => Ca!Init
  BY DEF MCInit
<1>2. [MCNext]_<<part, vars, campaignVars>> => [Ca!Next]_(Ca!vars)
  BY DEF MCNext, campaignVars, Ca!vars
<1>3. QED
  BY <1>1, <1>2, PTL DEF MCSpec, Ca!Spec

\* The dot of a tab tells whether its campaign runs, once an answer came back
\* that nothing had made old meanwhile, whatever is lost or crosses.
THEOREM DotsAreTrue ==
  MCSpec => []DotTells
<1>1. CampInv => Ca!TypeOK
  <2>1. ASSUME CampInv PROVE modal = None \/ Ca!IsOpen(modal)
    BY <2>1 DEF CampInv, CampTyped, Ca!IsOpen
  <2>2. ASSUME CampInv PROVE \E t \in Tabs : Ca!IsOpen(t)
    BY <2>2 DEF CampInv, CampAlike, Ca!IsOpen
  <2>3. QED
    BY <2>1, <2>2 DEF CampInv, CampTyped, CampHeard, Ca!TypeOK, Campaigns
<1>2. CampInv => Ca!DotTells
  <2>1. ASSUME CampInv, NEW t \in sure, Ca!OnServer(t)
        PROVE  tab[t].enabled <=> Ca!Campaign(t) \in running
    <3>1. tab[t] # None /\ tab[t].dest = "server" /\ t \in Tabs
      BY <2>1 DEF Ca!OnServer, Ca!IsOpen, CampInv, CampTyped
    <3>2. tab[t].enabled = TRUE <=> Clean[tab[t].name] \in running
      BY <2>1, <3>1 DEF CampInv, CampDots
    <3>3. tab[t].enabled \in BOOLEAN
      BY <2>1, <3>1 DEF CampInv, CampTyped, Ca!TabStates
    <3>4. QED
      BY <3>2, <3>3 DEF Ca!Campaign
  <2>2. QED
    BY <2>1 DEF Ca!DotTells
<1>3. CampInv => DotTells
  BY <1>1, <1>2 DEF DotTells
<1>4. QED
  BY <1>3, CampPart, CampaignsInvariant, PTL
=============================================================================
