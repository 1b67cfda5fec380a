---------------------------- MODULE Journal_proofs ----------------------------
(***************************************************************************)
(* The campaign that journals a variable of the controller (Journal), and  *)
(* the source of a page that has no controller (Simulation), which is made *)
(* of the same channel (Sampling).                                         *)
(*                                                                         *)
(* Both, for any periods, values, horizon, lateness and number of lives.   *)
(* JInv says of each date of the grid that the channel has been through    *)
(* since the campaign began where it is: in the file once the cursor has   *)
(* passed it, and else still held, too young to be dropped, because the    *)
(* horizon is longer than what a late journal and a late sampling may add  *)
(* up to. The rows of a file go forward from one life to the next because  *)
(* the dates of a life are later than those of the lives before. SimInv    *)
(* says the same of the dates that a tile, frozen or not, may look at.     *)
(*                                                                         *)
(* The lemmas on the history (History) come first. The readers of a point *)
(* need the same ones, and more of them (Delivery_proofs).                 *)
(***************************************************************************)
EXTENDS MCJournal, FunctionTheorems, FiniteSetTheorems, NaturalsInduction,
        WellFoundedInduction, TLAPS

(***************************************************************************)
(* The history of a point: what the operators of History do to a sorted    *)
(* sequence of samples.                                                    *)
(***************************************************************************)
LEMMA NatInSet ==
  ASSUME NEW F, 0 \in F, \A n \in Nat : n \in F => n + 1 \in F
  PROVE  \A n \in Nat : n \in F
<1> DEFINE R == OpToRel(<, Nat)
           Missing == {n \in Nat : n \notin F}
<1>1. SUFFICES ASSUME Missing # {} PROVE FALSE
  OBVIOUS
<1>2. IsWellFoundedOn(R, Nat)
  BY NatLessThanWellFounded
<1>3. PICK n \in Missing : \A m \in Missing : ~ (<<m, n>> \in R)
  <2> HIDE DEF Missing, R
  <2>1. Missing \subseteq Nat
    BY DEF Missing
  <2> QED BY <1>1, <1>2, <2>1, WFMin
<1>4. n # 0 /\ n - 1 \in Nat
  OBVIOUS
<1>5. \A m, k \in Nat : m < k => <<m, k>> \in R
  BY DEF OpToRel
<1>50. n - 1 \in F
  <2>1. <<n - 1, n>> \in R /\ n - 1 < n
    <3> HIDE DEF R
    <3>1. n - 1 \in Nat /\ n \in Nat /\ n - 1 < n
      BY <1>4
    <3>2. QED
      BY <3>1, <1>5
  <2> HIDE DEF R
  <2> QED BY <1>3, <1>4, <2>1
<1>6. QED
  BY <1>4, <1>50

\* A sequence of samples: its dates are whole numbers.
Dates(s) == \A i \in 1..Len(s) : s[i].t \in Int

\* The first k samples are no later than d, the others are.
CutsAt(s, d, k) == k \in 0..Len(s) /\ \A i \in 1..Len(s) : s[i].t > d <=> i > k

\* The samples of r are of s.
Among(r, s) == \A i \in 1..Len(r) : \E j \in 1..Len(s) : r[i] = s[j]

\* r is s without its first k samples.
Suffix(r, s, k) ==
  /\ k \in 0..Len(s) /\ Len(r) = Len(s) - k
  /\ \A i \in 1..Len(r) : r[i] = s[k + i]

(* A set of indices closed downwards is a beginning.                       *)
LEMMA DownSet ==
  ASSUME NEW n \in Nat, NEW D \in SUBSET (1..n), \A i \in D : \A j \in 1..i : j \in D
  PROVE  \E k \in 0..n : D = 1..k
<1> DEFINE F == {m \in Nat : m <= n => \E k \in 0..m : D \cap (1..m) = 1..k}
<1>1. 0 \in F
  OBVIOUS
<1>2. ASSUME NEW m \in Nat, m \in F PROVE m + 1 \in F
  <2>1. SUFFICES ASSUME m + 1 <= n PROVE \E k \in 0..(m + 1) : D \cap (1..(m + 1)) = 1..k
    OBVIOUS
  <2>2. PICK k \in 0..m : D \cap (1..m) = 1..k
    BY <1>2, <2>1
  <2>3. CASE m + 1 \in D
    <3>1. D \cap (1..(m + 1)) = 1..(m + 1)
      BY <2>3
    <3>2. QED
      BY <3>1
  <2>4. CASE m + 1 \notin D
    <3>1. D \cap (1..(m + 1)) = 1..k
      BY <2>4, <2>2
    <3>2. QED
      BY <3>1
  <2>5. QED
    BY <2>3, <2>4
<1>3. \A m \in Nat : m \in F
  <2> HIDE DEF F
  <2> QED BY <1>1, <1>2, NatInSet
<1>4. \E k \in 0..n : D \cap (1..n) = 1..k
  BY <1>3
<1>5. D \cap (1..n) = D
  OBVIOUS
<1>6. QED
  BY <1>4, <1>5

LEMMA BeginningSize ==
  ASSUME NEW k \in Nat
  PROVE  Cardinality(1..k) = k
<1>1. 1 \in Int /\ k \in Int
  OBVIOUS
<1>2. Cardinality(1..k) = IF 1 > k THEN 0 ELSE k - 1 + 1
  BY <1>1, FS_Interval
<1>3. QED
  BY <1>2

(* A date cuts a sorted sequence in two.                                   *)
LEMMA Cut ==
  ASSUME NEW S, NEW s \in Seq(S), Dates(s), Sorted(s), NEW d \in Int
  PROVE  \E k \in 0..Len(s) : CutsAt(s, d, k)
<1> DEFINE D == {i \in 1..Len(s) : s[i].t <= d}
<1>1. Len(s) \in Nat
  OBVIOUS
<1>2. \A i \in D : \A j \in 1..i : j \in D
  <2>1. TAKE i \in D
  <2>2. TAKE j \in 1..i
  <2>3. j \in 1..Len(s) /\ s[i].t \in Int /\ s[j].t \in Int
    BY <1>1 DEF Dates
  <2>4. s[j].t <= s[i].t
    BY <2>3 DEF Sorted
  <2>5. QED
    BY <2>3, <2>4
<1>3. PICK k \in 0..Len(s) : D = 1..k
  <2> HIDE DEF D
  <2>1. D \in SUBSET (1..Len(s))
    BY DEF D
  <2>2. QED
    BY <1>1, <1>2, <2>1, DownSet
<1>4. CutsAt(s, d, k)
  BY <1>1, <1>3 DEF CutsAt, Dates
<1>5. QED
  BY <1>4

-----------------------------------------------------------------------------

\* What the dichotomy of read() is, as an equation.
Halves(f, s, d) ==
  f = [r \in (0..Len(s)) \X (0..Len(s)) |->
        LET lo == r[1]
            hi == r[2]
            m == (lo + hi) \div 2 IN
        IF lo >= hi THEN lo
        ELSE IF s[m + 1].t <= d THEN f[<<m + 1, hi>>] ELSE f[<<lo, m>>]]

\* What it finds between two bounds.
Found(lo, hi, k) == IF lo >= hi THEN lo ELSE IF k < lo THEN lo ELSE IF k > hi THEN hi ELSE k

LEMMA Middle ==
  ASSUME NEW lo \in Nat, NEW hi \in Nat, lo < hi
  PROVE  /\ (lo + hi) \div 2 \in Nat
         /\ lo <= (lo + hi) \div 2 /\ (lo + hi) \div 2 < hi
  OBVIOUS

(* It has a solution on a sorted sequence...                               *)
LEMMA HalvesExist ==
  ASSUME NEW S, NEW s \in Seq(S), NEW d, NEW k \in 0..Len(s), Dates(s), d \in Int, CutsAt(s, d, k)
  PROVE  \E f : Halves(f, s, d)
<1> DEFINE P == (0..Len(s)) \X (0..Len(s))
           f == [r \in P |-> Found(r[1], r[2], k)]
<1>0. Len(s) \in Nat
  OBVIOUS
<1>1. ASSUME NEW lo \in 0..Len(s), NEW hi \in 0..Len(s), lo < hi
      PROVE  Found(lo, hi, k) = IF s[(lo + hi) \div 2 + 1].t <= d
                                THEN f[<<(lo + hi) \div 2 + 1, hi>>] ELSE f[<<lo, (lo + hi) \div 2>>]
  <2>1. PICK m \in Nat : m = (lo + hi) \div 2 /\ lo <= m /\ m < hi
    BY <1>0, <1>1, Middle
  <2>2. m + 1 \in 1..Len(s) /\ m \in 0..Len(s) /\ m + 1 \in 0..Len(s)
    BY <2>1, <1>0
  <2>3. s[m + 1].t <= d <=> m + 1 <= k
    BY <2>2, <1>0 DEF CutsAt, Dates
  <2>4. f[<<m + 1, hi>>] = Found(m + 1, hi, k) /\ f[<<lo, m>>] = Found(lo, m, k)
    BY <2>2
  <2>5. Found(lo, hi, k) = IF m + 1 <= k THEN Found(m + 1, hi, k) ELSE Found(lo, m, k)
    BY <1>0, <1>1, <2>1 DEF Found
  <2>6. QED
    BY <2>1, <2>3, <2>4, <2>5
<1>2. \A r \in P : f[r] = LET lo == r[1]
                              hi == r[2]
                              m == (lo + hi) \div 2 IN
                          IF lo >= hi THEN lo
                          ELSE IF s[m + 1].t <= d THEN f[<<m + 1, hi>>] ELSE f[<<lo, m>>]
  <2>1. TAKE r \in P
  <2>2. r[1] \in 0..Len(s) /\ r[2] \in 0..Len(s) /\ f[r] = Found(r[1], r[2], k)
    OBVIOUS
  <2>3. CASE r[1] >= r[2]
    BY <2>2, <2>3 DEF Found
  <2>4. CASE r[1] < r[2]
    <3> HIDE DEF f
    <3>1. ~ (r[1] >= r[2])
      BY <2>2, <2>4, <1>0
    <3>2. QED
      BY <2>2, <2>4, <3>1, <1>1
  <2>5. QED
    BY <2>2, <2>3, <2>4, <1>0
<1>3. Halves(f, s, d)
  BY <1>2 DEF Halves
<1>4. QED
  BY <1>3

(* ... and any solution finds the cut.                                     *)
LEMMA HalvesFind ==
  ASSUME NEW S, NEW s \in Seq(S), NEW d, NEW k \in 0..Len(s), Dates(s), d \in Int, CutsAt(s, d, k),
         NEW f, Halves(f, s, d)
  PROVE  f[<<0, Len(s)>>] = k
<1> DEFINE F == {n \in Nat : \A lo, hi \in 0..Len(s) :
                    lo <= hi /\ hi - lo <= n => f[<<lo, hi>>] = Found(lo, hi, k)}
<1>0. Len(s) \in Nat
  OBVIOUS
<1>1. ASSUME NEW lo \in 0..Len(s), NEW hi \in 0..Len(s)
      PROVE  f[<<lo, hi>>] = IF lo >= hi THEN lo
                             ELSE IF s[(lo + hi) \div 2 + 1].t <= d
                                  THEN f[<<(lo + hi) \div 2 + 1, hi>>] ELSE f[<<lo, (lo + hi) \div 2>>]
  BY DEF Halves
<1>2. 0 \in F
  <2>1. ASSUME NEW lo \in 0..Len(s), NEW hi \in 0..Len(s), lo <= hi, hi - lo <= 0
        PROVE  f[<<lo, hi>>] = Found(lo, hi, k)
    <3>1. lo >= hi
      BY <1>0, <2>1
    <3>2. QED
      BY <3>1, <1>1 DEF Found
  <2>2. QED
    BY <2>1
<1>3. ASSUME NEW n \in Nat, n \in F PROVE n + 1 \in F
  <2>1. ASSUME NEW lo \in 0..Len(s), NEW hi \in 0..Len(s), lo <= hi, hi - lo <= n + 1
        PROVE  f[<<lo, hi>>] = Found(lo, hi, k)
    <3>1. CASE lo >= hi
      BY <3>1, <1>1 DEF Found
    <3>2. CASE lo < hi
      <4>1. PICK m \in Nat : m = (lo + hi) \div 2 /\ lo <= m /\ m < hi
        BY <1>0, <3>2, Middle
      <4>2. m + 1 \in 1..Len(s) /\ m \in 0..Len(s) /\ m + 1 \in 0..Len(s)
        BY <4>1, <1>0
      <4>3. s[m + 1].t <= d <=> m + 1 <= k
        BY <4>2, <1>0 DEF CutsAt, Dates
      <4>4. m + 1 <= hi /\ hi - (m + 1) <= n /\ lo <= m /\ m - lo <= n
        BY <4>1, <2>1, <1>0
      <4>5. f[<<m + 1, hi>>] = Found(m + 1, hi, k) /\ f[<<lo, m>>] = Found(lo, m, k)
        BY <1>3, <4>2, <4>4
      <4>6. Found(lo, hi, k) = IF m + 1 <= k THEN Found(m + 1, hi, k) ELSE Found(lo, m, k)
        BY <1>0, <3>2, <4>1 DEF Found
      <4>7. ~ (lo >= hi)
        BY <3>2, <1>0
      <4>8. f[<<lo, hi>>] = IF s[m + 1].t <= d THEN f[<<m + 1, hi>>] ELSE f[<<lo, m>>]
        BY <1>1, <4>1, <4>7
      <4>9. QED
        BY <4>3, <4>5, <4>6, <4>8
    <3>3. QED
      BY <3>1, <3>2, <1>0
  <2>2. QED
    BY <2>1
<1>4. \A n \in Nat : n \in F
  <2> HIDE DEF F
  <2> QED BY <1>2, <1>3, NatInSet
<1>5. Len(s) \in F
  BY <1>0, <1>4
<1>6. f[<<0, Len(s)>>] = Found(0, Len(s), k)
  BY <1>0, <1>5
<1>7. QED
  BY <1>0, <1>6 DEF Found

(* The dichotomy of read() finds the cut.                                  *)
LEMMA BisectCuts ==
  ASSUME NEW S, NEW s \in Seq(S), Dates(s), Sorted(s), NEW d \in Int
  PROVE  CutsAt(s, d, Bisect(s, d))
<1>1. PICK k \in 0..Len(s) : CutsAt(s, d, k)
  BY Cut
<1>2. \E f : Halves(f, s, d)
  BY <1>1, HalvesExist
<1>3. Bisect(s, d) = (CHOOSE f : Halves(f, s, d))[<<0, Len(s)>>]
  BY DEF Bisect, Halves
<1>4. Halves(CHOOSE f : Halves(f, s, d), s, d)
  BY <1>2
<1>5. Bisect(s, d) = k
  BY <1>1, <1>3, <1>4, HalvesFind
<1>6. QED
  BY <1>1, <1>5

-----------------------------------------------------------------------------

(* read(): the samples later than the cursor, which are the last ones.     *)
LEMMA AfterIs ==
  ASSUME NEW S, NEW s \in Seq(S), Dates(s), Sorted(s), NEW d \in Int
  PROVE  /\ After(s, d) \in Seq(S)
         /\ \E k \in 0..Len(s) : CutsAt(s, d, k) /\ Suffix(After(s, d), s, k)
<1>1. CutsAt(s, d, Bisect(s, d)) /\ Len(s) \in Nat
  BY BisectCuts
<1>2. PICK k \in 0..Len(s) : k = Bisect(s, d)
  BY <1>1 DEF CutsAt
<1>3. After(s, d) = SubSeq(s, k + 1, Len(s))
  BY <1>2 DEF After
<1>4. SubSeq(s, k + 1, Len(s)) \in Seq(S) /\ Suffix(SubSeq(s, k + 1, Len(s)), s, k)
  <2>1. Len(s) \in Nat
    OBVIOUS
  <2>2. QED
    BY <2>1 DEF Suffix
<1>5. QED
  BY <1>1, <1>2, <1>3, <1>4

(* Without a limit nothing is left out.                                    *)
LEMMA ReadAll ==
  ASSUME NEW S, NEW s \in Seq(S)
  PROVE  Decimated(s, 0) = s
<1>1. Len(s) \in Nat /\ \A n \in Nat : n \div 1 = n
  OBVIOUS
<1>2. Decimated(s, 0) = [i \in 1..Len(s) |-> s[i]]
  <2> DEFINE step == IF 0 > 0 /\ Len(s) > 0 THEN (Len(s) + 0 - 1) \div 0 ELSE 1
             kept == [i \in 1..((Len(s) + step - 1) \div step) |-> s[(i - 1) * step + 1]]
  <2>1. Decimated(s, 0) = IF step > 1 /\ kept[Len(kept)].t # s[Len(s)].t
                          THEN Append(kept, s[Len(s)]) ELSE kept
    BY DEF Decimated
  <2>2. step = 1
    OBVIOUS
  <2>3. Decimated(s, 0) = kept
    BY <2>1, <2>2
  <2>4. (Len(s) + step - 1) \div step = Len(s)
    BY <2>2, <1>1
  <2>5. \A i \in 1..Len(s) : (i - 1) * step + 1 = i
    BY <2>2
  <2>6. kept = [i \in 1..Len(s) |-> s[i]]
    BY <2>4, <2>5
  <2>7. QED
    BY <2>3, <2>6
<1>3. QED
  BY <1>2

LEMMA Products ==
  ASSUME NEW i \in Nat, NEW j \in Nat, NEW p \in Nat, i <= j
  PROVE  i * p <= j * p /\ i * p \in Nat
  BY Z3

\* The dates go strictly forward.
Rising(s) == \A i, j \in 1..Len(s) : i < j => s[i].t < s[j].t

LEMMA TrimmedIs ==
  ASSUME NEW S, NEW s \in Seq(S), Dates(s), Sorted(s), NEW d \in Int
  PROVE  /\ Trimmed(s, d) \in Seq(S)
         /\ \E k \in 0..Len(s) :
               /\ Suffix(Trimmed(s, d), s, k)
               /\ \A i \in 1..Len(s) : s[i].t >= d <=> i > k
<1>1. PICK k \in 0..Len(s) : CutsAt(s, d - 1, k)
  <2>1. d - 1 \in Int
    OBVIOUS
  <2>2. QED
    BY <2>1, Cut
<1>2. Len(s) \in Nat
  OBVIOUS
<1>3. \A i \in 1..Len(s) : s[i].t >= d <=> i > k
  <2>1. TAKE i \in 1..Len(s)
  <2>2. s[i].t \in Int /\ (s[i].t > d - 1 <=> i > k)
    BY <1>1 DEF CutsAt, Dates
  <2>3. QED
    BY <2>2
<1>4. {i \in 1..Len(s) : \A j \in 1..i : s[j].t < d} = 1..k
  <2>1. ASSUME NEW i \in 1..Len(s) PROVE s[i].t < d <=> i <= k
    <3>1. s[i].t \in Int /\ (s[i].t >= d <=> i > k)
      BY <1>3 DEF Dates
    <3>2. QED
      BY <3>1, <1>2
  <2>2. ASSUME NEW i \in 1..Len(s), \A j \in 1..i : s[j].t < d PROVE i <= k
    <3>1. i \in 1..i
      OBVIOUS
    <3>2. QED
      BY <2>1, <2>2, <3>1
  <2>3. ASSUME NEW i \in 1..Len(s), i <= k, NEW j \in 1..i PROVE s[j].t < d
    <3>1. j \in 1..Len(s) /\ j <= k
      BY <1>2, <2>3
    <3>2. QED
      BY <2>1, <3>1
  <2>4. 1..k \subseteq 1..Len(s)
    BY <1>2
  <2>5. QED
    BY <2>2, <2>3, <2>4, <1>2
<1>5. Trimmed(s, d) = SubSeq(s, k + 1, Len(s))
  <2>1. Cardinality(1..k) = k
    BY <1>2, BeginningSize
  <2>2. QED
    BY ONLY <1>4, <2>1 DEF Trimmed
<1>6. SubSeq(s, k + 1, Len(s)) \in Seq(S) /\ Suffix(SubSeq(s, k + 1, Len(s)), s, k)
  BY <1>2 DEF Suffix
<1>7. QED
  BY <1>3, <1>5, <1>6

LEMMA SuffixKeeps ==
  ASSUME NEW S, NEW s \in Seq(S), NEW r \in Seq(S), NEW k \in 0..Len(s), Suffix(r, s, k)
  PROVE  /\ Among(r, s)
         /\ Dates(s) => Dates(r)
         /\ Sorted(s) => Sorted(r)
         /\ Rising(s) => Rising(r)
         /\ r # <<>> => r[Len(r)] = s[Len(s)]
<1>1. Len(s) \in Nat /\ k \in Nat /\ k <= Len(s) /\ Len(r) = Len(s) - k
  BY DEF Suffix
<1>2. \A i \in 1..Len(r) : k + i \in 1..Len(s) /\ r[i] = s[k + i]
  BY <1>1 DEF Suffix
<1>3. \A i, j \in 1..Len(r) : (i < j <=> k + i < k + j) /\ (k + i = k + j => i = j)
  BY <1>1
<1>4. Among(r, s)
  BY <1>2 DEF Among
<1>5. Dates(s) => Dates(r)
  BY <1>2 DEF Dates
<1>6. Sorted(s) => Sorted(r)
  BY <1>2, <1>3 DEF Sorted
<1>7. Rising(s) => Rising(r)
  BY <1>2, <1>3 DEF Rising
<1>9. r # <<>> => r[Len(r)] = s[Len(s)]
  <2>1. ASSUME r # <<>> PROVE r[Len(r)] = s[Len(s)]
    <3>1. Len(r) \in 1..Len(r) /\ k + Len(r) = Len(s)
      BY <1>1, <2>1
    <3>2. QED
      BY <3>1, <1>2
  <2>2. QED
    BY <2>1
<1>10. QED
  BY <1>4, <1>5, <1>6, <1>7, <1>9


-----------------------------------------------------------------------------
(* The grid of a period: its dates, the numbers before and after one.      *)

LEMMA GridQuotient ==
  ASSUME NEW n \in Int, NEW p \in Nat \ {0}
  PROVE  n \div p \in Int /\ (n \div p) * p <= n /\ n < (n \div p) * p + p
  BY Z3

LEMMA GridCeil ==
  ASSUME NEW n \in Int, NEW p \in Nat \ {0}
  PROVE  Ceil(n, p) \in Int /\ n <= Ceil(n, p) * p /\ Ceil(n, p) * p < n + p
<1>1. -n \in Int /\ (-n) \div p \in Int /\ ((-n) \div p) * p <= -n /\ -n < ((-n) \div p) * p + p
  BY GridQuotient
<1>2. PICK q \in Int : q = (-n) \div p
  BY <1>1
<1>3. Ceil(n, p) = -q
  BY <1>2 DEF Ceil
<1>4. (-q) * p = -(q * p)
  BY Z3
<1>5. q * p \in Int
  OBVIOUS
<1>6. QED
  BY <1>1, <1>2, <1>3, <1>4, <1>5

LEMMA GridOrder ==
  ASSUME NEW i \in Int, NEW j \in Int, NEW p \in Nat \ {0}
  PROVE  /\ i * p \in Int /\ j * p \in Int
         /\ i < j => i * p < j * p /\ i * p + p <= j * p
         /\ i <= j => i * p <= j * p
         /\ i * p < j * p => i < j
         /\ i * p <= j * p => i <= j
         /\ (i + 1) * p = i * p + p /\ (i - 1) * p = i * p - p
  BY Z3

LEMMA OnTheGridIs ==
  ASSUME NEW k \in Int, NEW p \in Nat \ {0}
  PROVE  (k * p) % p = 0
<1>1. k * p \in Int
  OBVIOUS
<1>2. PICK q \in Int : q = (k * p) \div p /\ q * p <= k * p /\ k * p < q * p + p
  BY <1>1, GridQuotient
<1>3. q <= k
  BY <1>2, GridOrder
<1>4. k < q + 1
  <2>1. q + 1 \in Int /\ (q + 1) * p = q * p + p
    BY GridOrder
  <2>2. k * p < (q + 1) * p
    BY <1>2, <2>1
  <2>3. QED
    BY <2>1, <2>2, GridOrder
<1>5. q = k
  BY <1>3, <1>4
<1>6. (k * p) % p = k * p - p * q
  BY <1>1, <1>2, Z3
<1>7. QED
  BY <1>5, <1>6, Z3

-----------------------------------------------------------------------------
(* A channel: what it holds is of the grid of its period.                  *)

SamplesOf(V) == [t : Int, v : V]
ChannelOf(V) == [period : Int, next : Int, since : Int, born : Int, buf : Seq(SamplesOf(V))]

Holds(s, d) == \E i \in 1..Len(s) : s[i].t = d

\* The samples of s, up to the instant n, are in order, before the next one of
\* the grid, and on the grid since the instant `since`.
Stamped(s, p, next, since, n) ==
  /\ Rising(s)
  /\ \A i \in 1..Len(s) : s[i].t <= n /\ s[i].t < next * p
  /\ \A i \in 1..Len(s) : s[i].t > since => \E k \in Int : s[i].t = k * p

\* The period is one of those allowed, and the next sample is in due time.
Sampled(ch, n) ==
  /\ ch.period \in MinPeriod..MaxPeriod
  /\ (ch.next - 1) * ch.period <= n
  /\ Stamped(ch.buf, ch.period, ch.next, ch.since, n)

LEMMA SamplesAre ==
  ASSUME NEW p \in Nat \ {0}, NEW from \in Int, NEW to \in Int, NEW V, NEW v \in V
  PROVE  LET s == Samples(p, from, to, v)
         IN  /\ s \in Seq(SamplesOf(V))
             /\ Len(s) = IF from <= to THEN to - from + 1 ELSE 0
             /\ \A i \in 1..Len(s) : s[i].t = (from + i - 1) * p /\ s[i].v = v
             /\ Rising(s)
<1> DEFINE s == Samples(p, from, to, v)
           n == IF from <= to THEN to - from + 1 ELSE 0
<1>1. n \in Nat
  OBVIOUS
<1>2. s = [i \in 1..n |-> [t |-> (from + i - 1) * p, v |-> v]]
  BY DEF Samples
<1> HIDE DEF n, s
<1>3. \A i \in 1..n : from + i - 1 \in Int /\ (from + i - 1) * p \in Int
  BY <1>1
<1>4. s \in Seq(SamplesOf(V)) /\ Len(s) = n
  BY <1>1, <1>2, <1>3 DEF SamplesOf
<1>5. \A i \in 1..n : s[i].t = (from + i - 1) * p /\ s[i].v = v
  BY <1>2
<1>6. Rising(s)
  <2>1. ASSUME NEW i \in 1..n, NEW j \in 1..n, i < j PROVE s[i].t < s[j].t
    <3>1. from + i - 1 \in Int /\ from + j - 1 \in Int /\ from + i - 1 < from + j - 1
      BY <1>1, <2>1
    <3>2. (from + i - 1) * p < (from + j - 1) * p
      BY ONLY <3>1, p \in Nat \ {0}, GridOrder
    <3>3. QED
      BY <1>5, <3>2
  <2>2. QED
    BY <1>4, <2>1 DEF Rising
<1>7. QED
  BY <1>4, <1>5, <1>6 DEF n, s

(* tick(): the samples due follow those of the history, on the grid, none  *)
(* too late; and no number of the grid is passed over but by a process that*)
(* slept too long.                                                         *)
Since(ch, n) == IF Late(ch, n) THEN n - 1 ELSE ch.since
LEMMA DueIs ==
  ASSUME NEW V, NEW v \in V, NEW ch \in ChannelOf(V), NEW n \in Int, Sampled(ch, n)
  PROVE  LET due == Due(ch, n, v)
             p == ch.period
             next == From(ch, n) + Len(due)
         IN  /\ due \in Seq(SamplesOf(V)) /\ Len(due) \in Nat /\ next \in Int /\ Rising(due)
             /\ ch.next * p <= next * p /\ (next - 1) * p <= n
             /\ \A i \in 1..Len(due) :
                   /\ due[i].t \in Int /\ due[i].v = v /\ \E k \in Int : due[i].t = k * p
                   /\ ch.next * p <= due[i].t /\ due[i].t < next * p
                   /\ n - CatchUp <= due[i].t /\ due[i].t <= n
             /\ \A k \in Int : k < next /\ k * p > Since(ch, n) =>
                   (k < ch.next /\ k * p > ch.since) \/ Holds(due, k * p)
<1> DEFINE due == Due(ch, n, v)
           p == ch.period
           from == From(ch, n)
           to == n \div p
           next == from + Len(due)
<1>1. p \in Nat \ {0} /\ ch.next \in Int /\ ch.since \in Int /\ CatchUp \in Nat /\ ch.next * p \in Int
  BY SamplingAssumption DEF Sampled, ChannelOf
<1>2. to \in Int /\ to * p <= n /\ n < to * p + p
  BY <1>1, GridQuotient
<1>3. ch.next - 1 \in Int /\ (ch.next - 1) * p <= n /\ (ch.next - 1) * p = ch.next * p - p
  BY <1>1, GridOrder DEF Sampled
<1>4. from \in Int /\ ch.next * p <= from * p /\ n - CatchUp <= from * p /\ from * p - p <= n
  <2>1. CASE Late(ch, n)
    <3>1. from = Ceil(n, p)
      BY <2>1 DEF From
    <3>2. from \in Int /\ n <= from * p /\ from * p < n + p
      BY <1>1, <3>1, GridCeil
    <3>3. n - ch.next * p > CatchUp
      BY <2>1 DEF Late
    <3>4. from * p \in Int
      BY <1>1, <3>2
    <3>5. QED
      BY ONLY <1>1, <3>2, <3>3, <3>4, n \in Int
  <2>2. CASE ~Late(ch, n)
    <3>1. from = ch.next
      BY <2>2 DEF From
    <3>2. n - ch.next * p <= CatchUp
      BY <1>1, <2>2 DEF Late
    <3>3. QED
      BY ONLY <1>1, <1>3, <3>1, <3>2, n \in Int
  <2>3. QED
    BY <2>1, <2>2
<1>5. Late(ch, n) => \A k \in Int : k < from => k * p <= n - 1
  <2>1. SUFFICES ASSUME Late(ch, n), NEW k \in Int, k < from PROVE k * p <= n - 1
    OBVIOUS
  <2>2. from = Ceil(n, p)
    BY <2>1 DEF From
  <2>3. from * p < n + p
    BY <1>1, <2>2, GridCeil
  <2>4. k * p + p <= from * p /\ k * p \in Int /\ from * p \in Int
    BY <1>1, <1>4, <2>1, GridOrder
  <2>5. QED
    BY ONLY <1>1, <2>3, <2>4, n \in Int
<1>6. ~Late(ch, n) => from = ch.next
  BY DEF From
<1>7. due = Samples(p, from, to, v)
  BY DEF Due
<1> HIDE DEF p, from, to, due
<1>8. /\ due \in Seq(SamplesOf(V)) /\ Rising(due)
      /\ Len(due) = IF from <= to THEN to - from + 1 ELSE 0
      /\ \A i \in 1..Len(due) : due[i].t = (from + i - 1) * p /\ due[i].v = v
  <2>1. p \in Nat \ {0} /\ from \in Int /\ to \in Int /\ v \in V
    BY <1>1, <1>2, <1>4
  <2>2. LET r == Samples(p, from, to, v)
        IN  /\ r \in Seq(SamplesOf(V))
            /\ Len(r) = IF from <= to THEN to - from + 1 ELSE 0
            /\ \A i \in 1..Len(r) : r[i].t = (from + i - 1) * p /\ r[i].v = v
            /\ Rising(r)
    BY ONLY <2>1, SamplesAre, Zenon
  <2>3. QED
    BY ONLY <1>7, <2>2
<1>9. Len(due) \in Nat /\ next \in Int /\ from <= next
      /\ (next = from \/ (next = to + 1 /\ from <= to))
  <2>1. Len(due) \in Nat
    BY <1>8
  <2>2. next = from + Len(due)
    BY DEF next
  <2>3. QED
    BY ONLY <1>2, <1>4, <1>8, <2>1, <2>2
<1> HIDE DEF next
<1>10. ch.next * p <= next * p /\ (next - 1) * p <= n /\ next * p \in Int
  <2>1. from * p <= next * p /\ next * p \in Int /\ from * p \in Int
        /\ (next - 1) * p = next * p - p
    BY <1>1, <1>4, <1>9, GridOrder
  <2>2. CASE next = from
    BY <1>1, <1>4, <2>1, <2>2
  <2>3. CASE next = to + 1
    <3>1. (next - 1) * p = to * p
      BY <1>2, <2>3
    <3>2. QED
      BY ONLY <1>1, <1>2, <1>4, <2>1, <3>1
  <2>4. QED
    BY <1>9, <2>2, <2>3
<1>11. ASSUME NEW i \in 1..Len(due)
       PROVE  /\ due[i].t \in Int /\ due[i].v = v /\ \E k \in Int : due[i].t = k * p
              /\ ch.next * p <= due[i].t /\ due[i].t < next * p
              /\ n - CatchUp <= due[i].t /\ due[i].t <= n
  <2>1. PICK k \in Int : k = from + i - 1
    BY <1>4, <1>9
  <2>2. due[i].t = k * p /\ due[i].v = v
    BY <1>8, <2>1
  <2>3. from <= k /\ k <= to /\ k < next
    BY <1>2, <1>4, <1>8, <1>9, <2>1 DEF next
  <2>4. from * p <= k * p /\ k * p <= to * p /\ k * p < next * p /\ k * p \in Int /\ from * p \in Int
        /\ to * p \in Int
    BY ONLY <1>1, <1>2, <1>4, <1>9, <2>3, k \in Int, GridOrder
  <2>5. ch.next * p <= k * p /\ n - CatchUp <= k * p /\ k * p <= n
    BY ONLY <1>1, <1>2, <1>4, <2>4, n \in Int
  <2>6. QED
    BY ONLY <2>2, <2>4, <2>5, k \in Int
<1>12. ASSUME NEW k \in Int, k < next, k * p > Since(ch, n)
       PROVE  (k < ch.next /\ k * p > ch.since) \/ Holds(due, k * p)
  <2>1. CASE from <= k
    <3>1. k - from + 1 \in 1..Len(due) /\ from + (k - from + 1) - 1 = k
      BY <1>4, <1>9, <1>12, <2>1 DEF next
    <3>2. due[k - from + 1].t = k * p
      BY <1>8, <3>1
    <3>3. QED
      BY <3>1, <3>2 DEF Holds
  <2>2. CASE k < from
    <3>1. ~Late(ch, n)
      <4>1. k * p \in Int
        BY <1>1
      <4>2. SUFFICES ASSUME Late(ch, n) PROVE FALSE
        OBVIOUS
      <4>3. k * p <= n - 1 /\ k * p > n - 1
        BY <1>5, <1>12, <2>2, <4>2 DEF Since
      <4>4. QED
        BY <4>1, <4>3
    <3>2. QED
      BY <1>6, <1>12, <2>2, <3>1 DEF Since
  <2>3. QED
    BY <1>4, <2>1, <2>2
<1>13. QED
  BY <1>8, <1>9, <1>10, <1>11, <1>12 DEF p, from, due, next

(* The history with the samples due after it is stamped as one.            *)
LEMMA TickedIs ==
  ASSUME NEW V, NEW v \in V, NEW ch \in ChannelOf(V), NEW n \in Int, Sampled(ch, n)
  PROVE  LET due == Due(ch, n, v)
             s == ch.buf \o due
         IN  /\ s \in Seq(SamplesOf(V)) /\ Len(s) = Len(ch.buf) + Len(due)
             /\ Stamped(s, ch.period, From(ch, n) + Len(due), Since(ch, n), n)
             /\ \A i \in 1..Len(ch.buf) : s[i] = ch.buf[i]
             /\ \A i \in 1..Len(due) : s[Len(ch.buf) + i] = due[i]
             /\ Since(ch, n) \in Int
<1> DEFINE due == Due(ch, n, v)
           p == ch.period
           b == ch.buf
           s == b \o due
           next == From(ch, n) + Len(due)
<1>1. /\ due \in Seq(SamplesOf(V)) /\ Len(due) \in Nat /\ next \in Int /\ Rising(due)
      /\ ch.next * p <= next * p
      /\ \A i \in 1..Len(due) :
            /\ due[i].t \in Int /\ due[i].v = v /\ \E k \in Int : due[i].t = k * p
            /\ ch.next * p <= due[i].t /\ due[i].t < next * p
            /\ n - CatchUp <= due[i].t /\ due[i].t <= n
  BY DueIs
<1>2. p \in Nat \ {0} /\ ch.next \in Int /\ ch.since \in Int /\ b \in Seq(SamplesOf(V))
      /\ ch.next * p \in Int /\ next * p \in Int
  BY <1>1, SamplingAssumption DEF Sampled, ChannelOf
<1>3. Stamped(b, p, ch.next, ch.since, n)
  BY DEF Sampled
<1> HIDE DEF due, p, b, next
<1>4. /\ s \in Seq(SamplesOf(V)) /\ Len(s) = Len(b) + Len(due) /\ Len(b) \in Nat
      /\ \A i \in 1..Len(b) : s[i] = b[i]
      /\ \A i \in 1..Len(due) : s[Len(b) + i] = due[i]
  BY <1>1, <1>2
<1> HIDE DEF s
<1>5. \A i \in 1..Len(s) :
         i \in 1..Len(b) \/ (i - Len(b) \in 1..Len(due) /\ s[i] = due[i - Len(b)])
  <2>1. ASSUME NEW i \in 1..Len(s), i \notin 1..Len(b)
        PROVE  i - Len(b) \in 1..Len(due) /\ s[i] = due[i - Len(b)]
    <3>1. i - Len(b) \in 1..Len(due) /\ Len(b) + (i - Len(b)) = i
      BY ONLY <1>1, <1>4, <2>1
    <3>2. QED
      BY <1>4, <3>1
  <2>2. QED
    BY ONLY <2>1
<1>6. \A i \in 1..Len(b) : b[i].t \in Int /\ b[i].t <= n /\ b[i].t < ch.next * p
  <2>1. \A i \in 1..Len(b) : b[i] \in SamplesOf(V)
    BY <1>2
  <2>2. \A i \in 1..Len(b) : b[i].t \in Int
    BY <2>1 DEF SamplesOf
  <2>3. QED
    BY <1>3, <2>2 DEF Stamped
<1>7. Rising(s)
  <2>1. ASSUME NEW i \in 1..Len(s), NEW j \in 1..Len(s), i < j PROVE s[i].t < s[j].t
    <3>1. CASE i \in 1..Len(b) /\ j \in 1..Len(b)
      BY <1>3, <1>4, <2>1, <3>1 DEF Stamped, Rising
    <3>2. CASE i \in 1..Len(b) /\ j - Len(b) \in 1..Len(due) /\ s[j] = due[j - Len(b)]
      <4>1. s[i].t \in Int /\ s[i].t < ch.next * p /\ ch.next * p <= s[j].t /\ s[j].t \in Int
        BY <1>1, <1>4, <1>6, <3>2
      <4>2. QED
        BY ONLY <1>2, <4>1
    <3>3. CASE i - Len(b) \in 1..Len(due) /\ s[i] = due[i - Len(b)]
               /\ j - Len(b) \in 1..Len(due) /\ s[j] = due[j - Len(b)]
      <4>1. i - Len(b) < j - Len(b)
        BY <1>4, <2>1
      <4>2. QED
        BY <1>1, <3>3, <4>1 DEF Rising
    <3>4. CASE i - Len(b) \in 1..Len(due) /\ j \in 1..Len(b)
      BY <1>4, <2>1, <3>4
    <3>5. QED
      BY <1>5, <3>1, <3>2, <3>3, <3>4
  <2>2. QED
    BY <2>1 DEF Rising
<1>8. ASSUME NEW i \in 1..Len(s) PROVE s[i].t <= n /\ s[i].t < next * p
  <2>1. CASE i \in 1..Len(b)
    <3>1. s[i].t \in Int /\ s[i].t <= n /\ s[i].t < ch.next * p
      BY <1>4, <1>6, <2>1
    <3>2. QED
      BY ONLY <1>1, <1>2, <3>1
  <2>2. CASE i - Len(b) \in 1..Len(due) /\ s[i] = due[i - Len(b)]
    BY <1>1, <2>2
  <2>3. QED
    BY <1>5, <2>1, <2>2
<1>9. Since(ch, n) \in Int /\ (ch.since <= Since(ch, n) \/ (Since(ch, n) = n - 1 /\ Late(ch, n)))
  BY <1>2, n - 1 \in Int DEF Since
<1>10. ASSUME NEW i \in 1..Len(s), s[i].t > Since(ch, n) PROVE \E k \in Int : s[i].t = k * p
  <2>1. CASE i \in 1..Len(b)
    <3>1. s[i] = b[i] /\ s[i].t \in Int /\ s[i].t < ch.next * p
      BY <1>4, <1>6, <2>1
    <3>2. CASE ch.since <= Since(ch, n)
      <4>1. b[i].t > ch.since
        BY ONLY <1>2, <1>9, <1>10, <3>1, <3>2
      <4>2. QED
        BY <1>3, <2>1, <3>1, <4>1 DEF Stamped
    <3>3. CASE Since(ch, n) = n - 1 /\ Late(ch, n)
      <4>1. ch.next * p < n
        BY <1>2, <3>3, SamplingAssumption DEF Late, p
      <4>2. QED
        <5>1. s[i].t > n - 1
          BY <1>10, <3>3
        <5>2. \A d, m \in Int : d < m /\ m < n => ~ (d > n - 1)
          OBVIOUS
        <5>3. QED
          BY ONLY <1>2, <3>1, <4>1, <5>1, <5>2
    <3>4. QED
      BY <1>9, <3>2, <3>3
  <2>2. CASE i - Len(b) \in 1..Len(due) /\ s[i] = due[i - Len(b)]
    BY <1>1, <2>2
  <2>3. QED
    BY <1>5, <2>1, <2>2
<1>11. Stamped(s, p, next, Since(ch, n), n)
  BY <1>7, <1>8, <1>10 DEF Stamped
<1>12. QED
  BY <1>4, <1>9, <1>11 DEF due, p, b, s, next

(* The number after an instant.                                            *)
LEMMA NextIs ==
  ASSUME NEW n \in Int, NEW p \in Nat \ {0}
  PROVE  LET next == n \div p + 1
         IN  /\ next \in Int /\ n < next * p /\ (next - 1) * p <= n
             /\ \A k \in Int : k < next => k * p <= n
<1>1. PICK q \in Int : q = n \div p /\ q * p <= n /\ n < q * p + p
  BY GridQuotient
<1>2. (q + 1) * p = q * p + p /\ q + 1 \in Int /\ (q + 1) - 1 = q
  BY GridOrder
<1>3. ASSUME NEW k \in Int, k < q + 1 PROVE k * p <= n
  <2>1. k <= q
    BY <1>3
  <2>2. k * p <= q * p /\ k * p \in Int /\ q * p \in Int
    BY <2>1, GridOrder
  <2>3. QED
    BY ONLY <1>1, <2>2, n \in Int
<1>4. QED
  BY <1>1, <1>2, <1>3

(* The history that a first subscription fills.                            *)
LEMMA FilledIs ==
  ASSUME NEW V, NEW g \in V, NEW p \in Nat \ {0}, NEW n \in Int, NEW h \in Nat
  PROVE  LET s == Samples(p, Ceil(n - h, p), n \div p, g)
             next == n \div p + 1
         IN  /\ s \in Seq(SamplesOf(V)) /\ Stamped(s, p, next, n - h - 1, n)
             /\ \A i \in 1..Len(s) : s[i].v = g /\ n - h <= s[i].t
             /\ \A k \in Int : k < next /\ k * p > n - h - 1 => Holds(s, k * p)
<1> DEFINE from == Ceil(n - h, p)
           to == n \div p
           s == Samples(p, from, to, g)
           next == to + 1
<1>1. n - h \in Int /\ from \in Int /\ n - h <= from * p /\ from * p < n - h + p
  BY GridCeil
<1>2. to \in Int /\ to * p <= n /\ next \in Int /\ n < next * p
      /\ \A k \in Int : k < next => k * p <= n
  BY GridQuotient, NextIs
<1>3. /\ s \in Seq(SamplesOf(V))
      /\ Len(s) = IF from <= to THEN to - from + 1 ELSE 0
      /\ \A i \in 1..Len(s) : s[i].t = (from + i - 1) * p /\ s[i].v = g
      /\ Rising(s)
  <2>1. p \in Nat \ {0} /\ from \in Int /\ to \in Int /\ g \in V
    BY <1>1, <1>2
  <2> HIDE DEF from, to, s
  <2>2. LET r == Samples(p, from, to, g)
        IN  /\ r \in Seq(SamplesOf(V))
            /\ Len(r) = IF from <= to THEN to - from + 1 ELSE 0
            /\ \A i \in 1..Len(r) : r[i].t = (from + i - 1) * p /\ r[i].v = g
            /\ Rising(r)
    BY ONLY <2>1, SamplesAre, Zenon
  <2>3. s = Samples(p, from, to, g)
    BY DEF s
  <2>4. QED
    BY ONLY <2>2, <2>3
<1> HIDE DEF s, from, to
<1>4. ASSUME NEW i \in 1..Len(s)
      PROVE  s[i].t <= n /\ s[i].t < next * p /\ n - h <= s[i].t /\ \E k \in Int : s[i].t = k * p
  <2>1. PICK k \in Int : k = from + i - 1
    BY <1>1, <1>3
  <2>2. s[i].t = k * p
    BY <1>3, <2>1
  <2>3. from <= k /\ k <= to /\ k < next
    BY <1>1, <1>2, <1>3, <2>1
  <2>4. from * p <= k * p /\ k * p < next * p /\ k * p <= n /\ k * p \in Int /\ from * p \in Int
    BY ONLY <1>1, <1>2, <2>3, k \in Int, p \in Nat \ {0}, GridOrder
  <2>5. n - h <= k * p
    BY ONLY <1>1, <2>4
  <2>6. QED
    BY ONLY <2>2, <2>4, <2>5, k \in Int
<1>5. ASSUME NEW k \in Int, k < next, k * p > n - h - 1 PROVE Holds(s, k * p)
  <2>1. from <= k
    <3>1. k * p \in Int /\ from * p \in Int /\ n - h <= k * p
      BY <1>1, <1>5
    <3>2. from * p < k * p + p /\ (k + 1) * p = k * p + p /\ k + 1 \in Int
      BY <1>1, <3>1, GridOrder
    <3>3. from < k + 1
      BY ONLY <1>1, <3>2, p \in Nat \ {0}, GridOrder
    <3>4. QED
      BY <1>1, <3>3
  <2>2. k - from + 1 \in 1..Len(s) /\ from + (k - from + 1) - 1 = k
    <3>1. k <= to /\ from <= to
      BY ONLY <1>1, <1>2, <1>5, <2>1
    <3>2. Len(s) = to - from + 1
      BY ONLY <1>3, <3>1
    <3>3. QED
      BY ONLY <1>1, <1>2, <2>1, <3>1, <3>2, k \in Int
  <2>3. s[k - from + 1].t = k * p
    BY <1>3, <2>2
  <2>4. QED
    BY <2>2, <2>3 DEF Holds
<1>6. Stamped(s, p, next, n - h - 1, n)
  BY <1>3, <1>4 DEF Stamped
<1>7. QED
  BY <1>3, <1>4, <1>5, <1>6 DEF s, from, to

(* What time, a tighter period and trimming keep.                          *)
LEMMA StampedLater ==
  ASSUME NEW V, NEW s \in Seq(SamplesOf(V)), NEW p \in Int, NEW next \in Int, NEW since \in Int,
         NEW n \in Int, Stamped(s, p, next, since, n),
         NEW since2 \in Int, NEW n2 \in Int, since <= since2, n <= n2
  PROVE  Stamped(s, p, next, since2, n2)
<1>1. \A i \in 1..Len(s) : s[i] \in SamplesOf(V)
  OBVIOUS
<1>2. \A i \in 1..Len(s) : s[i].t \in Int
  BY <1>1 DEF SamplesOf
<1>3. \A i \in 1..Len(s) : s[i].t <= n => s[i].t <= n2
  BY <1>2
<1>4. \A i \in 1..Len(s) : s[i].t > since2 => s[i].t > since
  BY <1>2
<1>5. QED
  BY <1>3, <1>4 DEF Stamped

LEMMA StampedAnew ==
  ASSUME NEW V, NEW s \in Seq(SamplesOf(V)), NEW p \in Int, NEW next \in Int, NEW since \in Int,
         NEW n \in Int, Stamped(s, p, next, since, n), NEW q \in Nat \ {0}
  PROVE  Stamped(s, q, n \div q + 1, n, n)
<1>1. \A i \in 1..Len(s) : s[i] \in SamplesOf(V)
  OBVIOUS
<1>2. \A i \in 1..Len(s) : s[i].t \in Int /\ s[i].t <= n
  BY <1>1 DEF SamplesOf, Stamped
<1>3. n \div q + 1 \in Int /\ n < (n \div q + 1) * q
  BY NextIs
<1>4. PICK m \in Int : m = (n \div q + 1) * q
  BY ONLY <1>3, q \in Nat
<1>5. \A i \in 1..Len(s) : s[i].t < m /\ ~ (s[i].t > n)
  BY ONLY <1>2, <1>3, <1>4, n \in Int
<1>6. QED
  BY <1>4, <1>5 DEF Stamped

LEMMA StampedDates ==
  ASSUME NEW V, NEW s \in Seq(SamplesOf(V)), Rising(s)
  PROVE  Dates(s) /\ Sorted(s) /\ \A i \in 1..Len(s) : s[i] \in SamplesOf(V) /\ s[i].t \in Int /\ s[i].v \in V
<1>1. \A i \in 1..Len(s) : s[i] \in SamplesOf(V)
  OBVIOUS
<1>2. \A i \in 1..Len(s) : s[i].t \in Int /\ s[i].v \in V
  BY <1>1 DEF SamplesOf
<1>3. QED
  BY <1>1, <1>2 DEF Dates, Sorted, Rising

LEMMA TrimmedStamped ==
  ASSUME NEW V, NEW s \in Seq(SamplesOf(V)), NEW p \in Int, NEW next \in Int, NEW since \in Int,
         NEW n \in Int, Stamped(s, p, next, since, n), NEW d \in Int
  PROVE  /\ Trimmed(s, d) \in Seq(SamplesOf(V)) /\ Stamped(Trimmed(s, d), p, next, since, n)
         /\ Among(Trimmed(s, d), s)
         /\ \A t \in Int : Holds(s, t) /\ t >= d => Holds(Trimmed(s, d), t)
         /\ Trimmed(s, d) # <<>> => Trimmed(s, d)[Len(Trimmed(s, d))] = s[Len(s)]
<1> DEFINE r == Trimmed(s, d)
<1>1. Rising(s) /\ Dates(s) /\ Sorted(s)
  BY StampedDates DEF Stamped
<1>2. r \in Seq(SamplesOf(V)) /\ \E k \in 0..Len(s) : Suffix(r, s, k) /\ \A i \in 1..Len(s) : s[i].t >= d <=> i > k
  BY <1>1, TrimmedIs
<1> HIDE DEF r
<1>3. PICK k \in 0..Len(s) : Suffix(r, s, k) /\ \A i \in 1..Len(s) : s[i].t >= d <=> i > k
  BY <1>2
<1>4. Among(r, s) /\ Rising(r) /\ (r # <<>> => r[Len(r)] = s[Len(s)])
  BY <1>1, <1>2, <1>3, SuffixKeeps
<1>5. Stamped(r, p, next, since, n)
  <2>1. \A i \in 1..Len(r) : \E j \in 1..Len(s) : r[i] = s[j]
    BY <1>4 DEF Among
  <2>2. QED
    BY <1>4, <2>1 DEF Stamped
<1>6. ASSUME NEW t \in Int, Holds(s, t), t >= d PROVE Holds(r, t)
  <2>1. PICK i \in 1..Len(s) : s[i].t = t
    BY <1>6 DEF Holds
  <2>2. i > k
    BY <1>3, <1>6, <2>1
  <2>3. i - k \in 1..Len(r) /\ k + (i - k) = i
    BY <1>3, <2>2 DEF Suffix
  <2>4. r[i - k] = s[i]
    BY <1>3, <2>3 DEF Suffix
  <2>5. QED
    BY <2>1, <2>3, <2>4 DEF Holds
<1>7. QED
  BY <1>2, <1>4, <1>5, <1>6 DEF r

-----------------------------------------------------------------------------
(* A campaign over the controller source: the inductive invariant.         *)

RowOf == [iso : Nat, t : Nat, whole : BOOLEAN]
FileOf == [head : {"absent", "empty", "new", "old"}, rows : Seq(RowOf), torn : BOOLEAN]
CampaignOf == [on : BOOLEAN, from : 0..MaxTime, cursor : 0..MaxTime, readAt : 0..MaxTime,
               header : BOOLEAN]

Typed ==
  /\ now \in 0..MaxTime /\ boot \in 1..MaxBoots
  /\ chan \in ChannelOf(Value) /\ holders \in SUBSET {"session", "campaign"}
  /\ forced \in Forced \cup {None} /\ order \in [v : Forced \cup {None}, at : 0..MaxTime]
  /\ rec \in CampaignOf /\ (rec.on <=> "campaign" \in holders)
  /\ file \in FileOf /\ aside \in FileOf

\* What is sampled is of the grid, and shows the value in force.
Channel == IF holders = {} THEN chan = NoChannel ELSE Sampled(chan, now)
InForce == order.v = forced /\ order.at <= now /\ chan.born <= now /\ ForceInForce

InFile(d) == \E i \in 1..Len(file.rows) : file.rows[i].iso = Iso(d)

\* Of the dates the channel has been through since the campaign began, those it
\* has passed are in the file; the others are held, and too young to be dropped.
Kept(d) ==
  IF d > rec.cursor THEN rec.readAt - CatchUp <= d /\ Holds(chan.buf, d) ELSE InFile(d)
Paced ==
  /\ rec.from <= rec.cursor /\ rec.cursor <= now
  /\ rec.readAt <= now /\ now - rec.readAt <= Lag
Behind == rec.cursor = rec.from \/ rec.cursor < chan.next * chan.period
Entire ==
  \A k \in Int :
     k < chan.next /\ k * chan.period > rec.from /\ k * chan.period > chan.since
        => Kept(k * chan.period)
Followed == rec.on => Paced /\ Behind /\ Entire

\* The rows go forward, up to the cursor of the campaign or to the present; and
\* the header is there, or the campaign still has it to write.
Ascending(rows) == \A i, j \in 1..Len(rows) : i < j => rows[i].iso < rows[j].iso
UpTo(rows, d) == \A i \in 1..Len(rows) : rows[i].iso <= d
Plain(f) == f.head \in {"absent", "empty"} => f.rows = <<>> /\ ~f.torn
Filed ==
  /\ Ascending(file.rows) /\ Plain(file) /\ Plain(aside)
  /\ UpTo(file.rows, Iso(IF rec.on THEN rec.cursor ELSE now))
  /\ rec.on => file.head = IF rec.header THEN "empty" ELSE "new"

JInv == Typed /\ Channel /\ InForce /\ Followed /\ Filed

LEMMA Constants ==
  /\ MinPeriod \in Nat \ {0} /\ MaxPeriod \in Nat /\ MinPeriod <= MaxPeriod
  /\ Horizon \in Nat /\ CatchUp \in Nat /\ Lag \in Nat \ {0} /\ Lag + CatchUp <= Horizon
  /\ MaxTime \in Nat /\ MaxBoots \in Nat \ {0} /\ Periods \subseteq Int
  BY SamplingAssumption, JournalAssumption

LEMMA TypedFacts ==
  ASSUME Typed
  PROVE  /\ now \in Int /\ 0 <= now /\ now <= MaxTime /\ boot \in Nat \ {0}
         /\ rec.from \in Int /\ rec.cursor \in Int /\ rec.readAt \in Int /\ rec.from >= 0
         /\ rec.on \in BOOLEAN /\ rec.header \in BOOLEAN /\ order.at \in Int
         /\ chan.period \in Int /\ chan.next \in Int /\ chan.since \in Int /\ chan.born \in Int
         /\ chan.buf \in Seq(SamplesOf(Value))
         /\ file.rows \in Seq(RowOf)
<1>1. now \in Int /\ 0 <= now /\ now <= MaxTime /\ boot \in Nat \ {0}
  BY Constants DEF Typed
<1>2. /\ rec.from \in 0..MaxTime /\ rec.cursor \in 0..MaxTime /\ rec.readAt \in 0..MaxTime
      /\ rec.on \in BOOLEAN /\ rec.header \in BOOLEAN
  BY DEF Typed, CampaignOf
<1>3. order.at \in 0..MaxTime
  BY DEF Typed
<1>4. /\ chan.period \in Int /\ chan.next \in Int /\ chan.since \in Int /\ chan.born \in Int
      /\ chan.buf \in Seq(SamplesOf(Value))
  BY DEF Typed, ChannelOf
<1>5. file.rows \in Seq(RowOf)
  BY DEF Typed, FileOf
<1>6. QED
  BY <1>1, <1>2, <1>3, <1>4, <1>5, Constants

LEMMA NoChannelIs == NoChannel \in ChannelOf(Value) /\ NoChannel.buf = <<>> /\ NoChannel.born = 0
<1>1. <<>> \in Seq(SamplesOf(Value))
  OBVIOUS
<1>2. QED
  BY <1>1 DEF NoChannel, ChannelOf

LEMMA PeriodOfIs ==
  ASSUME NEW asked \in Int
  PROVE  PeriodOf(asked) \in MinPeriod..MaxPeriod
  BY Constants DEF PeriodOf

(* A subscription leaves the channel as it is, or begins another grid: the *)
(* dates of its numbers are then of the past.                              *)
BegunAt(ch, n) == ch.since = n /\ n < ch.next * ch.period /\ \A k \in Int : k < ch.next => k * ch.period <= n
Begun(ch) == BegunAt(ch, now)

LEMMA TightenedIs ==
  ASSUME NEW n \in Int, NEW ch \in ChannelOf(Value), Sampled(ch, n), NEW p \in MinPeriod..MaxPeriod
  PROVE  LET r == Tightened(ch, p, n)
         IN  /\ r \in ChannelOf(Value) /\ Sampled(r, n) /\ (r = ch \/ BegunAt(r, n))
             /\ r.buf = ch.buf /\ r.born = ch.born
<1> DEFINE r == Tightened(ch, p, n)
           next == n \div p + 1
<1>1. p \in Nat \ {0} /\ p \in Int
  BY Constants
<1>2. next \in Int /\ n < next * p /\ (next - 1) * p <= n /\ \A k \in Int : k < next => k * p <= n
  BY <1>1, NextIs
<1>3. CASE p < ch.period
  <2>1. r = [ch EXCEPT !.period = p, !.next = next, !.since = n]
    BY <1>3 DEF Tightened
  <2>2. /\ ch.buf \in Seq(SamplesOf(Value)) /\ ch.born \in Int /\ ch.period \in Int /\ ch.next \in Int
        /\ ch.since \in Int /\ ch = [period |-> ch.period, next |-> ch.next, since |-> ch.since,
                                     born |-> ch.born, buf |-> ch.buf]
    BY DEF ChannelOf
  <2>3. Stamped(ch.buf, ch.period, ch.next, ch.since, n)
    BY DEF Sampled
  <2>4. Stamped(ch.buf, p, next, n, n)
    BY <1>1, <2>2, <2>3, StampedAnew
  <2> HIDE DEF next
  <2>5. r = [period |-> p, next |-> next, since |-> n, born |-> ch.born, buf |-> ch.buf]
    BY <2>1, <2>2
  <2>6. r \in ChannelOf(Value)
    BY <1>1, <1>2, <2>5, <2>2 DEF ChannelOf
  <2>7. Sampled(r, n)
    BY <1>1, <1>2, <2>5, <2>4 DEF Sampled
  <2>8. BegunAt(r, n)
    BY <1>2, <2>5 DEF BegunAt
  <2>9. QED
    BY <2>5, <2>6, <2>7, <2>8
<1>4. CASE ~(p < ch.period)
  BY <1>4 DEF Tightened
<1>5. QED
  BY <1>3, <1>4
LEMMA SubscribedIs ==
  ASSUME Typed, NEW ch \in ChannelOf(Value), NEW who, NEW asked \in Int, who # {} => Sampled(ch, now)
  PROVE  LET r == Subscribed(ch, who, asked)
         IN  /\ r \in ChannelOf(Value) /\ Sampled(r, now)
             /\ (who # {} /\ r = ch) \/ Begun(r)
             /\ who # {} => r.buf = ch.buf /\ r.born = ch.born
             /\ who = {} => r.born = now
<1> DEFINE p == PeriodOf(asked)
           r == Subscribed(ch, who, asked)
           next == now \div p + 1
<1>1. p \in MinPeriod..MaxPeriod /\ p \in Nat \ {0} /\ p \in Int
  BY PeriodOfIs, Constants
<1>2. now \in Int
  BY TypedFacts
<1>3. next \in Int /\ now < next * p /\ (next - 1) * p <= now /\ \A k \in Int : k < next => k * p <= now
  BY <1>1, <1>2, NextIs
<1>4. CASE who = {}
  <2> DEFINE s == Samples(p, Ceil(now - Horizon, p), now \div p, Generated)
  <2>1. r = [period |-> p, next |-> next, since |-> now, born |-> now, buf |-> s]
    BY <1>4 DEF Subscribed, NewChannel
  <2>2. Generated \in Value
    BY DEF Value
  <2>3. s \in Seq(SamplesOf(Value)) /\ Stamped(s, p, next, now - Horizon - 1, now)
    BY <1>1, <1>2, <2>2, Constants, FilledIs
  <2> HIDE DEF s, p, next
  <2>4. now - Horizon - 1 \in Int /\ now - Horizon - 1 <= now
    BY <1>2, Constants
  <2>5. Stamped(s, p, next, now, now)
    BY <1>1, <1>2, <1>3, <2>3, <2>4, StampedLater
  <2>6. r \in ChannelOf(Value)
    BY <1>1, <1>2, <1>3, <2>1, <2>3 DEF ChannelOf
  <2>7. Sampled(r, now)
    BY <1>1, <1>3, <2>1, <2>5 DEF Sampled
  <2>8. Begun(r)
    BY <1>3, <2>1 DEF Begun, BegunAt
  <2>9. QED
    BY <1>4, <2>1, <2>6, <2>7, <2>8
<1>5. CASE who # {}
  <2>1. r = Tightened(ch, p, now)
    BY <1>5 DEF Subscribed
  <2> HIDE DEF p, r
  <2>2. /\ r \in ChannelOf(Value) /\ Sampled(r, now) /\ (r = ch \/ BegunAt(r, now))
        /\ r.buf = ch.buf /\ r.born = ch.born
    BY <1>1, <1>2, <1>5, <2>1, TightenedIs
  <2>3. QED
    BY <1>5, <2>2 DEF Begun, r, p
<1>7. QED
  BY <1>4, <1>5

(* What a channel shows under the order in force.                          *)
Obeys(ch, o) ==
  \A i \in 1..Len(ch.buf) :
     ch.buf[i].t > o.at /\ ch.buf[i].t > ch.born =>
        ch.buf[i].v = IF o.v = None THEN Generated ELSE o.v

LEMMA BufDomain ==
  ASSUME NEW V, NEW ch \in ChannelOf(V)
  PROVE  DOMAIN ch.buf = 1..Len(ch.buf)
<1>1. ch.buf \in Seq(SamplesOf(V))
  BY DEF ChannelOf
<1>2. QED
  BY <1>1

LEMMA ForceIs == ASSUME chan \in ChannelOf(Value) PROVE ForceInForce <=> Obeys(chan, order)
  BY BufDomain DEF ForceInForce, Obeys

LEMMA ForceWillBe ==
  ASSUME chan' \in ChannelOf(Value), Obeys(chan', order')
  PROVE  ForceInForce'
  BY BufDomain DEF ForceInForce, Obeys

LEMMA SubscribedObeys ==
  ASSUME Typed, NEW ch \in ChannelOf(Value), NEW who, NEW asked \in Int, who # {} => Sampled(ch, now),
         who # {} => ch.born <= now /\ Obeys(ch, order)
  PROVE  LET r == Subscribed(ch, who, asked) IN r.born <= now /\ Obeys(r, order)
<1> DEFINE r == Subscribed(ch, who, asked)
<1>1. /\ r \in ChannelOf(Value) /\ Sampled(r, now)
      /\ who # {} => r.buf = ch.buf /\ r.born = ch.born
      /\ who = {} => r.born = now
  BY SubscribedIs
<1> HIDE DEF r
<1>2. CASE who = {}
  <2>1. \A i \in 1..Len(r.buf) : r.buf[i].t <= now
    BY <1>1 DEF Sampled, Stamped
  <2>2. r.buf \in Seq(SamplesOf(Value)) /\ Rising(r.buf)
    BY <1>1 DEF ChannelOf, Sampled, Stamped
  <2>3. \A i \in 1..Len(r.buf) : r.buf[i].t \in Int
    BY <2>2, StampedDates
  <2>4. \A i \in 1..Len(r.buf) : ~ (r.buf[i].t > r.born)
    <3>1. now \in Int /\ r.born = now
      BY <1>1, <1>2, TypedFacts
    <3>2. QED
      BY ONLY <2>1, <2>3, <3>1
  <2>5. QED
    BY <1>1, <1>2, <2>4, TypedFacts DEF Obeys, r
<1>3. CASE who # {}
  BY <1>1, <1>3 DEF Obeys, r
<1>4. QED
  BY <1>2, <1>3

(* The dates of a row: those of a life are in the order of its clock.      *)
LEMMA IsoOrder ==
  ASSUME Typed, NEW d \in Int, NEW e \in Int
  PROVE  /\ Iso(d) \in Int /\ Iso(e) \in Int /\ (d < e <=> Iso(d) < Iso(e)) /\ (d <= e <=> Iso(d) <= Iso(e))
         /\ d >= 0 => Iso(d) \in Nat
<1>1. boot * (MaxTime + 1) \in Nat
  BY TypedFacts, Constants
<1>2. PICK m \in Nat : m = boot * (MaxTime + 1)
  BY <1>1
<1>3. Iso(d) = m + d /\ Iso(e) = m + e
  BY <1>2 DEF Iso
<1>4. QED
  BY ONLY <1>3, m \in Nat, d \in Int, e \in Int

LEMMA UpToLater ==
  ASSUME NEW rows \in Seq(RowOf), NEW d \in Int, NEW e \in Int,
         UpTo(rows, d), d <= e
  PROVE  UpTo(rows, e)
<1>1. \A i \in 1..Len(rows) : rows[i] \in RowOf
  OBVIOUS
<1>2. \A i \in 1..Len(rows) : rows[i].iso \in Nat
  BY <1>1 DEF RowOf
<1>3. QED
  BY <1>2 DEF UpTo

LEMMA TimeKeeps == JInv /\ Time => JInv'
<1>1. SUFFICES ASSUME JInv, Time PROVE JInv'
  OBVIOUS
<1>2. Typed /\ Channel /\ InForce /\ Followed /\ Filed
  BY <1>1 DEF JInv
<1>3. /\ now < MaxTime /\ now' = now + 1 /\ (rec.on => now - rec.readAt < Lag)
      /\ UNCHANGED <<boot, chan, holders, forced, order, rec, file, aside>>
  BY <1>1 DEF Time, sourceVars
<1>4. now \in Int /\ 0 <= now /\ now + 1 \in Int /\ now <= now + 1
  BY <1>2, TypedFacts
<1>5. Typed'
  <2>1. now' \in 0..MaxTime
    BY <1>3, <1>4, Constants
  <2>2. QED
    BY <1>2, <1>3, <2>1 DEF Typed
<1>6. Channel'
  <2>1. CASE holders = {}
    BY <1>2, <1>3, <2>1 DEF Channel
  <2>2. CASE holders # {}
    <3>1. Sampled(chan, now)
      BY <1>2, <2>2 DEF Channel
    <3>2. Stamped(chan.buf, chan.period, chan.next, chan.since, now)
      BY <3>1 DEF Sampled
    <3>3. Stamped(chan.buf, chan.period, chan.next, chan.since, now + 1)
      BY <1>2, <1>4, <3>2, TypedFacts, StampedLater
    <3>4. (chan.next - 1) * chan.period \in Int
      BY <1>2, TypedFacts
    <3>5. (chan.next - 1) * chan.period <= now + 1
      BY <1>4, <3>1, <3>4 DEF Sampled
    <3>6. Sampled(chan, now + 1)
      BY <3>1, <3>3, <3>5 DEF Sampled
    <3>7. QED
      BY <1>3, <2>2, <3>6 DEF Channel, Sampled, Stamped, Rising
  <2>3. QED
    BY <2>1, <2>2
<1>7. InForce'
  <2>1. order.v = forced /\ order.at <= now /\ chan.born <= now /\ ForceInForce
    BY <1>2 DEF InForce
  <2>2. order.at \in Int /\ chan.born \in Int
    BY <1>2, TypedFacts
  <2>3. order.at <= now + 1 /\ chan.born <= now + 1
    BY ONLY <1>4, <2>1, <2>2
  <2>4. QED
    BY <1>3, <2>1, <2>3 DEF InForce, ForceInForce
<1>8. Followed'
  <2>1. SUFFICES ASSUME rec.on PROVE Followed'
    BY <1>3 DEF Followed
  <2>2. Paced /\ Behind /\ Entire
    BY <1>2, <2>1 DEF Followed
  <2>5. Paced'
    <3>1. rec.cursor \in Int /\ rec.readAt \in Int /\ rec.from \in Int /\ Lag \in Int
      BY <1>2, TypedFacts, Constants
    <3>2. now - rec.readAt < Lag
      BY <1>3, <2>1
    <3>3. rec.cursor <= now + 1 /\ rec.readAt <= now + 1 /\ now + 1 - rec.readAt <= Lag
      BY ONLY <1>4, <2>2, <3>1, <3>2 DEF Paced
    <3>4. now' = now + 1 /\ rec' = rec
      BY <1>3
    <3>5. QED
      BY ONLY <1>4, <2>2, <3>1, <3>3, <3>4 DEF Paced
  <2>3. \A d : Kept(d)' <=> Kept(d)
    BY <1>3 DEF Kept, Holds, InFile, Iso
  <2>4. QED
    BY <1>3, <2>2, <2>3, <2>5 DEF Followed, Behind, Entire
<1>9. Filed'
  <2>1. UpTo(file.rows, Iso(IF rec.on THEN rec.cursor ELSE now + 1))
    <3>1. CASE rec.on
      BY <1>2, <3>1 DEF Filed
    <3>2. CASE ~rec.on
      <4>1. UpTo(file.rows, Iso(now))
        BY <1>2, <3>2 DEF Filed
      <4>2. Iso(now) \in Int /\ Iso(now + 1) \in Int /\ Iso(now) <= Iso(now + 1)
        BY <1>2, <1>4, IsoOrder
      <4>3. UpTo(file.rows, Iso(now + 1))
        BY <1>2, <4>1, <4>2, TypedFacts, UpToLater
      <4>4. QED
        BY <3>2, <4>3
    <3>3. QED
      BY <3>1, <3>2
  <2>2. QED
    BY <1>2, <1>3, <2>1 DEF Filed, Ascending, Plain, UpTo, Iso
<1>10. QED
  BY <1>5, <1>6, <1>7, <1>8, <1>9 DEF JInv

(* What leaves the campaign and its file alone keeps what is said of them, *)
(* when the channel begins another grid.                                   *)
LEMMA BegunFollowed ==
  ASSUME Typed, Followed, NEW ch \in ChannelOf(Value), Begun(ch) \/ ch = chan,
         UNCHANGED <<now, boot, rec, file>>, chan' = ch
  PROVE  Followed'
<1>1. SUFFICES ASSUME rec.on PROVE Followed'
  BY DEF Followed
<1>3. CASE ch = chan
  <2>1. \A d : Kept(d)' <=> Kept(d)
    BY <1>3 DEF Kept, Holds, InFile, Iso
  <2>2. QED
    BY <1>1, <1>3, <2>1 DEF Followed, Paced, Behind, Entire
<1>4. CASE Begun(ch)
  <2>1. /\ now \in Int /\ rec.cursor \in Int /\ rec.cursor <= now
        /\ ch.period \in Int /\ ch.next \in Int /\ ch.next * ch.period \in Int
    <3>1. Paced /\ now \in Int /\ rec.cursor \in Int
      BY <1>1, TypedFacts DEF Followed
    <3>2. ch.period \in Int /\ ch.next \in Int
      BY DEF ChannelOf
    <3>3. QED
      BY ONLY <3>1, <3>2 DEF Paced
  <2>2. rec.cursor < ch.next * ch.period
    BY ONLY <1>4, <2>1 DEF Begun, BegunAt
  <2>3. \A k \in Int : k < ch.next => ~ (k * ch.period > ch.since)
    <3>1. ASSUME NEW k \in Int, k < ch.next PROVE ~ (k * ch.period > ch.since)
      <4>1. k * ch.period \in Int /\ k * ch.period <= now /\ ch.since = now
        BY <1>4, <2>1, <3>1 DEF Begun, BegunAt
      <4>2. QED
        BY ONLY <2>1, <4>1
    <3>2. QED
      BY <3>1
  <2>4. QED
    BY <1>1, <2>2, <2>3 DEF Followed, Paced, Behind, Entire
<1>5. QED
  BY <1>3, <1>4

LEMMA FiledStays ==
  ASSUME Filed, UNCHANGED <<now, boot, rec, file, aside>>
  PROVE  Filed'
  BY DEF Filed, Ascending, Plain, UpTo, Iso

LEMMA SessionSubKeeps ==
  ASSUME JInv, NEW asked \in Periods, SessionSub(asked)
  PROVE  JInv'
<1> DEFINE r == Subscribed(chan, holders, asked)
<1>1. Typed /\ Channel /\ InForce /\ Followed /\ Filed
  BY DEF JInv
<1>2. /\ chan' = r /\ holders' = holders \cup {"session"}
      /\ UNCHANGED <<now, boot, forced, order, rec, file, aside>>
  BY DEF SessionSub
<1>3. asked \in Int /\ chan \in ChannelOf(Value) /\ (holders # {} => Sampled(chan, now))
  BY <1>1, Constants DEF Typed, Channel
<1>4. order.v = forced /\ order.at <= now /\ chan.born <= now /\ Obeys(chan, order)
  BY <1>1, ForceIs DEF InForce, Typed
<1>5. r \in ChannelOf(Value) /\ Sampled(r, now) /\ (Begun(r) \/ r = chan)
  BY <1>1, <1>3, SubscribedIs
<1>6. r.born <= now /\ Obeys(r, order)
  BY <1>1, <1>3, <1>4, SubscribedObeys
<1> HIDE DEF r
<1>7. Typed'
  BY <1>1, <1>2, <1>5 DEF Typed
<1>8. Channel'
  BY <1>2, <1>5 DEF Channel, Sampled, Stamped, Rising
<1>9. InForce'
  <2>1. Obeys(chan', order')
    BY <1>2, <1>6
  <2>2. ForceInForce'
    BY <1>2, <1>5, <2>1, ForceWillBe
  <2>3. QED
    BY <1>2, <1>4, <1>6, <2>2 DEF InForce
<1>10. Followed'
  BY <1>1, <1>2, <1>5, BegunFollowed
<1>11. Filed'
  BY <1>1, <1>2, FiledStays
<1>12. QED
  BY <1>7, <1>8, <1>9, <1>10, <1>11 DEF JInv

(* Nothing else than the channel and the orders changes.                   *)
LEMMA SessionUnsubKeeps == JInv /\ SessionUnsub => JInv'
<1>1. SUFFICES ASSUME JInv, SessionUnsub PROVE JInv'
  OBVIOUS
<1>2. Typed /\ Channel /\ InForce /\ Followed /\ Filed
  BY <1>1 DEF JInv
<1>3. /\ chan' = Left(chan, holders \ {"session"}) /\ holders' = holders \ {"session"} /\ holders # {}
      /\ UNCHANGED <<now, boot, forced, order, rec, file, aside>>
  BY <1>1 DEF SessionUnsub
<1>4. CASE holders' = {}
  <2>1. chan' = NoChannel /\ ~rec.on
    BY <1>2, <1>3, <1>4 DEF Left, Typed
  <2>2. Typed'
    BY <1>2, <1>3, <2>1, NoChannelIs DEF Typed
  <2>3. InForce'
    <3>1. Obeys(chan', order') /\ chan'.born <= now
      BY <1>2, <2>1, NoChannelIs, TypedFacts DEF Obeys
    <3>2. ForceInForce'
      BY <2>1, <3>1, NoChannelIs, ForceWillBe
    <3>3. QED
      BY <1>2, <1>3, <3>1, <3>2 DEF InForce
  <2>4. Channel' /\ Followed'
    BY <1>3, <1>4, <2>1 DEF Channel, Followed, NoChannel
  <2>5. QED
    BY <1>2, <1>3, <2>2, <2>3, <2>4, FiledStays DEF JInv
<1>5. CASE holders' # {}
  <2>1. chan' = chan
    BY <1>3, <1>5 DEF Left
  <2>2. Typed'
    BY <1>2, <1>3, <2>1 DEF Typed
  <2>3. InForce'
    BY <1>2, <1>3, <2>1 DEF InForce, ForceInForce
  <2>4. Channel'
    BY <1>2, <1>3, <1>5, <2>1 DEF Channel, Sampled, Stamped, Rising
  <2>5. Followed'
    BY <1>2, <1>3, <2>1, BegunFollowed DEF Typed
  <2>6. QED
    BY <1>2, <1>3, <2>2, <2>3, <2>4, <2>5, FiledStays DEF JInv
<1>6. QED
  BY <1>4, <1>5

LEMMA SessionWriteKeeps ==
  ASSUME JInv, NEW v \in Forced \cup {None}, SessionWrite(v)
  PROVE  JInv'
<1>2. Typed /\ Channel /\ InForce /\ Followed /\ Filed
  BY DEF JInv
<1>3. /\ forced' = v /\ order' = IF v = order.v THEN order ELSE [v |-> v, at |-> now]
      /\ UNCHANGED <<now, boot, chan, holders, rec, file, aside>>
  BY DEF SessionWrite, Write
<1>4. Typed'
  BY <1>2, <1>3 DEF Typed
<1>5. Channel'
  BY <1>2, <1>3 DEF Channel, Sampled, Stamped, Rising
<1>6. Followed'
  BY <1>2, <1>3, BegunFollowed DEF Typed
<1>7. InForce'
  <2>1. order.v = forced /\ order.at <= now /\ chan.born <= now /\ Obeys(chan, order)
    BY <1>2, ForceIs DEF InForce, Typed
  <2>2. CASE v = order.v
    BY <1>2, <1>3, <2>2 DEF InForce, ForceInForce
  <2>3. CASE v # order.v
    <3>1. order' = [v |-> v, at |-> now]
      BY <1>3, <2>3
    <3>2. now \in Int /\ chan.buf \in Seq(SamplesOf(Value)) /\ chan \in ChannelOf(Value)
      BY <1>2, TypedFacts DEF Typed
    <3>3. \A i \in 1..Len(chan.buf) : ~ (chan.buf[i].t > now)
      <4>1. CASE holders = {}
        BY <1>2, <4>1, NoChannelIs DEF Channel
      <4>2. CASE holders # {}
        <5>1. Rising(chan.buf) /\ \A i \in 1..Len(chan.buf) : chan.buf[i].t <= now
          BY <1>2, <4>2 DEF Channel, Sampled, Stamped
        <5>2. \A i \in 1..Len(chan.buf) : chan.buf[i].t \in Int
          BY <3>2, <5>1, StampedDates
        <5>3. QED
          BY ONLY <3>2, <5>1, <5>2
      <4>3. QED
        BY <4>1, <4>2
    <3>4. Obeys(chan', order')
      BY <1>3, <3>1, <3>3 DEF Obeys
    <3>5. ForceInForce'
      BY <1>3, <3>2, <3>4, ForceWillBe
    <3>6. order'.at <= now /\ order'.v = v
      BY <3>1, <3>2
    <3>7. QED
      BY <1>3, <2>1, <3>5, <3>6 DEF InForce
  <2>4. QED
    BY <2>2, <2>3
<1>8. QED
  BY <1>2, <1>3, <1>4, <1>5, <1>6, <1>7, FiledStays DEF JInv

(* The sampling thread.                                                    *)
LEMMA YoungEnough ==
  ASSUME NEW d \in Int, NEW last \in Int, NEW readAt \in Int, NEW n \in Int, last <= n,
         n - readAt <= Lag, readAt - CatchUp <= d
  PROVE  last - Horizon <= d
  BY Constants

LEMMA SampleKeeps == JInv /\ Sample => JInv'
<1>1. SUFFICES ASSUME JInv, Sample PROVE JInv'
  OBVIOUS
<1>2. Typed /\ Channel /\ InForce /\ Followed /\ Filed
  BY <1>1 DEF JInv
<1>0. PICK p \in Int : p = chan.period
  BY <1>2, TypedFacts
<1> DEFINE v == IF forced = None THEN Generated ELSE forced
           due == Due(chan, now, v)
           s == chan.buf \o due
           next == From(chan, now) + Len(due)
           d == due[Len(due)].t - Horizon
           r == Pushed(chan.buf, due)
<1>3. /\ holders # {} /\ chan' = Ticked(chan, now, v)
      /\ UNCHANGED <<now, boot, holders, forced, order, rec, file, aside>>
  BY <1>1 DEF Sample
<1>4. v \in Value /\ chan \in ChannelOf(Value) /\ now \in Int /\ Sampled(chan, now)
  BY <1>2, <1>3, TypedFacts DEF Typed, Channel, Value
<1>5. /\ due \in Seq(SamplesOf(Value)) /\ Len(due) \in Nat /\ next \in Int
      /\ chan.next * p <= next * p /\ (next - 1) * p <= now
      /\ \A i \in 1..Len(due) :
            /\ due[i].t \in Int /\ due[i].v = v
            /\ chan.next * p <= due[i].t /\ now - CatchUp <= due[i].t /\ due[i].t <= now
      /\ \A k \in Int : k < next /\ k * p > Since(chan, now) =>
            (k < chan.next /\ k * p > chan.since) \/ Holds(due, k * p)
  <2>1. LET due2 == Due(chan, now, v)
            p2 == chan.period
            next2 == From(chan, now) + Len(due2)
        IN  /\ due2 \in Seq(SamplesOf(Value)) /\ Len(due2) \in Nat /\ next2 \in Int
            /\ chan.next * p2 <= next2 * p2 /\ (next2 - 1) * p2 <= now
            /\ \A i \in 1..Len(due2) :
                  /\ due2[i].t \in Int /\ due2[i].v = v
                  /\ chan.next * p2 <= due2[i].t /\ now - CatchUp <= due2[i].t /\ due2[i].t <= now
            /\ \A k \in Int : k < next2 /\ k * p2 > Since(chan, now) =>
                  (k < chan.next /\ k * p2 > chan.since) \/ Holds(due2, k * p2)
    BY <1>4, DueIs
  <2>2. QED
    BY <1>0, <2>1, Zenon
<1>6. /\ s \in Seq(SamplesOf(Value)) /\ Len(s) = Len(chan.buf) + Len(due)
      /\ Stamped(s, p, next, Since(chan, now), now)
      /\ \A i \in 1..Len(chan.buf) : s[i] = chan.buf[i]
      /\ \A i \in 1..Len(due) : s[Len(chan.buf) + i] = due[i]
      /\ Since(chan, now) \in Int
  <2>1. LET due2 == Due(chan, now, v)
            s2 == chan.buf \o due2
        IN  /\ s2 \in Seq(SamplesOf(Value)) /\ Len(s2) = Len(chan.buf) + Len(due2)
            /\ Stamped(s2, chan.period, From(chan, now) + Len(due2), Since(chan, now), now)
            /\ \A i \in 1..Len(chan.buf) : s2[i] = chan.buf[i]
            /\ \A i \in 1..Len(due2) : s2[Len(chan.buf) + i] = due2[i]
            /\ Since(chan, now) \in Int
    <3> HIDE DEF v
    <3>1. QED
      BY ONLY <1>4, TickedIs, Zenon
  <2>2. QED
    BY <1>0, <2>1
<1>7. p \in Nat \ {0} /\ p \in MinPeriod..MaxPeriod /\ chan.next \in Int /\ chan.buf \in Seq(SamplesOf(Value))
      /\ chan.born \in Int /\ chan.since \in Int /\ chan.next * p \in Int
  BY <1>0, <1>4, Constants DEF Sampled, ChannelOf
<1>8. chan = [period |-> p, next |-> chan.next, since |-> chan.since, born |-> chan.born, buf |-> chan.buf]
  BY <1>0, <1>4 DEF ChannelOf
<1>9. chan' = [period |-> p, next |-> next, since |-> Since(chan, now), born |-> chan.born, buf |-> r]
  <2>1. chan' = [chan EXCEPT !.next = next, !.since = Since(chan, now), !.buf = r]
    BY <1>3 DEF Ticked, Since
  <2> HIDE DEF next, r
  <2>2. QED
    BY <1>0, <1>4, <2>1 DEF ChannelOf
<1> HIDE DEF v, due, s, next
<1>10. /\ r \in Seq(SamplesOf(Value)) /\ Stamped(r, p, next, Since(chan, now), now) /\ Among(r, s)
       /\ \A t \in Int : Holds(s, t) /\ t >= d => Holds(r, t)
  <2>1. CASE due = <<>>
    <3>1. r = chan.buf /\ s = chan.buf
      BY <1>7, <2>1 DEF Pushed, s
    <3>2. Among(s, s)
      BY DEF Among
    <3>3. QED
      BY <1>6, <3>1, <3>2
  <2>2. CASE due # <<>>
    <3>1. r = Trimmed(s, d)
      BY <2>2 DEF Pushed, s
    <3>2. d \in Int
      BY <1>5, <2>2, Constants
    <3>3. next \in Int /\ p \in Int
      BY <1>5, <1>7
    <3> HIDE DEF r, d
    <3>4. QED
      BY <1>4, <1>6, <3>1, <3>2, <3>3, TrimmedStamped
  <2>3. QED
    BY <2>1, <2>2
<1>11. due # <<>> => due[Len(due)].t \in Int /\ due[Len(due)].t <= now
  BY <1>5
<1> HIDE DEF r
<1>12. chan' \in ChannelOf(Value)
  BY <1>5, <1>6, <1>7, <1>9, <1>10 DEF ChannelOf
<1>13. Typed'
  BY <1>2, <1>3, <1>12 DEF Typed
<1>14. Sampled(chan', now)
  BY <1>5, <1>7, <1>9, <1>10 DEF Sampled
<1>15. Channel'
  BY <1>3, <1>14 DEF Channel, Sampled, Stamped, Rising
<1>16. InForce'
  <2>1. order.v = forced /\ order.at <= now /\ chan.born <= now /\ Obeys(chan, order)
    BY <1>2, ForceIs DEF InForce, Typed
  <2>2. \A i \in 1..Len(s) :
           s[i].t > order.at /\ s[i].t > chan.born => s[i].v = IF order.v = None THEN Generated ELSE order.v
    <3>1. TAKE i \in 1..Len(s)
    <3>2. CASE i \in 1..Len(chan.buf)
      BY <1>6, <2>1, <3>2 DEF Obeys
    <3>3. CASE i \notin 1..Len(chan.buf)
      <4>1. i - Len(chan.buf) \in 1..Len(due) /\ Len(chan.buf) + (i - Len(chan.buf)) = i
        <5>1. Len(chan.buf) \in Nat /\ Len(due) \in Nat /\ Len(s) = Len(chan.buf) + Len(due)
          BY <1>5, <1>6, <1>7
        <5>2. QED
          BY ONLY i \in 1..Len(s), <3>3, <5>1
      <4>2. s[i].v = v
        BY <1>5, <1>6, <4>1
      <4>3. QED
        BY <2>1, <4>2 DEF v
    <3>4. QED
      BY <3>2, <3>3
  <2>3. Obeys(chan', order')
    <3>1. chan'.buf = r /\ chan'.born = chan.born /\ order' = order
      BY <1>3, <1>9
    <3>2. QED
      BY <1>10, <2>2, <3>1 DEF Obeys, Among
  <2>4. ForceInForce'
    BY <1>12, <2>3, ForceWillBe
  <2>5. QED
    BY <1>3, <1>9, <2>1, <2>4 DEF InForce
<1>17. Followed'
  <2>1. SUFFICES ASSUME rec.on PROVE Followed'
    BY <1>3 DEF Followed
  <2>2. Paced /\ Behind /\ Entire
    BY <1>2, <2>1 DEF Followed
  <2>3. rec.cursor \in Int /\ rec.readAt \in Int /\ rec.from \in Int
    BY <1>2, TypedFacts
  <2>4. Paced'
    BY <1>3, <2>2 DEF Paced
  <2>5. PICK m \in Int : m = next * p
    BY <1>5, <1>7
  <2>6. Behind'
    <3>1. rec.cursor = rec.from \/ rec.cursor < chan.next * p
      BY <1>0, <2>2 DEF Behind
    <3>2. rec.cursor = rec.from \/ rec.cursor < m
      BY ONLY <1>5, <1>7, <2>3, <2>5, <3>1
    <3>3. QED
      BY <1>3, <1>9, <2>5, <3>2 DEF Behind
  <2>7. ASSUME NEW k \in Int, k < next, k * p > rec.from, k * p > Since(chan, now)
        PROVE  IF k * p > rec.cursor THEN rec.readAt - CatchUp <= k * p /\ Holds(r, k * p) ELSE InFile(k * p)
    <3>1. k * p \in Int
      BY <1>7
    <3>2. ASSUME Holds(s, k * p), rec.readAt - CatchUp <= k * p PROVE Holds(r, k * p)
      <4>1. CASE due = <<>>
        BY <1>7, <3>2, <4>1 DEF r, Pushed, s
      <4>2. CASE due # <<>>
        <5>1. now - rec.readAt <= Lag
          BY <2>2 DEF Paced
        <5>2. d <= k * p
          BY <1>4, <1>11, <2>3, <3>1, <3>2, <4>2, <5>1, YoungEnough
        <5>3. d \in Int
          BY <1>11, <4>2, Constants
        <5> HIDE DEF d
        <5>4. QED
          BY <1>10, <3>1, <3>2, <5>2, <5>3
      <4>3. QED
        BY <4>1, <4>2
    <3>3. CASE k < chan.next /\ k * p > chan.since
      <4>1. Kept(k * p)
        BY <1>0, <2>2, <2>7, <3>3 DEF Entire
      <4>2. Holds(chan.buf, k * p) => Holds(s, k * p)
        <5>1. Len(chan.buf) \in Nat /\ \A i \in 1..Len(chan.buf) : i \in 1..Len(s)
          BY <1>5, <1>6, <1>7
        <5>2. QED
          BY <1>6, <5>1 DEF Holds
      <4>3. QED
        BY <3>2, <4>1, <4>2 DEF Kept
    <3>4. CASE Holds(due, k * p)
      <4>1. PICK i \in 1..Len(due) : due[i].t = k * p
        BY <3>4 DEF Holds
      <4>2. chan.next * p <= k * p /\ now - CatchUp <= k * p
        BY <1>5, <4>1
      <4>3. rec.cursor < k * p
        <5>1. rec.cursor = rec.from \/ rec.cursor < chan.next * p
          BY <1>0, <2>2 DEF Behind
        <5>2. QED
          BY ONLY <1>7, <2>3, <2>7, <3>1, <4>2, <5>1
      <4>4. rec.readAt - CatchUp <= k * p
        <5>1. rec.readAt <= now
          BY <2>2 DEF Paced
        <5>2. QED
          BY ONLY <1>4, <2>3, <3>1, <4>2, <5>1, Constants
      <4>5. Holds(s, k * p)
        <5>1. Len(chan.buf) + i \in 1..Len(s) /\ s[Len(chan.buf) + i] = due[i]
          BY <1>5, <1>6, <1>7
        <5>2. QED
          BY <4>1, <5>1 DEF Holds
      <4>6. QED
        BY <3>1, <3>2, <4>3, <4>4, <4>5
    <3>5. QED
      BY <1>5, <2>7, <3>3, <3>4
  <2>8. Entire'
    <3>1. \A e : InFile(e)' <=> InFile(e)
      BY <1>3 DEF InFile, Iso
    <3>2. chan'.period = p /\ chan'.next = next /\ chan'.since = Since(chan, now) /\ chan'.buf = r /\ rec' = rec
      BY <1>3, <1>9
    <3>3. ASSUME NEW k \in Int, k < next, k * p > rec.from, k * p > Since(chan, now)
          PROVE  Kept(k * p)'
      <4>1. PICK e \in Int : e = k * p
        OBVIOUS
      <4>2. IF e > rec.cursor THEN rec.readAt - CatchUp <= e /\ Holds(r, e) ELSE InFile(e)
        BY <2>7, <3>3, <4>1
      <4>3. Kept(e)'
        BY <3>1, <3>2, <4>2 DEF Kept
      <4>4. QED
        BY <4>1, <4>3
    <3>4. QED
      BY <3>2, <3>3 DEF Entire
  <2>9. QED
    BY <2>4, <2>6, <2>8 DEF Followed
<1>18. QED
  BY <1>2, <1>3, <1>13, <1>15, <1>16, <1>17, FiledStays DEF JInv

-----------------------------------------------------------------------------
(* The file.                                                               *)

Prolongs(g, f) ==
  /\ Len(g.rows) >= Len(f.rows)
  /\ \A i \in 1..Len(f.rows) : g.rows[i] = f.rows[i]

LEMMA RowsAre ==
  ASSUME Typed, NEW V, NEW b \in Seq(SamplesOf(V)), \A i \in 1..Len(b) : b[i].t \in Nat
  PROVE  /\ Rows(b) \in Seq(RowOf) /\ Len(Rows(b)) = Len(b)
         /\ \A i \in 1..Len(b) : Rows(b)[i].iso = Iso(b[i].t)
<1>1. Rows(b) = [i \in 1..Len(b) |-> Row(b[i])] /\ Len(b) \in Nat
  BY DEF Rows
<1>2. ASSUME NEW i \in 1..Len(b) PROVE Row(b[i]) \in RowOf /\ Row(b[i]).iso = Iso(b[i].t)
  <2>1. b[i].t \in Nat /\ b[i].t \in Int /\ b[i].t >= 0
    OBVIOUS
  <2>2. Iso(b[i].t) \in Nat
    BY <2>1, IsoOrder
  <2>3. QED
    BY <2>1, <2>2 DEF Row, RowOf
<1>3. QED
  BY <1>1, <1>2

\* What is appended to a file, the first row on a line that may be torn.
LEMMA AppendedIs ==
  ASSUME NEW f \in FileOf, NEW rows \in Seq(RowOf)
  PROVE  LET g == Appended(f, rows)
         IN  /\ g \in FileOf /\ g.head = f.head /\ Prolongs(g, f)
             /\ Len(g.rows) = Len(f.rows) + Len(rows)
             /\ \A i \in 1..Len(rows) : g.rows[Len(f.rows) + i].iso = rows[i].iso
<1> DEFINE g == Appended(f, rows)
           new == [rows EXCEPT ![1].whole = ~f.torn]
<1>1. /\ f.rows \in Seq(RowOf) /\ f.head \in {"absent", "empty", "new", "old"} /\ f.torn \in BOOLEAN
      /\ Len(f.rows) \in Nat /\ Len(rows) \in Nat
  BY DEF FileOf
<1>2. CASE rows = <<>>
  BY <1>1, <1>2 DEF Appended, Prolongs
<1>3. CASE rows # <<>>
  <2>1. g = [f EXCEPT !.rows = f.rows \o new, !.torn = FALSE]
    BY <1>3 DEF Appended
  <2>2. 1 \in 1..Len(rows)
    BY <1>1, <1>3
  <2>3. ASSUME NEW i \in 1..Len(rows) PROVE new[i] \in RowOf /\ new[i].iso = rows[i].iso
    <3>1. rows[i] \in RowOf /\ rows[1] \in RowOf
      BY <2>2
    <3>2. CASE i = 1
      <4>1. new[i] = [rows[1] EXCEPT !.whole = ~f.torn]
        BY <2>2, <3>2
      <4>2. QED
        BY <1>1, <3>1, <3>2, <4>1 DEF RowOf
    <3>3. CASE i # 1
      BY <3>1, <3>3
    <3>4. QED
      BY <3>2, <3>3
  <2>4. DOMAIN new = 1..Len(rows)
    OBVIOUS
  <2>50. new = [i \in 1..Len(rows) |-> new[i]]
    BY <2>4
  <2> HIDE DEF new
  <2>5. new \in Seq(RowOf) /\ Len(new) = Len(rows)
    BY <1>1, <2>3, <2>50
  <2>6. f.rows \o new \in Seq(RowOf)
    BY ONLY <1>1, <2>5
  <2>61. f = [head |-> f.head, rows |-> f.rows, torn |-> f.torn]
    BY DEF FileOf
  <2>62. g = [head |-> f.head, rows |-> f.rows \o new, torn |-> FALSE]
    BY ONLY <2>1, <2>61
  <2> HIDE DEF g
  <2>63. g \in FileOf
    BY ONLY <1>1, <2>6, <2>62 DEF FileOf
  <2>64. g.head = f.head /\ g.rows = f.rows \o new
    BY ONLY <2>62
  <2>7. /\ Len(g.rows) = Len(f.rows) + Len(rows)
        /\ \A i \in 1..Len(f.rows) : g.rows[i] = f.rows[i]
        /\ \A i \in 1..Len(rows) : g.rows[Len(f.rows) + i] = new[i]
    <3> DEFINE b == f.rows
               s == b \o new
    <3>1. b \in Seq(RowOf) /\ new \in Seq(RowOf)
      BY <1>1, <2>5
    <3> HIDE DEF b
    <3>2. /\ Len(s) = Len(b) + Len(new)
          /\ \A i \in 1..Len(b) : s[i] = b[i]
          /\ \A i \in 1..Len(new) : s[Len(b) + i] = new[i]
      BY ONLY <3>1
    <3> HIDE DEF s
    <3>3. b = f.rows /\ g.rows = s /\ Len(new) = Len(rows)
      BY <2>5, <2>64 DEF b, s
    <3>4. QED
      BY ONLY <3>2, <3>3
  <2>8. QED
    BY <1>1, <2>3, <2>63, <2>64, <2>7 DEF Prolongs, g
<1>4. QED
  BY <1>2, <1>3

\* Rows later than those of the file go on with it.
LEMMA AppendedGoesOn ==
  ASSUME NEW f \in FileOf, NEW rows \in Seq(RowOf), NEW d \in Int, NEW e \in Int, d <= e,
         Ascending(f.rows), UpTo(f.rows, d), Ascending(rows), UpTo(rows, e),
         \A i \in 1..Len(rows) : d < rows[i].iso
  PROVE  Ascending(Appended(f, rows).rows) /\ UpTo(Appended(f, rows).rows, e)
<1> DEFINE g == Appended(f, rows)
           m == Len(f.rows)
<1>1. /\ g \in FileOf /\ Len(g.rows) = m + Len(rows) /\ \A i \in 1..m : g.rows[i] = f.rows[i]
      /\ \A i \in 1..Len(rows) : g.rows[m + i].iso = rows[i].iso
  BY AppendedIs DEF Prolongs
<1>2. f.rows \in Seq(RowOf) /\ m \in Nat /\ Len(rows) \in Nat
  BY DEF FileOf
<1>3. /\ \A i \in 1..m : f.rows[i] \in RowOf /\ f.rows[i].iso <= d
      /\ \A i \in 1..Len(rows) : rows[i] \in RowOf /\ rows[i].iso <= e
  BY <1>2 DEF UpTo
<1>4. /\ \A i \in 1..m : f.rows[i].iso \in Int /\ f.rows[i].iso <= d
      /\ \A i \in 1..Len(rows) : rows[i].iso \in Int /\ rows[i].iso <= e
  BY <1>3 DEF RowOf
<1> HIDE DEF g, m
<1>5. \A i \in 1..Len(g.rows) :
         \/ i \in 1..m /\ g.rows[i] = f.rows[i]
         \/ i - m \in 1..Len(rows) /\ g.rows[i].iso = rows[i - m].iso
  <2>1. ASSUME NEW i \in 1..Len(g.rows), i \notin 1..m
        PROVE  i - m \in 1..Len(rows) /\ g.rows[i].iso = rows[i - m].iso
    <3>1. i - m \in 1..Len(rows) /\ m + (i - m) = i
      BY ONLY <1>1, <1>2, <2>1
    <3>2. QED
      BY <1>1, <3>1
  <2>2. QED
    BY <1>1, <2>1
<1>6. ASSUME NEW i \in 1..Len(g.rows), NEW j \in 1..Len(g.rows), i < j PROVE g.rows[i].iso < g.rows[j].iso
  <2>1. CASE i \in 1..m /\ j \in 1..m
    BY <1>1, <1>6, <2>1 DEF Ascending, m
  <2>2. CASE i \in 1..m /\ j - m \in 1..Len(rows) /\ g.rows[j].iso = rows[j - m].iso
    <3>1. g.rows[i].iso \in Int /\ g.rows[i].iso <= d /\ d < g.rows[j].iso /\ g.rows[j].iso \in Int
      BY <1>1, <1>4, <2>2
    <3>2. QED
      BY ONLY <3>1, d \in Int
  <2>3. CASE i - m \in 1..Len(rows) /\ g.rows[i].iso = rows[i - m].iso
             /\ j - m \in 1..Len(rows) /\ g.rows[j].iso = rows[j - m].iso
    <3>1. i - m < j - m
      BY ONLY <1>2, <1>6, i \in Int, j \in Int
    <3>2. QED
      BY <2>3, <3>1 DEF Ascending
  <2>4. CASE i - m \in 1..Len(rows) /\ j \in 1..m
    BY ONLY <1>2, <1>6, <2>4
  <2>5. QED
    BY <1>5, <2>1, <2>2, <2>3, <2>4
<1>7. ASSUME NEW i \in 1..Len(g.rows) PROVE g.rows[i].iso <= e
  <2>1. CASE i \in 1..m /\ g.rows[i] = f.rows[i]
    <3>1. g.rows[i].iso \in Int /\ g.rows[i].iso <= d
      BY <1>4, <2>1
    <3>2. QED
      BY ONLY <3>1, d \in Int, e \in Int, d <= e
  <2>2. CASE i - m \in 1..Len(rows) /\ g.rows[i].iso = rows[i - m].iso
    BY <1>4, <2>2
  <2>3. QED
    BY <1>5, <2>1, <2>2
<1>8. QED
  BY <1>6, <1>7 DEF Ascending, UpTo, g

\* What flush() reads: what the history holds beyond the cursor.
LEMMA BatchIs ==
  ASSUME Typed, Channel, Paced, rec.on
  PROVE  /\ Batch \in Seq(SamplesOf(Value)) /\ Rising(Batch)
         /\ \A i \in 1..Len(Batch) :
               Batch[i].t \in Int /\ rec.cursor < Batch[i].t /\ Batch[i].t <= now /\ Batch[i].t >= 0
         /\ \A i \in 1..Len(Batch) : \E j \in 1..Len(chan.buf) : Batch[i] = chan.buf[j]
         /\ \A d \in Int : d > rec.cursor /\ Holds(chan.buf, d) => Holds(Batch, d)
<1>1. /\ chan.buf \in Seq(SamplesOf(Value)) /\ rec.cursor \in Int /\ rec.cursor >= 0 /\ now \in Int
  <2>1. rec.from <= rec.cursor
    BY DEF Paced
  <2>2. QED
    BY <2>1, TypedFacts
<1>2. holders # {}
  BY DEF Typed
<1>3. Rising(chan.buf) /\ \A i \in 1..Len(chan.buf) : chan.buf[i].t <= now
  BY <1>2 DEF Channel, Sampled, Stamped
<1>4. Dates(chan.buf) /\ Sorted(chan.buf) /\ \A i \in 1..Len(chan.buf) : chan.buf[i].t \in Int
  BY <1>1, <1>3, StampedDates
<1>5. /\ After(chan.buf, rec.cursor) \in Seq(SamplesOf(Value))
      /\ \E k \in 0..Len(chan.buf) : CutsAt(chan.buf, rec.cursor, k) /\ Suffix(After(chan.buf, rec.cursor), chan.buf, k)
  BY <1>1, <1>4, AfterIs
<1>6. Batch = After(chan.buf, rec.cursor)
  BY <1>5, ReadAll DEF Batch, Read
<1>7. PICK k \in 0..Len(chan.buf) : CutsAt(chan.buf, rec.cursor, k) /\ Suffix(Batch, chan.buf, k)
  BY <1>5, <1>6
<1>8. Batch \in Seq(SamplesOf(Value))
  BY <1>5, <1>6
<1>9. ASSUME NEW i \in 1..Len(Batch)
      PROVE  /\ k + i \in 1..Len(chan.buf) /\ Batch[i] = chan.buf[k + i] /\ chan.buf[k + i].t > rec.cursor
  <2>1. k + i \in 1..Len(chan.buf) /\ k + i > k
    BY <1>1, <1>7, <1>8 DEF Suffix
  <2>2. QED
    BY <1>7, <2>1 DEF Suffix, CutsAt
<1>10. Rising(Batch)
  BY <1>1, <1>3, <1>7, <1>8, SuffixKeeps
<1>11. ASSUME NEW i \in 1..Len(Batch)
       PROVE  Batch[i].t \in Int /\ rec.cursor < Batch[i].t /\ Batch[i].t <= now /\ Batch[i].t >= 0
  <2>1. Batch[i].t \in Int /\ Batch[i].t > rec.cursor /\ Batch[i].t <= now
    BY <1>3, <1>4, <1>9
  <2>2. QED
    BY ONLY <1>1, <2>1
<1>12. ASSUME NEW d \in Int, d > rec.cursor, Holds(chan.buf, d) PROVE Holds(Batch, d)
  <2>1. PICK j \in 1..Len(chan.buf) : chan.buf[j].t = d
    BY <1>12 DEF Holds
  <2>2. j > k
    BY <1>7, <1>12, <2>1 DEF CutsAt
  <2>3. j - k \in 1..Len(Batch) /\ k + (j - k) = j
    BY <1>1, <1>7, <2>2 DEF Suffix
  <2>4. Batch[j - k] = chan.buf[j]
    BY <1>9, <2>3
  <2>5. QED
    BY <2>1, <2>3, <2>4 DEF Holds
<1>13. QED
  BY <1>8, <1>9, <1>10, <1>11, <1>12

\* The rows of what is read go forward from the cursor to the last date.
LEMMA BatchRows ==
  ASSUME Typed, Channel, Paced, rec.on
  PROVE  LET rows == Rows(Batch)
         IN  /\ rows \in Seq(RowOf) /\ Len(rows) = Len(Batch)
             /\ Ascending(rows) /\ UpTo(rows, Iso(Advanced(Batch)))
             /\ \A i \in 1..Len(rows) : rows[i].iso = Iso(Batch[i].t) /\ Iso(rec.cursor) < rows[i].iso
             /\ Advanced(Batch) \in Int /\ rec.cursor <= Advanced(Batch) /\ Advanced(Batch) <= now
             /\ \A i \in 1..Len(Batch) : Batch[i].t <= Advanced(Batch)
<1> DEFINE rows == Rows(Batch)
           last == Advanced(Batch)
<1>1. /\ Batch \in Seq(SamplesOf(Value)) /\ Rising(Batch)
      /\ \A i \in 1..Len(Batch) :
            Batch[i].t \in Int /\ rec.cursor < Batch[i].t /\ Batch[i].t <= now /\ Batch[i].t >= 0
  BY BatchIs
<1>2. rec.cursor \in Int /\ now \in Int /\ rec.cursor <= now /\ Len(Batch) \in Nat
  BY <1>1, TypedFacts DEF Paced
<1>3. rows \in Seq(RowOf) /\ Len(rows) = Len(Batch) /\ \A i \in 1..Len(Batch) : rows[i].iso = Iso(Batch[i].t)
  <2>1. \A i \in 1..Len(Batch) : Batch[i].t \in Nat
    BY <1>1
  <2>2. QED
    BY <1>1, <2>1, RowsAre
<1> HIDE DEF rows, Batch
<1>4. last \in Int /\ rec.cursor <= last /\ last <= now /\ \A i \in 1..Len(Batch) : Batch[i].t <= last
  <2>1. CASE Batch = <<>>
    BY <1>2, <2>1 DEF Advanced
  <2>2. CASE Batch # <<>>
    <3>1. last = Batch[Len(Batch)].t /\ Len(Batch) \in 1..Len(Batch)
      BY <1>1, <1>2, <2>2 DEF Advanced
    <3>2. last \in Int /\ rec.cursor < last /\ last <= now
      BY <1>1, <3>1
    <3>3. ASSUME NEW i \in 1..Len(Batch) PROVE Batch[i].t <= last
      <4>1. CASE i = Len(Batch)
        BY <3>1, <3>2, <4>1
      <4>2. CASE i # Len(Batch)
        <5>1. i < Len(Batch)
          BY <1>2, <4>2
        <5>2. Batch[i].t < last /\ Batch[i].t \in Int
          BY <1>1, <3>1, <5>1 DEF Rising
        <5>3. QED
          BY ONLY <3>2, <5>2
      <4>3. QED
        BY <4>1, <4>2
    <3> HIDE DEF last
    <3>4. QED
      BY ONLY <1>2, <3>2, <3>3
  <2>3. QED
    BY <2>1, <2>2
<1> HIDE DEF last
<1>5. ASSUME NEW i \in 1..Len(rows) PROVE rows[i].iso = Iso(Batch[i].t) /\ Iso(rec.cursor) < rows[i].iso
                                            /\ rows[i].iso <= Iso(last)
  <2>1. Batch[i].t \in Int /\ rec.cursor < Batch[i].t /\ Batch[i].t <= last
    BY <1>1, <1>3, <1>4
  <2>2. Iso(rec.cursor) < Iso(Batch[i].t) /\ Iso(Batch[i].t) <= Iso(last)
    BY <1>2, <1>4, <2>1, IsoOrder
  <2>3. QED
    BY <1>3, <2>2
<1>6. ASSUME NEW i \in 1..Len(rows), NEW j \in 1..Len(rows), i < j PROVE rows[i].iso < rows[j].iso
  <2>1. Batch[i].t \in Int /\ Batch[j].t \in Int /\ Batch[i].t < Batch[j].t
    BY <1>1, <1>3, <1>6 DEF Rising
  <2>2. Iso(Batch[i].t) < Iso(Batch[j].t)
    BY <2>1, IsoOrder
  <2>3. QED
    BY <1>3, <2>2
<1>7. QED
  BY <1>3, <1>4, <1>5, <1>6 DEF Ascending, UpTo, rows, last

-----------------------------------------------------------------------------
(* The requests of a campaign.                                             *)

FileThen == IF rec.on THEN Closed(file) ELSE file

LEMMA FilesAre ==
  /\ NoFile \in FileOf /\ NoFile.rows = <<>> /\ Plain(NoFile)
  /\ OldFile \in FileOf /\ OldFile.rows = <<>> /\ Plain(OldFile) /\ OldFile.head = "old"
  /\ EmptyFile \in FileOf /\ EmptyFile.rows = <<>> /\ Plain(EmptyFile) /\ EmptyFile.head = "empty"
<1>1. <<>> \in Seq(RowOf)
  OBVIOUS
<1>2. EmptyFile = [head |-> "empty", rows |-> <<>>, torn |-> FALSE]
  <2>1. PICK f : f = NoFile
    OBVIOUS
  <2>2. f = [head |-> "absent", rows |-> <<>>, torn |-> FALSE] /\ EmptyFile = [f EXCEPT !.head = "empty"]
    BY <2>1 DEF EmptyFile, NoFile
  <2>3. PICK r : r = <<>>
    OBVIOUS
  <2>4. f = [head |-> "absent", rows |-> r, torn |-> FALSE]
    BY <2>2, <2>3
  <2>41. f = [head |-> f.head, rows |-> f.rows, torn |-> f.torn] /\ f.rows = r /\ f.torn = FALSE
    BY ONLY <2>4
  <2>42. [f EXCEPT !.head = "empty"] = [head |-> "empty", rows |-> f.rows, torn |-> f.torn]
    BY ONLY <2>41
  <2>5. EmptyFile = [head |-> "empty", rows |-> r, torn |-> FALSE]
    BY ONLY <2>2, <2>41, <2>42
  <2>6. QED
    BY <2>3, <2>5
<1>3. QED
  BY <1>1, <1>2 DEF NoFile, OldFile, FileOf, Plain

LEMMA ClosedIs ==
  ASSUME Typed, Filed
  PROVE  LET f == FileThen
         IN  /\ f \in FileOf /\ f.rows = file.rows /\ Plain(f)
             /\ rec.on => f.head = "new"
             /\ ~rec.on => f = file
<1>1. /\ file \in FileOf /\ Plain(file)
      /\ file.head \in {"absent", "empty", "new", "old"} /\ file.rows \in Seq(RowOf) /\ file.torn \in BOOLEAN
  BY DEF Typed, Filed, FileOf
<1>2. file = [head |-> file.head, rows |-> file.rows, torn |-> file.torn]
  BY <1>1 DEF FileOf
<1>3. CASE rec.on /\ rec.header
  <2>1. FileThen = [file EXCEPT !.head = "new"]
    BY <1>3 DEF FileThen, Closed
  <2>2. FileThen = [head |-> "new", rows |-> file.rows, torn |-> file.torn]
    BY ONLY <1>2, <2>1
  <2>3. QED
    BY <1>1, <1>3, <2>2 DEF FileOf, Plain
<1>4. CASE rec.on /\ ~rec.header
  <2>1. FileThen = file /\ file.head = "new"
    BY <1>4 DEF FileThen, Closed, Filed
  <2>2. QED
    BY <1>1, <1>4, <2>1
<1>5. CASE ~rec.on
  BY <1>1, <1>5 DEF FileThen
<1>6. QED
  BY <1>3, <1>4, <1>5

\* Whatever the campaign has written is of the past.
LEMMA UpToNow ==
  ASSUME Typed, Followed, Filed
  PROVE  UpTo(file.rows, Iso(now)) /\ Iso(now) \in Nat
<1>1. now \in Int /\ now >= 0 /\ rec.cursor \in Int /\ file.rows \in Seq(RowOf)
  BY TypedFacts
<1>2. Iso(now) \in Nat
  BY <1>1, IsoOrder
<1>3. CASE rec.on
  <2>1. rec.cursor <= now /\ UpTo(file.rows, Iso(rec.cursor))
    BY <1>3 DEF Followed, Paced, Filed
  <2>2. Iso(rec.cursor) \in Int /\ Iso(now) \in Int /\ Iso(rec.cursor) <= Iso(now)
    BY <1>1, <2>1, IsoOrder
  <2>3. QED
    BY <1>1, <1>2, <2>1, <2>2, UpToLater
<1>4. CASE ~rec.on
  BY <1>2, <1>4 DEF Filed
<1>5. QED
  BY <1>3, <1>4

\* The channel once the campaign has left it.
LEMMA BaseIs ==
  ASSUME Typed, Channel, InForce
  PROVE  LET others == holders \ {"campaign"}
             base == Left(chan, others)
         IN  /\ base \in ChannelOf(Value)
             /\ others # {} => base = chan /\ Sampled(base, now)
             /\ others = {} => base = NoChannel
             /\ base.born <= now /\ Obeys(base, order)
<1> DEFINE others == holders \ {"campaign"}
           base == Left(chan, others)
<1>1. chan \in ChannelOf(Value) /\ now \in Int /\ now >= 0
  BY TypedFacts DEF Typed
<1>2. CASE others = {}
  <2>1. base = NoChannel
    BY <1>2 DEF Left
  <2> HIDE DEF base, others
  <2>2. base \in ChannelOf(Value) /\ base.buf = <<>> /\ base.born = 0
    BY <2>1, NoChannelIs
  <2>3. base.born <= now /\ Obeys(base, order)
    BY <1>1, <2>2 DEF Obeys
  <2>4. QED
    BY <1>2, <2>1, <2>2, <2>3 DEF base, others
<1>3. CASE others # {}
  <2>1. base = chan /\ holders # {}
    BY <1>3 DEF Left
  <2>2. Sampled(chan, now) /\ chan.born <= now /\ Obeys(chan, order)
    BY <1>1, <2>1, ForceIs DEF Channel, InForce
  <2>3. QED
    BY <1>1, <1>3, <2>1, <2>2
<1>4. QED
  BY <1>2, <1>3

\* No number of the channel is of a date to come.
LEMMA SampledPast ==
  ASSUME NEW V, NEW ch \in ChannelOf(V), NEW n \in Int, Sampled(ch, n)
  PROVE  \A k \in Int : k < ch.next => ~ (k * ch.period > n)
<1>1. ch.period \in Nat \ {0} /\ ch.next \in Int
  BY Constants DEF Sampled, ChannelOf
<1>2. PICK m \in Int : m = ch.next - 1
  BY <1>1
<1>3. m * ch.period <= n
  BY <1>2 DEF Sampled
<1>4. ASSUME NEW k \in Int, k < ch.next PROVE ~ (k * ch.period > n)
  <2>1. k <= m
    BY <1>1, <1>2, <1>4
  <2>2. k * ch.period <= m * ch.period /\ k * ch.period \in Int /\ m * ch.period \in Int
    BY <1>1, <2>1, GridOrder
  <2>3. QED
    BY ONLY <1>3, <2>2, n \in Int
<1>5. QED
  BY <1>4

\* A channel that follows the orders, and who holds it.
LEMMA ChannelThen ==
  ASSUME Typed, InForce, NEW ch \in ChannelOf(Value), NEW who \in SUBSET {"session", "campaign"},
         IF who = {} THEN ch = NoChannel ELSE Sampled(ch, now),
         ch.born <= now, Obeys(ch, order),
         chan' = ch, holders' = who, UNCHANGED <<now, boot, forced, order>>
  PROVE  Channel' /\ InForce'
<1>1. Channel'
  BY DEF Channel, Sampled, Stamped, Rising, NoChannel
<1>2. ForceInForce'
  <2>1. chan' \in ChannelOf(Value) /\ Obeys(chan', order')
    OBVIOUS
  <2>2. QED
    BY <2>1, ForceWillBe
<1>3. QED
  BY <1>1, <1>2 DEF InForce

LEMMA RecStopKeeps == JInv /\ RecStop => JInv'
<1>1. SUFFICES ASSUME JInv, RecStop PROVE JInv'
  OBVIOUS
<1>2. Typed /\ Channel /\ InForce /\ Followed /\ Filed
  BY <1>1 DEF JInv
<1> DEFINE others == holders \ {"campaign"}
           base == Left(chan, others)
<1>3. /\ rec.on /\ chan' = base /\ holders' = others /\ rec' = NoRec /\ file' = FileThen
      /\ UNCHANGED <<now, boot, forced, order, aside>>
  BY <1>1 DEF RecStop, FileThen
<1>4. /\ base \in ChannelOf(Value) /\ (others # {} => base = chan /\ Sampled(base, now))
      /\ (others = {} => base = NoChannel) /\ base.born <= now /\ Obeys(base, order)
  BY <1>2, BaseIs
<1>5. others \in SUBSET {"session", "campaign"} /\ "campaign" \notin others
  BY <1>2 DEF Typed
<1> HIDE DEF base, others
<1>6. Channel' /\ InForce'
  BY <1>2, <1>3, <1>4, <1>5, ChannelThen
<1>7. FileThen \in FileOf /\ FileThen.rows = file.rows /\ Plain(FileThen)
  BY <1>2, ClosedIs
<1> HIDE DEF FileThen
<1>8. rec' \in CampaignOf /\ ~rec'.on
  BY <1>3, Constants DEF NoRec, CampaignOf
<1>9. Typed'
  BY <1>2, <1>3, <1>4, <1>5, <1>7, <1>8 DEF Typed
<1>10. Followed'
  BY <1>8 DEF Followed
<1>11. Filed'
  <2>1. UpTo(file.rows, Iso(now)) /\ Ascending(file.rows) /\ Plain(aside)
    BY <1>2, UpToNow DEF Filed
  <2>2. QED
    BY <1>3, <1>7, <1>8, <2>1 DEF Filed, UpTo, Ascending, Plain, Iso
<1>12. QED
  BY <1>6, <1>9, <1>10, <1>11 DEF JInv

LEMMA RecStartKeeps ==
  ASSUME JInv, NEW asked \in Periods, RecStart(asked)
  PROVE  JInv'
<1>2. Typed /\ Channel /\ InForce /\ Followed /\ Filed
  BY DEF JInv
<1> DEFINE others == holders \ {"campaign"}
           base == Left(chan, others)
           r == Subscribed(base, others, asked)
           f == FileThen
<1>3. /\ chan' = r /\ holders' = others \cup {"campaign"}
      /\ rec' = [on |-> TRUE, from |-> now, cursor |-> now, readAt |-> now, header |-> Fresh(f)]
      /\ aside' = (IF f.head = "old" THEN f ELSE aside) /\ file' = Opened(f)
      /\ UNCHANGED <<now, boot, forced, order>>
  BY DEF RecStart, FirstCursor, FileThen
<1>4. /\ base \in ChannelOf(Value) /\ (others # {} => base = chan /\ Sampled(base, now))
      /\ base.born <= now /\ Obeys(base, order)
  BY <1>2, BaseIs
<1>5. others \in SUBSET {"session", "campaign"} /\ asked \in Int
  BY <1>2, Constants DEF Typed
<1> HIDE DEF base, others
<1>6. /\ r \in ChannelOf(Value) /\ Sampled(r, now) /\ r.born <= now /\ Obeys(r, order)
  <2>1. r \in ChannelOf(Value) /\ Sampled(r, now)
    BY <1>2, <1>4, <1>5, SubscribedIs
  <2>2. r.born <= now /\ Obeys(r, order)
    BY <1>2, <1>4, <1>5, SubscribedObeys
  <2>3. QED
    BY <2>1, <2>2
<1>7. /\ f \in FileOf /\ f.rows = file.rows /\ Plain(f)
  BY <1>2, ClosedIs
<1> HIDE DEF r, f
<1>8. now \in Int /\ 0 <= now /\ now <= MaxTime /\ now \in 0..MaxTime
  BY <1>2, TypedFacts, Constants
<1>9. holders' \in SUBSET {"session", "campaign"} /\ holders' # {} /\ "campaign" \in holders'
  BY <1>3, <1>5
<1>10. Channel' /\ InForce'
  BY <1>2, <1>3, <1>6, <1>9, ChannelThen
<1>11. /\ rec' \in CampaignOf /\ rec'.on /\ rec'.from = now /\ rec'.cursor = now /\ rec'.readAt = now
       /\ rec'.header = Fresh(f)
  BY <1>3, <1>8 DEF CampaignOf, Fresh
<1>12. file' \in FileOf /\ aside' \in FileOf /\ Plain(file') /\ Plain(aside')
  <2>1. Plain(aside) /\ aside \in FileOf
    BY <1>2 DEF Typed, Filed
  <2>2. QED
    BY <1>3, <1>7, <2>1, FilesAre DEF Opened
<1>13. Typed'
  BY <1>2, <1>3, <1>6, <1>9, <1>11, <1>12 DEF Typed
<1>14. Followed'
  <2>1. Paced'
    BY <1>3, <1>8, <1>11, Constants DEF Paced
  <2>2. Behind'
    BY <1>11 DEF Behind
  <2>3. Entire'
    <3>1. \A k \in Int : k < r.next => ~ (k * r.period > now)
      BY <1>6, <1>8, SampledPast
    <3>2. QED
      BY <1>3, <1>11, <3>1 DEF Entire
  <2>4. QED
    BY <2>1, <2>2, <2>3 DEF Followed
<1>15. Filed'
  <2>1. UpTo(file.rows, Iso(now)) /\ Ascending(file.rows)
    BY <1>2, UpToNow DEF Filed
  <2>2. Iso(now)' = Iso(now)
    BY <1>3 DEF Iso
  <2>3. CASE Fresh(f)
    <3>1. file' = EmptyFile /\ file'.rows = <<>> /\ file'.head = "empty" /\ rec'.header
      BY <1>3, <1>11, <2>3, FilesAre DEF Opened
    <3>2. QED
      BY <1>11, <1>12, <3>1 DEF Filed, Ascending, UpTo, Plain
  <2>4. CASE ~Fresh(f)
    <3>1. file' = f /\ f.head = "new" /\ ~rec'.header
      BY <1>3, <1>7, <1>11, <2>4 DEF Opened, Fresh, FileOf
    <3>2. Ascending(file'.rows) /\ UpTo(file'.rows, Iso(now))
      BY <1>7, <2>1, <3>1
    <3>3. Ascending(file.rows)' /\ UpTo(file.rows, Iso(now))'
      BY <2>2, <3>2 DEF Ascending, UpTo
    <3>4. QED
      BY <1>3, <1>11, <1>12, <3>1, <3>3 DEF Filed, Ascending, UpTo, Plain
  <2>5. QED
    BY <2>3, <2>4
<1>16. QED
  BY <1>10, <1>13, <1>14, <1>15 DEF JInv

LEMMA RecStartFailsKeeps ==
  ASSUME JInv, NEW asked \in Periods, RecStartFails(asked)
  PROVE  JInv'
<1>2. Typed /\ Channel /\ InForce /\ Followed /\ Filed
  BY DEF JInv
<1> DEFINE others == holders \ {"campaign"}
           base == Left(chan, others)
           r == Subscribed(base, others, asked)
           f == FileThen
<1>3. /\ chan' = Left(r, others) /\ holders' = others /\ rec' = NoRec
      /\ aside' = (IF f.head = "old" THEN f ELSE aside) /\ file' = (IF f.head = "old" THEN NoFile ELSE f)
      /\ UNCHANGED <<now, boot, forced, order>>
  BY DEF RecStartFails, FileThen
<1>4. /\ base \in ChannelOf(Value) /\ (others # {} => base = chan /\ Sampled(base, now))
      /\ base.born <= now /\ Obeys(base, order)
  BY <1>2, BaseIs
<1>5. others \in SUBSET {"session", "campaign"} /\ asked \in Int /\ "campaign" \notin others
  BY <1>2, Constants DEF Typed
<1> HIDE DEF base, others
<1>6. /\ r \in ChannelOf(Value) /\ Sampled(r, now) /\ r.born <= now /\ Obeys(r, order)
  <2>1. r \in ChannelOf(Value) /\ Sampled(r, now)
    BY <1>2, <1>4, <1>5, SubscribedIs
  <2>2. r.born <= now /\ Obeys(r, order)
    BY <1>2, <1>4, <1>5, SubscribedObeys
  <2>3. QED
    BY <2>1, <2>2
<1>7. /\ f \in FileOf /\ f.rows = file.rows /\ Plain(f)
  BY <1>2, ClosedIs
<1> HIDE DEF r, f
<1>8. now \in Int /\ 0 <= now /\ order.at \in Int
  BY <1>2, TypedFacts
<1>9. PICK ch \in ChannelOf(Value) :
         /\ ch = Left(r, others) /\ (IF others = {} THEN ch = NoChannel ELSE Sampled(ch, now))
         /\ ch.born <= now /\ Obeys(ch, order)
  <2>1. CASE others = {}
    <3>1. Left(r, others) = NoChannel
      BY <2>1 DEF Left
    <3>2. NoChannel.born <= now /\ Obeys(NoChannel, order)
      BY <1>8, NoChannelIs DEF Obeys
    <3>3. QED
      BY <2>1, <3>1, <3>2, NoChannelIs
  <2>2. CASE others # {}
    <3>1. Left(r, others) = r
      BY <2>2 DEF Left
    <3>2. QED
      BY <1>6, <2>2, <3>1
  <2>3. QED
    BY <2>1, <2>2
<1>10. Channel' /\ InForce'
  BY <1>2, <1>3, <1>5, <1>9, ChannelThen
<1>11. rec' \in CampaignOf /\ ~rec'.on
  BY <1>3, Constants DEF NoRec, CampaignOf
<1>12. file' \in FileOf /\ aside' \in FileOf /\ Plain(file') /\ Plain(aside')
       /\ (file'.rows = <<>> \/ file'.rows = file.rows)
  <2>1. Plain(aside) /\ aside \in FileOf
    BY <1>2 DEF Typed, Filed
  <2>2. QED
    BY <1>3, <1>7, <2>1, FilesAre
<1>13. Typed'
  BY <1>2, <1>3, <1>5, <1>9, <1>11, <1>12 DEF Typed
<1>14. Followed'
  BY <1>11 DEF Followed
<1>15. Filed'
  <2>1. UpTo(file.rows, Iso(now)) /\ Ascending(file.rows)
    BY <1>2, UpToNow DEF Filed
  <2>2. Ascending(file'.rows) /\ UpTo(file'.rows, Iso(now))
    BY <1>12, <2>1 DEF Ascending, UpTo
  <2>3. QED
    BY <1>3, <1>11, <1>12, <2>2 DEF Filed, Ascending, UpTo, Plain, Iso
<1>16. QED
  BY <1>10, <1>13, <1>14, <1>15 DEF JInv

\* What the campaign has read and written, it need not hold any more.
LEMMA RecFlushKeeps == JInv /\ RecFlush => JInv'
<1>1. SUFFICES ASSUME JInv, RecFlush PROVE JInv'
  OBVIOUS
<1>2. Typed /\ Channel /\ InForce /\ Followed /\ Filed
  BY <1>1 DEF JInv
<1> DEFINE rows == Rows(Batch)
           last == Advanced(Batch)
           f == FileThen
           g == Appended(f, rows)
<1>3. /\ rec.on /\ file' = g
      /\ rec' = [rec EXCEPT !.cursor = last, !.readAt = now, !.header = FALSE]
      /\ UNCHANGED <<now, boot, chan, holders, forced, order, aside>>
  BY <1>1 DEF RecFlush, FileThen, sourceVars
<1>4. Paced /\ Behind /\ Entire
  BY <1>2, <1>3 DEF Followed
<1>5. /\ Batch \in Seq(SamplesOf(Value))
      /\ \A i \in 1..Len(Batch) : \E j \in 1..Len(chan.buf) : Batch[i] = chan.buf[j]
      /\ \A d \in Int : d > rec.cursor /\ Holds(chan.buf, d) => Holds(Batch, d)
  BY <1>2, <1>3, <1>4, BatchIs
<1>6. /\ rows \in Seq(RowOf) /\ Len(rows) = Len(Batch)
      /\ Ascending(rows) /\ UpTo(rows, Iso(last))
      /\ \A i \in 1..Len(rows) : rows[i].iso = Iso(Batch[i].t) /\ Iso(rec.cursor) < rows[i].iso
      /\ last \in Int /\ rec.cursor <= last /\ last <= now
      /\ \A i \in 1..Len(Batch) : Batch[i].t <= last
  BY <1>2, <1>3, <1>4, BatchRows
<1>7. /\ f \in FileOf /\ f.rows = file.rows /\ f.head = "new"
  BY <1>2, <1>3, ClosedIs
<1>8. /\ now \in Int /\ now <= MaxTime /\ rec.from \in Int /\ rec.cursor \in Int /\ rec.readAt \in Int
      /\ rec.from >= 0 /\ rec.cursor >= 0 /\ MaxTime \in Nat /\ Lag \in Nat
      /\ chan.period \in Int /\ chan.next \in Int /\ chan.since \in Int
  <2>1. rec.from >= 0 /\ rec.from <= rec.cursor /\ rec.from \in Int /\ rec.cursor \in Int
    BY <1>2, <1>4, TypedFacts DEF Paced
  <2>2. QED
    BY <1>2, <2>1, TypedFacts, Constants
<1> HIDE DEF f, last
<1>9. /\ g \in FileOf /\ g.head = "new" /\ Len(g.rows) = Len(f.rows) + Len(rows)
      /\ \A i \in 1..Len(f.rows) : g.rows[i] = f.rows[i]
      /\ \A i \in 1..Len(rows) : g.rows[Len(f.rows) + i].iso = rows[i].iso
  <2> HIDE DEF rows
  <2>1. /\ g \in FileOf /\ g.head = f.head /\ Prolongs(g, f)
        /\ Len(g.rows) = Len(f.rows) + Len(rows)
        /\ \A i \in 1..Len(rows) : g.rows[Len(f.rows) + i].iso = rows[i].iso
    BY <1>6, <1>7, AppendedIs
  <2>2. QED
    BY <1>7, <2>1 DEF Prolongs
<1>10. Ascending(g.rows) /\ UpTo(g.rows, Iso(last))
  <2> HIDE DEF rows
  <2>1. Iso(rec.cursor) \in Int /\ Iso(last) \in Int /\ Iso(rec.cursor) <= Iso(last)
    BY <1>2, <1>6, <1>8, IsoOrder
  <2>2. Ascending(f.rows) /\ UpTo(f.rows, Iso(rec.cursor))
    BY <1>2, <1>3, <1>7 DEF Filed
  <2>3. \A i \in 1..Len(rows) : Iso(rec.cursor) < rows[i].iso
    BY <1>6
  <2>4. QED
    BY <1>6, <1>7, <2>1, <2>2, <2>3, AppendedGoesOn
<1> HIDE DEF g, rows
<1>11. /\ rec' \in CampaignOf /\ rec'.on /\ rec'.from = rec.from /\ rec'.cursor = last /\ rec'.readAt = now
       /\ rec'.header = FALSE
  <2>1. rec \in CampaignOf /\ last \in 0..MaxTime /\ now \in 0..MaxTime
    BY <1>2, <1>6, <1>8 DEF Typed
  <2>2. rec = [on |-> rec.on, from |-> rec.from, cursor |-> rec.cursor, readAt |-> rec.readAt,
               header |-> rec.header]
    BY <2>1 DEF CampaignOf
  <2>3. rec' = [on |-> rec.on, from |-> rec.from, cursor |-> last, readAt |-> now, header |-> FALSE]
    BY ONLY <1>3, <2>2
  <2>4. QED
    BY <1>3, <2>1, <2>3 DEF CampaignOf
<1>12. Typed'
  BY <1>2, <1>3, <1>9, <1>11 DEF Typed
<1>13. Channel' /\ InForce'
  BY <1>2, <1>3 DEF Channel, InForce, ForceInForce, Sampled, Stamped, Rising
<1>14. Paced'
  <2>1. rec.from <= rec.cursor
    BY <1>4 DEF Paced
  <2>2. rec.from <= last /\ last <= now /\ now <= now /\ now - now <= Lag
    BY ONLY <1>6, <1>8, <2>1
  <2>3. QED
    BY ONLY <1>3, <1>11, <2>2 DEF Paced
<1>15. Behind'
  <2>1. CASE Batch = <<>>
    BY <1>3, <1>4, <1>11, <2>1 DEF Advanced, last, Behind
  <2>2. CASE Batch # <<>>
    <3>1. last = Batch[Len(Batch)].t /\ Len(Batch) \in 1..Len(Batch)
      BY <1>5, <2>2 DEF Advanced, last
    <3>2. PICK j \in 1..Len(chan.buf) : chan.buf[j].t = last
      BY <1>5, <3>1
    <3>3. \A i \in 1..Len(chan.buf) : chan.buf[i].t < chan.next * chan.period
      <4>1. holders # {}
        BY <1>2, <1>3 DEF Typed
      <4>2. QED
        BY <1>2, <4>1 DEF Channel, Sampled, Stamped
    <3>4. last < chan.next * chan.period
      BY <3>2, <3>3
    <3>5. QED
      BY <1>3, <1>11, <3>4 DEF Behind
  <2>3. QED
    BY <2>1, <2>2
<1>16. \A d : Iso(d)' = Iso(d)
  BY <1>3 DEF Iso
<1>17. ASSUME NEW d \in Int, Kept(d)
       PROVE  d <= last /\ \E i \in 1..Len(g.rows) : g.rows[i].iso = Iso(d)
  <2>0. Len(f.rows) \in Nat /\ Len(rows) \in Nat
    BY <1>6, <1>7 DEF FileOf
  <2>1. CASE d > rec.cursor
    <3>1. Holds(Batch, d)
      BY <1>5, <1>17, <2>1 DEF Kept
    <3>2. PICK i \in 1..Len(Batch) : Batch[i].t = d
      BY <3>1 DEF Holds
    <3>3. d <= last /\ i \in 1..Len(rows) /\ rows[i].iso = Iso(d)
      BY <1>6, <3>2
    <3>4. Len(f.rows) + i \in 1..Len(g.rows)
      BY <1>9, <2>0, <3>3
    <3>5. g.rows[Len(f.rows) + i].iso = Iso(d)
      BY <1>9, <3>3
    <3>6. QED
      BY <3>3, <3>4, <3>5
  <2>2. CASE ~ (d > rec.cursor)
    <3>1. PICK i \in 1..Len(file.rows) : file.rows[i].iso = Iso(d)
      BY <1>17, <2>2 DEF Kept, InFile
    <3>2. i \in 1..Len(g.rows)
      BY <1>7, <1>9, <2>0, <3>1
    <3>3. g.rows[i].iso = Iso(d)
      BY <1>7, <1>9, <3>1
    <3>4. d <= last
      BY <1>6, <1>8, <2>2
    <3>5. QED
      BY <3>2, <3>3, <3>4
  <2>3. QED
    BY <2>1, <2>2
<1>18. Entire'
  <2>1. ASSUME NEW k \in Int, k < chan.next, k * chan.period > rec.from, k * chan.period > chan.since
        PROVE  Kept(k * chan.period)'
    <3>1. PICK d \in Int : d = k * chan.period
      BY <1>8
    <3>2. Kept(d)
      BY <1>4, <2>1, <3>1 DEF Entire
    <3>3. d <= last /\ \E i \in 1..Len(g.rows) : g.rows[i].iso = Iso(d)
      BY <1>17, <3>2
    <3>4. ~ (d > last)
      BY <1>6, <3>3
    <3>5. Kept(d)'
      BY <1>3, <1>11, <1>16, <3>3, <3>4 DEF Kept, InFile
    <3>6. d' = d /\ (k * chan.period)' = d
      BY <1>3, <3>1
    <3>7. QED
      BY <1>3, <3>1, <3>5
  <2>2. QED
    BY <1>3, <1>11, <2>1 DEF Entire
<1>19. Filed'
  <2>1. Plain(aside)
    BY <1>2 DEF Filed
  <2>2. Ascending(file.rows)' /\ UpTo(file.rows, Iso(rec.cursor))'
    BY <1>3, <1>10, <1>11, <1>16 DEF Ascending, UpTo
  <2>3. QED
    BY <1>3, <1>9, <1>11, <2>1, <2>2 DEF Filed, Plain, Ascending, UpTo
<1>20. QED
  BY <1>12, <1>13, <1>14, <1>15, <1>18, <1>19 DEF JInv, Followed

-----------------------------------------------------------------------------
(* A crash, and the next life of the server.                               *)

LEMMA PrefixRows ==
  ASSUME NEW rows \in Seq(RowOf), Ascending(rows), NEW e \in Int, UpTo(rows, e), NEW n \in 0..Len(rows)
  PROVE  LET s == SubSeq(rows, 1, n)
         IN  /\ s \in Seq(RowOf) /\ Ascending(s) /\ UpTo(s, e)
             /\ \A i \in 1..Len(s) : i \in 1..Len(rows) /\ s[i] = rows[i]
<1> DEFINE s == SubSeq(rows, 1, n)
<1>1. s \in Seq(RowOf) /\ Len(s) = n /\ \A i \in 1..n : s[i] = rows[i]
  OBVIOUS
<1> HIDE DEF s
<1>2. Len(rows) \in Nat /\ n \in Nat /\ n <= Len(rows)
  OBVIOUS
<1>3. \A i \in 1..Len(s) : i \in 1..Len(rows) /\ s[i] = rows[i]
  BY <1>1, <1>2
<1>4. Ascending(s) /\ UpTo(s, e)
  BY <1>3 DEF Ascending, UpTo
<1>5. QED
  BY <1>1, <1>3, <1>4 DEF s

\* What a crash leaves is the file and some of the rows being written, and no
\* file of this format loses its header.
LEMMA LeftoverIs ==
  ASSUME Typed, Channel, Followed, Filed, NEW f \in Leftovers
  PROVE  /\ f \in FileOf /\ Ascending(f.rows) /\ UpTo(f.rows, Iso(now)) /\ Plain(f)
         /\ file.head = "new" => f.head = "new" /\ Prolongs(f, file)
         /\ file.head = "old" => f = file
<1>1. /\ file \in FileOf /\ Ascending(file.rows) /\ UpTo(file.rows, Iso(now)) /\ Plain(file)
      /\ Prolongs(file, file) /\ Iso(now) \in Nat
  <2>1. Len(file.rows) \in Nat
    BY DEF Typed, FileOf
  <2>2. QED
    BY <2>1, UpToNow DEF Typed, Filed, Prolongs
<1>2. CASE f = file
  BY <1>1, <1>2
<1>3. CASE f # file
  <2> DEFINE rows == Rows(Batch)
             last == Advanced(Batch)
             h == FileThen
             whole(n) == Appended(h, SubSeq(rows, 1, n))
  <2>1. rec.on
    BY <1>3 DEF Leftovers
  <2>2. Paced
    BY <2>1 DEF Followed
  <2>3. /\ rows \in Seq(RowOf) /\ Len(rows) = Len(Batch) /\ Len(Batch) \in Nat
        /\ Ascending(rows) /\ UpTo(rows, Iso(last))
        /\ \A i \in 1..Len(rows) : Iso(rec.cursor) < rows[i].iso
        /\ last \in Int /\ rec.cursor <= last /\ last <= now
    <3>1. Len(Batch) \in Nat
      BY <2>1, <2>2, BatchIs
    <3>2. QED
      BY <2>1, <2>2, <3>1, BatchRows
  <2>4. /\ h \in FileOf /\ h.rows = file.rows /\ h.head = "new"
    BY <2>1, ClosedIs
  <2>5. \/ f = OldFile /\ rec.header
        \/ \E n \in 0..Len(Batch) : f = whole(n) \/ f = [whole(n) EXCEPT !.torn = TRUE]
    <3>1. 0..(Len(Batch) - 1) \in SUBSET (0..Len(Batch))
      BY <2>3
    <3>2. QED
      BY <1>3, <2>1, <3>1 DEF Leftovers, FileThen
  <2> HIDE DEF rows, last, h
  <2>6. CASE f = OldFile /\ rec.header
    <3>1. file.head = "empty"
      BY <2>1, <2>6 DEF Filed
    <3>2. f \in FileOf /\ f.rows = <<>> /\ Plain(f)
      BY <2>6, FilesAre
    <3>3. Ascending(f.rows) /\ UpTo(f.rows, Iso(now))
      BY <3>2 DEF Ascending, UpTo
    <3>4. QED
      BY <3>1, <3>2, <3>3
  <2>7. ASSUME NEW n \in 0..Len(Batch), f = whole(n) \/ f = [whole(n) EXCEPT !.torn = TRUE]
        PROVE  /\ f \in FileOf /\ Ascending(f.rows) /\ UpTo(f.rows, Iso(now)) /\ f.head = "new"
               /\ Prolongs(f, file)
    <3> DEFINE s == SubSeq(rows, 1, n)
               g == Appended(h, s)
    <3>0. now \in Int /\ rec.cursor \in Int /\ Iso(rec.cursor) \in Int /\ Iso(last) \in Int
          /\ Iso(rec.cursor) <= Iso(last) /\ Iso(last) <= Iso(now) /\ Iso(now) \in Int
      <4>1. now \in Int /\ rec.cursor \in Int
        BY TypedFacts
      <4>2. QED
        BY <2>3, <4>1, IsoOrder
    <3>1. /\ s \in Seq(RowOf) /\ Ascending(s) /\ UpTo(s, Iso(last))
          /\ \A i \in 1..Len(s) : i \in 1..Len(rows) /\ s[i] = rows[i]
      BY <2>3, <2>7, <3>0, PrefixRows
    <3>2. \A i \in 1..Len(s) : Iso(rec.cursor) < s[i].iso
      BY <2>3, <3>1
    <3> HIDE DEF s
    <3>3. g \in FileOf /\ g.head = "new" /\ Prolongs(g, file)
      <4>1. g \in FileOf /\ g.head = h.head /\ Prolongs(g, h)
        BY <2>4, <3>1, AppendedIs
      <4>2. QED
        BY <2>4, <4>1 DEF Prolongs
    <3>4. Ascending(g.rows) /\ UpTo(g.rows, Iso(last))
      <4>1. Ascending(h.rows) /\ UpTo(h.rows, Iso(rec.cursor))
        BY <2>1, <2>4 DEF Filed
      <4>2. QED
        BY <2>4, <3>0, <3>1, <3>2, <4>1, AppendedGoesOn
    <3>5. f = g \/ f = [g EXCEPT !.torn = TRUE]
      BY <2>7 DEF g, s
    <3> HIDE DEF g
    <3>6. UpTo(g.rows, Iso(now))
      <4>1. g.rows \in Seq(RowOf)
        BY <3>3 DEF FileOf
      <4>2. QED
        BY <3>0, <3>4, <4>1, UpToLater
    <3>7. f \in FileOf /\ f.rows = g.rows /\ f.head = g.head
      <4>1. CASE f = g
        BY <3>3, <4>1
      <4>2. CASE f = [g EXCEPT !.torn = TRUE]
        <5>1. g = [head |-> g.head, rows |-> g.rows, torn |-> g.torn]
          BY <3>3 DEF FileOf
        <5>2. f = [head |-> g.head, rows |-> g.rows, torn |-> TRUE]
          BY ONLY <4>2, <5>1
        <5>3. QED
          BY <3>3, <5>2 DEF FileOf
      <4>3. QED
        BY <3>5, <4>1, <4>2
    <3>8. QED
      BY <3>3, <3>4, <3>6, <3>7 DEF Prolongs
  <2>8. CASE \E n \in 0..Len(Batch) : f = whole(n) \/ f = [whole(n) EXCEPT !.torn = TRUE]
    <3>1. f \in FileOf /\ Ascending(f.rows) /\ UpTo(f.rows, Iso(now)) /\ f.head = "new" /\ Prolongs(f, file)
      BY <2>7, <2>8
    <3>2. file.head # "old"
      BY <2>1 DEF Filed
    <3>3. QED
      BY <3>1, <3>2 DEF Plain
  <2>9. QED
    BY <2>5, <2>6, <2>8
<1>4. QED
  BY <1>2, <1>3

LEMMA RestartKeeps ==
  ASSUME JInv, NEW f \in Leftovers, Restart(f)
  PROVE  JInv'
<1>2. Typed /\ Channel /\ InForce /\ Followed /\ Filed
  BY DEF JInv
<1>3. /\ boot < MaxBoots /\ boot' = boot + 1 /\ now' = 0 /\ chan' = NoChannel /\ holders' = {}
      /\ forced' = None /\ order' = NoOrder /\ rec' = NoRec /\ file' = f /\ aside' = aside
  BY DEF Restart
<1>4. f \in FileOf /\ Ascending(f.rows) /\ UpTo(f.rows, Iso(now)) /\ Plain(f)
  BY <1>2, LeftoverIs
<1>5. rec' \in CampaignOf /\ ~rec'.on
  BY <1>3, Constants DEF NoRec, CampaignOf
<1>6. Typed'
  <2>1. boot + 1 \in 1..MaxBoots /\ 0 \in 0..MaxTime
    BY <1>2, <1>3, TypedFacts, Constants
  <2>2. NoOrder \in [v : Forced \cup {None}, at : 0..MaxTime]
    BY <2>1 DEF NoOrder
  <2>3. QED
    BY <1>2, <1>3, <1>4, <1>5, <2>1, <2>2, NoChannelIs DEF Typed
<1>7. Channel' /\ Followed'
  BY <1>3, <1>5 DEF Channel, Followed, NoChannel
<1>8. InForce'
  <2>1. chan' \in ChannelOf(Value) /\ Obeys(chan', order') /\ chan'.born = 0
    BY <1>3, NoChannelIs DEF Obeys
  <2>2. ForceInForce'
    BY <2>1, ForceWillBe
  <2>3. QED
    BY <1>3, <2>1, <2>2 DEF InForce, NoOrder
<1>9. Filed'
  <2>1. /\ now \in Int /\ now <= MaxTime /\ boot \in Nat /\ MaxTime \in Nat /\ boot * (MaxTime + 1) \in Int
    BY <1>2, TypedFacts, Constants
  <2>2. PICK m \in Int : m = boot * (MaxTime + 1)
    BY <2>1
  <2>3. (boot + 1) * (MaxTime + 1) = m + MaxTime + 1
    BY ONLY <2>1, <2>2, Products
  <2>4. Iso(now) = m + now /\ Iso(0)' = m + MaxTime + 1
    BY <1>3, <2>1, <2>2, <2>3 DEF Iso
  <2>5. PICK e \in Int : e = m + MaxTime + 1 /\ Iso(now) <= e /\ Iso(now) \in Int
    BY <2>1, <2>4
  <2>6. UpTo(f.rows, e)
    <3>1. f.rows \in Seq(RowOf)
      BY <1>4 DEF FileOf
    <3>2. QED
      BY <1>4, <2>5, <3>1, UpToLater
  <2>7. Ascending(file.rows)' /\ UpTo(file.rows, Iso(now))'
    BY <1>3, <1>4, <2>4, <2>5, <2>6 DEF Ascending, UpTo, Iso
  <2>8. Plain(aside)
    BY <1>2 DEF Filed
  <2>9. QED
    BY <1>3, <1>4, <1>5, <2>7, <2>8 DEF Filed, Plain, Ascending, UpTo
<1>10. QED
  BY <1>6, <1>7, <1>8, <1>9 DEF JInv

-----------------------------------------------------------------------------
(* The invariant, and what follows from it.                                *)

LEMMA InitInv == Init => JInv
<1>1. SUFFICES ASSUME Init PROVE JInv
  OBVIOUS
<1>2. /\ now = 0 /\ boot = 1 /\ chan = NoChannel /\ holders = {} /\ forced = None /\ order = NoOrder
      /\ rec = NoRec /\ aside = NoFile /\ file \in FileOf /\ file.rows = <<>> /\ Plain(file)
      /\ aside \in FileOf /\ Plain(aside)
  BY <1>1, FilesAre DEF Init
<1>3. rec \in CampaignOf /\ ~rec.on
  BY <1>2, Constants DEF NoRec, CampaignOf
<1>4. Typed
  <2>1. NoOrder \in [v : Forced \cup {None}, at : 0..MaxTime] /\ 0 \in 0..MaxTime /\ 1 \in 1..MaxBoots
    BY Constants DEF NoOrder
  <2>2. QED
    BY <1>2, <1>3, <2>1, NoChannelIs DEF Typed
<1>5. InForce
  <2>1. Obeys(chan, order) /\ chan.born = 0 /\ chan \in ChannelOf(Value)
    BY <1>2, NoChannelIs DEF Obeys
  <2>2. QED
    BY <1>2, <2>1, ForceIs DEF InForce, NoOrder
<1>6. Filed
  BY <1>2, <1>3 DEF Filed, Ascending, UpTo
<1>7. QED
  BY <1>2, <1>3, <1>4, <1>5, <1>6 DEF JInv, Channel, Followed

LEMMA StutterKeeps == JInv /\ UNCHANGED vars => JInv'
<1>1. SUFFICES ASSUME JInv, UNCHANGED vars PROVE JInv'
  OBVIOUS
<1>2. Typed /\ Channel /\ InForce /\ Followed /\ Filed
  BY <1>1 DEF JInv
<1>3. UNCHANGED <<now, boot, chan, holders, forced, order, rec, file, aside>>
  BY <1>1 DEF vars
<1>4. Typed' /\ Channel' /\ InForce'
  BY <1>2, <1>3 DEF Typed, Channel, InForce, ForceInForce, Sampled, Stamped, Rising
<1>5. Followed'
  BY <1>2, <1>3, BegunFollowed DEF Typed
<1>6. QED
  BY <1>2, <1>3, <1>4, <1>5, FiledStays DEF JInv

LEMMA StepKeeps == JInv /\ [Next]_vars => JInv'
<1>1. SUFFICES ASSUME JInv, [Next]_vars PROVE JInv'
  OBVIOUS
<1>2. CASE Sample
  BY <1>1, <1>2, SampleKeeps
<1>3. ASSUME NEW v \in Forced \cup {None}, SessionWrite(v) PROVE JInv'
  BY <1>1, <1>3, SessionWriteKeeps
<1>4. ASSUME NEW asked \in Periods, SessionSub(asked) PROVE JInv'
  BY <1>1, <1>4, SessionSubKeeps
<1>5. ASSUME NEW asked \in Periods, RecStart(asked) PROVE JInv'
  BY <1>1, <1>5, RecStartKeeps
<1>6. ASSUME NEW asked \in Periods, RecStartFails(asked) PROVE JInv'
  BY <1>1, <1>6, RecStartFailsKeeps
<1>7. CASE SessionUnsub
  BY <1>1, <1>7, SessionUnsubKeeps
<1>8. CASE RecStop
  BY <1>1, <1>8, RecStopKeeps
<1>9. CASE RecFlush
  BY <1>1, <1>9, RecFlushKeeps
<1>10. CASE Time
  BY <1>1, <1>10, TimeKeeps
<1>11. ASSUME NEW f \in Leftovers, Restart(f) PROVE JInv'
  BY <1>1, <1>11, RestartKeeps
<1>12. CASE UNCHANGED vars
  BY <1>1, <1>12, StutterKeeps
<1>13. QED
  BY <1>1, <1>2, <1>3, <1>4, <1>5, <1>6, <1>7, <1>8, <1>9, <1>10, <1>11, <1>12 DEF Next

LEMMA HeldTypes == JInv => TypeOK
<1>1. SUFFICES ASSUME JInv PROVE TypeOK
  OBVIOUS
<1>2. Typed /\ Channel /\ InForce /\ Followed /\ Filed
  BY <1>1 DEF JInv
<1>3. chan.period \in 0..MaxPeriod
  <2>1. CASE holders = {}
    BY <1>2, <2>1, Constants DEF Channel, NoChannel
  <2>2. CASE holders # {}
    BY <1>2, <2>2, Constants DEF Channel, Sampled
  <2>3. QED
    BY <2>1, <2>2
<1>4. holders = {} <=> chan = NoChannel
  <2>1. CASE holders # {}
    <3>1. chan.period \in MinPeriod..MaxPeriod /\ MinPeriod > 0
      BY <1>2, <2>1, Constants DEF Channel, Sampled
    <3>2. NoChannel.period = 0
      BY DEF NoChannel
    <3>3. QED
      BY <2>1, <3>1, <3>2, Constants
  <2>2. QED
    BY <1>2, <2>1 DEF Channel
<1>5. \A i \in DOMAIN chan.buf : chan.buf[i] \in SampleType
  <2>1. chan.buf \in Seq(SamplesOf(Value))
    BY <1>2, TypedFacts
  <2>2. SamplesOf(Value) = SampleType
    BY DEF SamplesOf, SampleType
  <2>3. QED
    BY <2>1, <2>2
<1>6. ASSUME NEW f \in FileOf, Plain(f) PROVE FileType(f)
  <2>1. f.rows \in Seq(RowOf) /\ f.head \in {"absent", "empty", "new", "old"} /\ f.torn \in BOOLEAN
    BY <1>6 DEF FileOf
  <2>2. \A i \in DOMAIN f.rows : f.rows[i] \in RowOf
    BY <2>1
  <2>3. QED
    BY <1>6, <2>1, <2>2 DEF FileType, Plain, RowOf
<1>7. FileType(file) /\ FileType(aside)
  BY <1>2, <1>6 DEF Typed, Filed
<1>8. rec.cursor \in 0..MaxTime /\ rec.from \in 0..MaxTime
  BY <1>2 DEF Typed, CampaignOf
<1>9. chan.next \in Int /\ chan.since \in Int
  BY <1>2, TypedFacts
<1>10. rec.on /\ ~rec.header => file.head = "new"
  BY <1>2 DEF Filed
<1>11. QED
  BY <1>2, <1>3, <1>4, <1>5, <1>7, <1>8, <1>9, <1>10 DEF TypeOK, Typed

LEMMA OnGrid == JInv => SampledOnGrid
<1>1. SUFFICES ASSUME JInv PROVE SampledOnGrid
  OBVIOUS
<1>2. Typed /\ Channel
  BY <1>1 DEF JInv
<1>3. chan.buf \in Seq(SamplesOf(Value)) /\ DOMAIN chan.buf = 1..Len(chan.buf) /\ Len(chan.buf) \in Nat
      /\ chan \in ChannelOf(Value) /\ now \in Int
  BY <1>2, TypedFacts, BufDomain DEF Typed
<1>4. CASE holders = {}
  <2>1. chan.buf = <<>> /\ Len(chan.buf) = 0
    BY <1>2, <1>4, NoChannelIs DEF Channel
  <2>2. 1..(Len(chan.buf) - 1) = {} /\ DOMAIN chan.buf = {}
    BY <1>3, <2>1
  <2>3. QED
    BY <2>2 DEF SampledOnGrid
<1>5. CASE holders # {}
  <2>1. Sampled(chan, now) /\ chan.period \in Nat \ {0}
    BY <1>2, <1>5, Constants DEF Channel, Sampled
  <2>2. Stamped(chan.buf, chan.period, chan.next, chan.since, now)
    BY <2>1 DEF Sampled
  <2>3. \A i \in 1..(Len(chan.buf) - 1) : chan.buf[i].t < chan.buf[i + 1].t
    <3>1. TAKE i \in 1..(Len(chan.buf) - 1)
    <3>2. i \in 1..Len(chan.buf) /\ i + 1 \in 1..Len(chan.buf) /\ i < i + 1
      BY <1>3
    <3>3. QED
      BY <2>2, <3>2 DEF Stamped, Rising
  <2>4. ASSUME NEW i \in 1..Len(chan.buf), chan.buf[i].t > chan.since PROVE chan.buf[i].t % chan.period = 0
    <3>1. PICK k \in Int : chan.buf[i].t = k * chan.period
      BY <2>2, <2>4 DEF Stamped
    <3>2. (k * chan.period) % chan.period = 0
      BY <2>1, OnTheGridIs
    <3>3. QED
      BY <3>1, <3>2
  <2>5. \A i \in 1..Len(chan.buf) : chan.buf[i].t <= now /\ chan.buf[i].t < chan.next * chan.period
    BY <2>2 DEF Stamped
  <2>6. QED
    BY <1>3, <2>3, <2>4, <2>5 DEF SampledOnGrid
<1>6. QED
  BY <1>4, <1>5

LEMMA EveryDate == JInv => EveryDateJournaled
<1>1. SUFFICES ASSUME JInv, rec.on,
                      NEW k \in 0..(chan.next - 1), k * chan.period > rec.from, k * chan.period > chan.since
               PROVE  IF k * chan.period > rec.cursor
                      THEN \E i \in DOMAIN chan.buf : chan.buf[i].t = k * chan.period
                      ELSE \E i \in DOMAIN file.rows : file.rows[i].iso = Iso(k * chan.period)
  BY DEF EveryDateJournaled
<1>2. Typed /\ Entire
  BY <1>1 DEF JInv, Followed
<1>3. k \in Int /\ k < chan.next
  BY <1>2, TypedFacts
<1>4. Kept(k * chan.period)
  BY <1>1, <1>2, <1>3 DEF Entire
<1>5. DOMAIN chan.buf = 1..Len(chan.buf) /\ DOMAIN file.rows = 1..Len(file.rows)
  BY <1>2, TypedFacts, BufDomain DEF Typed
<1>6. QED
  BY <1>4, <1>5 DEF Kept, Holds, InFile

LEMMA InOrder == JInv => JournalInOrder
<1>1. SUFFICES ASSUME JInv, NEW i \in 1..(Len(file.rows) - 1) PROVE file.rows[i].iso < file.rows[i + 1].iso
  BY DEF JournalInOrder
<1>2. Ascending(file.rows) /\ Len(file.rows) \in Nat
  BY <1>1, TypedFacts DEF JInv, Filed
<1>3. i \in 1..Len(file.rows) /\ i + 1 \in 1..Len(file.rows) /\ i < i + 1
  BY <1>2
<1>4. QED
  BY <1>2, <1>3 DEF Ascending

LEMMA PrefixIs ==
  ASSUME NEW f \in FileOf, NEW g \in FileOf, Prolongs(g, f)
  PROVE  Len(g.rows) >= Len(f.rows) /\ SubSeq(g.rows, 1, Len(f.rows)) = f.rows
<1>1. f.rows \in Seq(RowOf) /\ g.rows \in Seq(RowOf) /\ Len(f.rows) \in Nat /\ Len(g.rows) \in Nat
  BY DEF FileOf
<1>2. Len(g.rows) >= Len(f.rows) /\ \A i \in 1..Len(f.rows) : g.rows[i] = f.rows[i]
  BY DEF Prolongs
<1> DEFINE s == SubSeq(g.rows, 1, Len(f.rows))
<1>3. s \in Seq(RowOf) /\ Len(s) = Len(f.rows) /\ \A i \in 1..Len(f.rows) : s[i] = g.rows[i]
  BY <1>1, <1>2
<1> HIDE DEF s
<1>4. s = f.rows
  BY <1>1, <1>2, <1>3
<1>5. QED
  BY <1>2, <1>4 DEF s

LEMMA NeverMixes == JInv /\ [Next]_vars => Unmixed
<1>1. SUFFICES ASSUME JInv, [Next]_vars PROVE Unmixed
  OBVIOUS
<1>2. Typed /\ Channel /\ Followed /\ Filed
  BY <1>1 DEF JInv
<1>3. file \in FileOf /\ Len(file.rows) \in Nat /\ Prolongs(file, file)
  <2>1. file \in FileOf /\ Len(file.rows) \in Nat
    BY <1>2, TypedFacts DEF Typed
  <2>2. QED
    BY <2>1 DEF Prolongs
<1>4. ASSUME file' = file PROVE Unmixed
  BY <1>3, <1>4, PrefixIs DEF Unmixed
<1>5. ASSUME file' \in FileOf, file'.head = "new", Prolongs(file', file), file.head # "old" PROVE Unmixed
  BY <1>3, <1>5, PrefixIs DEF Unmixed
<1> DEFINE f == FileThen
<1>6. /\ f \in FileOf /\ f.rows = file.rows /\ (rec.on => f.head = "new") /\ (~rec.on => f = file)
      /\ (file.head = "new" => f.head = "new")
      /\ (file.head = "old" => ~rec.on)
  <2>1. file.head = "old" => ~rec.on
    BY <1>2 DEF Filed
  <2>2. QED
    BY <1>2, <2>1, ClosedIs
<1>7. Prolongs(f, file)
  BY <1>3, <1>6 DEF Prolongs
<1> HIDE DEF f
<1>8. ASSUME NEW asked \in Periods, RecStart(asked) PROVE Unmixed
  <2>1. aside' = (IF f.head = "old" THEN f ELSE aside) /\ file' = Opened(f)
    BY <1>8 DEF RecStart, FileThen, f
  <2>2. CASE file.head = "old"
    BY <1>6, <2>1, <2>2, FilesAre DEF Unmixed, Opened, Fresh
  <2>3. CASE file.head = "new"
    <3>1. file' = f /\ f.head = "new"
      BY <1>6, <2>1, <2>3 DEF Opened, Fresh
    <3>2. QED
      BY <1>5, <1>6, <1>7, <2>3, <3>1
  <2>4. CASE file.head # "old" /\ file.head # "new"
    BY <2>4 DEF Unmixed
  <2>5. QED
    BY <2>2, <2>3, <2>4
<1>9. ASSUME NEW asked \in Periods, RecStartFails(asked) PROVE Unmixed
  <2>1. /\ aside' = (IF f.head = "old" THEN f ELSE aside)
        /\ file' = (IF f.head = "old" THEN NoFile ELSE f)
    BY <1>9 DEF RecStartFails, FileThen, f
  <2>2. CASE file.head = "old"
    BY <1>6, <2>1, <2>2, FilesAre DEF Unmixed
  <2>3. CASE file.head = "new"
    <3>1. file' = f /\ f.head = "new"
      BY <1>6, <2>1, <2>3
    <3>2. QED
      BY <1>5, <1>6, <1>7, <2>3, <3>1
  <2>4. CASE file.head # "old" /\ file.head # "new"
    BY <2>4 DEF Unmixed
  <2>5. QED
    BY <2>2, <2>3, <2>4
<1>10. CASE RecStop
  <2>1. rec.on /\ file' = f
    BY <1>10 DEF RecStop, FileThen, f
  <2>2. QED
    BY <1>5, <1>6, <1>7, <2>1
<1>11. CASE RecFlush
  <2>1. rec.on /\ file' = Appended(f, Rows(Batch))
    BY <1>11 DEF RecFlush, FileThen, f
  <2>2. Rows(Batch) \in Seq(RowOf)
    BY <1>2, <2>1, BatchRows DEF Followed
  <2>3. file' \in FileOf /\ file'.head = f.head /\ Prolongs(file', f)
    BY <1>6, <2>1, <2>2, AppendedIs
  <2>4. QED
    BY <1>5, <1>6, <2>1, <2>3 DEF Prolongs
<1>12. ASSUME NEW g \in Leftovers, Restart(g) PROVE Unmixed
  <2>1. file' = g
    BY <1>12 DEF Restart
  <2>2. /\ g \in FileOf /\ (file.head = "new" => g.head = "new" /\ Prolongs(g, file))
        /\ (file.head = "old" => g = file)
    BY <1>2, LeftoverIs
  <2>3. QED
    BY <1>3, <2>1, <2>2, PrefixIs DEF Unmixed
<1>13. CASE file' = file
  BY <1>4, <1>13
<1>14. Sample \/ SessionUnsub \/ Time \/ UNCHANGED vars => file' = file
  BY DEF Sample, SessionUnsub, Time, vars
<1>16. ASSUME NEW v \in Forced \cup {None}, SessionWrite(v) PROVE file' = file
  BY <1>16 DEF SessionWrite
<1>17. ASSUME NEW asked \in Periods, SessionSub(asked) PROVE file' = file
  BY <1>17 DEF SessionSub
<1>18. QED
  BY <1>1, <1>8, <1>9, <1>10, <1>11, <1>12, <1>13, <1>14, <1>16, <1>17 DEF Next

-----------------------------------------------------------------------------
(* The source of a page without a controller: its inductive invariant.     *)

simNow == Si!now

SimTyped ==
  /\ brut \in 0..MaxClock /\ haltedAt \in 0..MaxClock /\ haltedAt <= brut
  /\ running \in BOOLEAN /\ net \in BOOLEAN /\ hold \in {None} \cup 0..MaxClock
  /\ start \in Int /\ start <= simNow
  /\ refs \in 0..MaxRefs /\ simChan \in ChannelOf(Value)
  /\ simForced \in Forced \cup {None} /\ simOrder.v = simForced
  /\ simOrder.at \in Int /\ simOrder.at <= simNow /\ simChan.born <= simNow
  /\ net => simForced = None

SimSampled(ch, r, n) == IF r = 0 THEN ch = NoChannel ELSE Sampled(ch, n)

\* The dates that must stay: those of the horizon, and those a tile is frozen on.
ToHold(d, n, h) ==
  d >= n - SimHorizon \/ (h # None /\ d >= h /\ d >= n - HoldMax)
SimHeld(ch, n, h) ==
  \A k \in Int : k < ch.next /\ k * ch.period > ch.since /\ ToHold(k * ch.period, n, h)
                    => Holds(ch.buf, k * ch.period)

\* Of this capture, and so is what comes next.
SimOfThis(ch, r, s) ==
  r # 0 /\ ch.born < s => /\ s <= ch.next * ch.period
                          /\ \A i \in 1..Len(ch.buf) : ch.buf[i].t >= s

SimShown(ch, o) ==
  /\ Obeys(ch, o)
  /\ net => \A i \in 1..Len(ch.buf) : ch.buf[i].v = Generated
  /\ o.v # None /\ ch.buf # <<>> /\ ch.buf[Len(ch.buf)].t > ch.born => ch.buf[Len(ch.buf)].v = o.v

SimInv ==
  /\ SimTyped /\ SimSampled(simChan, refs, simNow) /\ SimHeld(simChan, simNow, hold)
  /\ SimOfThis(simChan, refs, start) /\ SimShown(simChan, simOrder)

LEMMA SimConstants ==
  /\ SimHorizon \in Nat /\ HoldMax \in Nat /\ Slack \in Nat /\ MaxRefs \in Nat /\ MaxClock \in Nat
  /\ MinPeriod \in Nat \ {0} /\ MaxPeriod \in Nat /\ Periods \subseteq Int
  BY SimulationAssumption, Constants

\* The operators of the page are those of the server.
LEMMA SameOperators ==
  /\ Si!NoChannel = NoChannel
  /\ \A asked \in Int : Si!PeriodOf(asked) = PeriodOf(asked)
  /\ \A ch, p, n : Si!Tightened(ch, p, n) = Tightened(ch, p, n)
  /\ \A ch, n, v : Si!Due(ch, n, v) = Due(ch, n, v) /\ Si!From(ch, n) = From(ch, n)
                   /\ (Si!Late(ch, n) <=> Late(ch, n))
  /\ \A s, d : Si!Trimmed(s, d) = Trimmed(s, d)
  /\ \A n, p : Si!Ceil(n, p) = Ceil(n, p)
<1>1. Si!NoChannel = NoChannel
  BY DEF Si!NoChannel, NoChannel
<1>2. \A asked \in Int : Si!PeriodOf(asked) = PeriodOf(asked)
  BY DEF Si!PeriodOf, PeriodOf
<1>3. \A ch, p, n : Si!Tightened(ch, p, n) = Tightened(ch, p, n)
  BY DEF Si!Tightened, Tightened
<1>4. \A ch, n, v : Si!Due(ch, n, v) = Due(ch, n, v) /\ Si!From(ch, n) = From(ch, n)
                    /\ (Si!Late(ch, n) <=> Late(ch, n))
  BY DEF Si!Due, Due, Si!From, From, Si!Late, Late, Si!Samples, Samples, Si!Ceil, Ceil
<1>5. \A s, d : Si!Trimmed(s, d) = Trimmed(s, d)
  BY Zenon DEF Si!Trimmed, Trimmed, Si!Cardinality, Cardinality
<1>6. \A n, p : Si!Ceil(n, p) = Ceil(n, p)
  BY DEF Si!Ceil, Ceil
<1>7. QED
  BY <1>1, <1>2, <1>3, <1>4, <1>5, <1>6

LEMMA SimFacts ==
  ASSUME SimTyped
  PROVE  /\ simNow \in Int /\ simNow >= 0 /\ simNow <= brut /\ brut \in Int /\ haltedAt \in Int
         /\ start \in Int /\ simOrder.at \in Int /\ simChan \in ChannelOf(Value)
         /\ simChan.buf \in Seq(SamplesOf(Value)) /\ Len(simChan.buf) \in Nat
         /\ simChan.period \in Int /\ simChan.next \in Int /\ simChan.since \in Int /\ simChan.born \in Int
<1>1. /\ brut \in Int /\ haltedAt \in Int /\ 0 <= brut /\ 0 <= haltedAt /\ haltedAt <= brut
      /\ start \in Int /\ simOrder.at \in Int
  BY SimConstants DEF SimTyped
<1>2. simNow \in Int /\ simNow >= 0 /\ simNow <= brut
  BY <1>1 DEF simNow, Si!now
<1>3. simChan \in ChannelOf(Value)
  BY DEF SimTyped
<1>4. simChan.buf \in Seq(SamplesOf(Value)) /\ simChan.period \in Int /\ simChan.next \in Int
      /\ simChan.since \in Int /\ simChan.born \in Int
  BY <1>3 DEF ChannelOf
<1>5. QED
  BY <1>1, <1>2, <1>3, <1>4

\* Time leaves less to hold.
LEMMA ToHoldLess ==
  ASSUME NEW d \in Int, NEW n \in Int, NEW m \in Int, n <= m, NEW h \in {None} \cup Int, ToHold(d, m, h)
  PROVE  ToHold(d, n, h)
<1>1. SimHorizon \in Int /\ HoldMax \in Int
  BY SimConstants
<1>2. d >= m - SimHorizon => d >= n - SimHorizon
  BY <1>1
<1>3. d >= m - HoldMax => d >= n - HoldMax
  BY <1>1
<1>4. QED
  BY <1>2, <1>3 DEF ToHold

LEMMA SampledLater ==
  ASSUME NEW V, NEW ch \in ChannelOf(V), NEW n \in Int, NEW m \in Int, n <= m, Sampled(ch, n)
  PROVE  Sampled(ch, m)
<1>1. /\ ch.buf \in Seq(SamplesOf(V)) /\ ch.period \in Int /\ ch.next \in Int /\ ch.since \in Int
      /\ (ch.next - 1) * ch.period \in Int
  BY DEF ChannelOf
<1>2. Stamped(ch.buf, ch.period, ch.next, ch.since, m)
  <2>1. Stamped(ch.buf, ch.period, ch.next, ch.since, n) /\ ch.since <= ch.since
    BY <1>1 DEF Sampled
  <2>2. QED
    BY <1>1, <2>1, StampedLater
<1>3. (ch.next - 1) * ch.period <= m
  BY <1>1 DEF Sampled
<1>4. QED
  BY <1>2, <1>3 DEF Sampled

\* A channel that nobody has is empty.
LEMMA NoChannelHolds ==
  ASSUME NEW n \in Int, NEW h, NEW s, NEW o
  PROVE  /\ SimSampled(NoChannel, 0, n) /\ SimOfThis(NoChannel, 0, s) /\ SimShown(NoChannel, o)
         /\ SimHeld(NoChannel, n, h)
<1>1. NoChannel.buf = <<>> /\ NoChannel.next = 0 /\ NoChannel.period = 0 /\ NoChannel.since = 0
  BY DEF NoChannel
<1>2. SimHeld(NoChannel, n, h)
  <2>1. \A k \in Int : ~ (k * 0 > 0)
    OBVIOUS
  <2>2. QED
    BY <1>1, <2>1 DEF SimHeld
<1>3. QED
  BY <1>1, <1>2 DEF SimSampled, SimOfThis, SimShown, Obeys

-----------------------------------------------------------------------------
(* The steps of the page.                                                  *)

LEMMA SimTimeKeeps == SimInv /\ Si!Time => SimInv'
<1>1. SUFFICES ASSUME SimInv, Si!Time PROVE SimInv'
  OBVIOUS
<1>2. /\ SimTyped /\ SimSampled(simChan, refs, simNow) /\ SimHeld(simChan, simNow, hold)
      /\ SimOfThis(simChan, refs, start) /\ SimShown(simChan, simOrder)
  BY <1>1 DEF SimInv
<1>3. /\ brut < MaxClock /\ brut' = brut + 1
      /\ UNCHANGED <<running, haltedAt, start, hold, net, simChan, refs, simForced, simOrder>>
  BY <1>1 DEF Si!Time
<1>4. /\ simNow \in Int /\ brut \in Int /\ haltedAt \in Int /\ start \in Int /\ simOrder.at \in Int
      /\ simChan \in ChannelOf(Value) /\ simChan.born \in Int /\ 0 <= brut /\ haltedAt <= brut
  BY <1>2, SimFacts DEF SimTyped
<1>5. simNow' \in Int /\ simNow <= simNow'
  BY <1>3, <1>4 DEF simNow, Si!now
<1>6. SimTyped'
  <2>1. brut' \in 0..MaxClock /\ haltedAt <= brut'
    BY <1>3, <1>4, SimConstants
  <2>2. start <= simNow' /\ simOrder.at <= simNow' /\ simChan.born <= simNow'
    BY <1>2, <1>4, <1>5 DEF SimTyped
  <2>3. QED
    BY <1>2, <1>3, <2>1, <2>2 DEF SimTyped
<1>7. PICK m \in Int : m = simNow'
  BY <1>5
<1>8. SimSampled(simChan, refs, m)
  <2>1. CASE refs = 0
    BY <1>2, <2>1 DEF SimSampled
  <2>2. CASE refs # 0
    BY <1>2, <1>4, <1>5, <1>7, <2>2, SampledLater DEF SimSampled
  <2>3. QED
    BY <2>1, <2>2
<1>9. SimHeld(simChan, m, hold)
  <2>1. ASSUME NEW k \in Int, ToHold(k * simChan.period, m, hold)
        PROVE  ToHold(k * simChan.period, simNow, hold)
    <3>1. PICK d \in Int : d = k * simChan.period
      BY <1>2, SimFacts
    <3>2. hold \in {None} \cup Int
      BY <1>2, SimConstants DEF SimTyped
    <3>3. ToHold(d, simNow, hold)
      BY <1>4, <1>5, <1>7, <2>1, <3>1, <3>2, ToHoldLess
    <3>4. QED
      BY <3>1, <3>3
  <2>2. QED
    BY <1>2, <2>1 DEF SimHeld
<1>10. (SimSampled(simChan, refs, simNow) /\ SimHeld(simChan, simNow, hold))'
  BY <1>3, <1>7, <1>8, <1>9 DEF SimSampled, SimHeld, ToHold, Sampled, Stamped, Rising, Holds, NoChannel
<1>11. (SimOfThis(simChan, refs, start) /\ SimShown(simChan, simOrder))'
  BY <1>2, <1>3 DEF SimOfThis, SimShown, Obeys
<1>12. QED
  BY <1>6, <1>10, <1>11 DEF SimInv

\* What a step leaves of the channel and of the instants decides of the rest.
LEMMA SimThen ==
  ASSUME NEW ch, NEW r, NEW n, NEW h, NEW s, NEW o,
         SimTyped', simChan' = ch, refs' = r, simNow' = n, hold' = h, start' = s, simOrder' = o, net' = net,
         SimSampled(ch, r, n), SimHeld(ch, n, h), SimOfThis(ch, r, s), SimShown(ch, o)
  PROVE  SimInv'
<1>1. (SimSampled(simChan, refs, simNow) /\ SimHeld(simChan, simNow, hold))'
  BY DEF SimSampled, SimHeld, ToHold, Sampled, Stamped, Rising, Holds, NoChannel
<1>2. (SimOfThis(simChan, refs, start) /\ SimShown(simChan, simOrder))'
  BY DEF SimOfThis, SimShown, Obeys
<1>3. QED
  BY <1>1, <1>2 DEF SimInv

LEMMA SimNowStays == UNCHANGED <<brut, running, haltedAt>> => simNow' = simNow
  BY DEF simNow, Si!now

\* What is said of a channel that begins another grid, or the same one.
LEMMA ShownSame ==
  ASSUME NEW ch, NEW c, ch.buf = c.buf, ch.born = c.born, NEW o, SimShown(ch, o)
  PROVE  SimShown(c, o)
  BY DEF SimShown, Obeys

LEMMA SimFirst ==
  ASSUME NEW p \in MinPeriod..MaxPeriod, NEW n \in Int, NEW s \in Int, s <= n, NEW h, NEW o,
         NEW r, r # 0, NEW ch,
         ch = [period |-> p, next |-> n \div p + 1, since |-> n - SimHorizon - 1, born |-> n,
               buf |-> Samples(p, Ceil(n - SimHorizon, p), n \div p, Generated)]
  PROVE  /\ ch \in ChannelOf(Value) /\ ch.born = n
         /\ SimSampled(ch, r, n) /\ SimHeld(ch, n, h) /\ SimOfThis(ch, r, s) /\ SimShown(ch, o)
<1> DEFINE b == Samples(p, Ceil(n - SimHorizon, p), n \div p, Generated)
           next == n \div p + 1
           since == n - SimHorizon - 1
<1>0. ch = [period |-> p, next |-> next, since |-> since, born |-> n, buf |-> b]
  OBVIOUS
<1>1. p \in Nat \ {0} /\ p \in Int /\ SimHorizon \in Nat /\ since \in Int /\ Generated \in Value
  BY Constants, SimConstants DEF Value
<1>2. /\ b \in Seq(SamplesOf(Value)) /\ Stamped(b, p, next, since, n)
      /\ \A i \in 1..Len(b) : b[i].v = Generated
      /\ \A k \in Int : k < next /\ k * p > since => Holds(b, k * p)
  <2>1. PICK V : V = Value
    OBVIOUS
  <2>2. Generated \in V /\ p \in Nat \ {0} /\ n \in Int /\ SimHorizon \in Nat
    BY <1>1, <2>1
  <2>3. LET w == Samples(p, Ceil(n - SimHorizon, p), n \div p, Generated)
            after == n \div p + 1
        IN  /\ w \in Seq(SamplesOf(V)) /\ Stamped(w, p, after, n - SimHorizon - 1, n)
            /\ \A i \in 1..Len(w) : w[i].v = Generated /\ n - SimHorizon <= w[i].t
            /\ \A k \in Int : k < after /\ k * p > n - SimHorizon - 1 => Holds(w, k * p)
    BY ONLY <2>2, FilledIs, Zenon
  <2>4. QED
    BY ONLY <2>1, <2>3
<1>3. next \in Int /\ (next - 1) * p <= n
  BY <1>1, NextIs
<1> HIDE DEF b, next, since
<1>4. ch \in ChannelOf(Value) /\ ch.born = n
  BY <1>0, <1>1, <1>2, <1>3 DEF ChannelOf
<1>5. SimSampled(ch, r, n)
  BY <1>0, <1>1, <1>2, <1>3 DEF SimSampled, Sampled
<1>6. SimHeld(ch, n, h)
  BY <1>0, <1>2 DEF SimHeld
<1>7. SimOfThis(ch, r, s)
  <2>1. ~ (n < s)
    OBVIOUS
  <2>2. QED
    BY <1>0, <2>1 DEF SimOfThis
<1>8. SimShown(ch, o)
  <2>1. \A i \in 1..Len(b) : b[i].t \in Int /\ ~ (b[i].t > n)
    <3>1. Rising(b) /\ \A i \in 1..Len(b) : b[i].t <= n
      BY <1>2 DEF Stamped
    <3>2. \A i \in 1..Len(b) : b[i].t \in Int
      BY <1>2, <3>1, StampedDates
    <3>3. QED
      BY <3>1, <3>2
  <2>2. b # <<>> => Len(b) \in 1..Len(b)
    BY <1>2
  <2>3. QED
    BY <1>0, <1>2, <2>1, <2>2 DEF SimShown, Obeys
<1>9. QED
  BY <1>4, <1>5, <1>6, <1>7, <1>8

LEMMA SimSubscribeKeeps ==
  ASSUME SimInv, NEW asked \in Periods, Si!subscribe(asked)
  PROVE  SimInv'
<1> DEFINE p == PeriodOf(asked)
           n == simNow
<1>1. /\ SimTyped /\ SimSampled(simChan, refs, n) /\ SimHeld(simChan, n, hold)
      /\ SimOfThis(simChan, refs, start) /\ SimShown(simChan, simOrder)
  BY DEF SimInv
<1>2. /\ refs < MaxRefs /\ refs' = refs + 1
      /\ UNCHANGED <<brut, running, haltedAt, start, hold, net, simForced, simOrder>>
  BY DEF Si!subscribe
<1>3. asked \in Int /\ p \in MinPeriod..MaxPeriod /\ Si!PeriodOf(asked) = p
  BY SimConstants, PeriodOfIs, SameOperators
<1>4. n \in Int /\ start \in Int /\ start <= n /\ simChan \in ChannelOf(Value) /\ simChan.born <= n
      /\ refs \in 0..MaxRefs /\ refs + 1 \in 0..MaxRefs /\ refs + 1 # 0
  BY <1>1, <1>2, SimFacts, SimConstants DEF SimTyped
<1>5. simNow' = n
  BY <1>2, SimNowStays
<1> HIDE DEF p
<1>6. PICK ch : /\ simChan' = ch /\ ch \in ChannelOf(Value) /\ ch.born <= n
                /\ SimSampled(ch, refs + 1, n) /\ SimHeld(ch, n, hold) /\ SimOfThis(ch, refs + 1, start)
                /\ SimShown(ch, simOrder)
  <2>1. CASE refs = 0
    <3>1. simChan' = [[period |-> p, next |-> n \div p + 1, since |-> n, born |-> n,
                       buf |-> Samples(p, Ceil(n - SimHorizon, p), n \div p, Generated)]
                        EXCEPT !.since = n - SimHorizon - 1]
      BY <1>3, <2>1 DEF Si!subscribe, Si!NewChannel, Si!Samples, Samples, Si!Ceil, Ceil, simNow
    <3>2. PICK c : /\ c = simChan'
                   /\ c = [period |-> p, next |-> n \div p + 1, since |-> n - SimHorizon - 1, born |-> n,
                           buf |-> Samples(p, Ceil(n - SimHorizon, p), n \div p, Generated)]
      BY <3>1
    <3> HIDE DEF n
    <3>3. /\ c \in ChannelOf(Value) /\ c.born = n
          /\ SimSampled(c, refs + 1, n) /\ SimHeld(c, n, hold) /\ SimOfThis(c, refs + 1, start)
          /\ SimShown(c, simOrder)
      <4>1. PICK m, s, r, h, o, q : m = n /\ s = start /\ r = refs + 1 /\ h = hold /\ o = simOrder /\ q = p
        OBVIOUS
      <4>2. q \in MinPeriod..MaxPeriod /\ m \in Int /\ s \in Int /\ s <= m /\ r # 0
        BY <1>3, <1>4, <4>1
      <4>3. c = [period |-> q, next |-> m \div q + 1, since |-> m - SimHorizon - 1, born |-> m,
                 buf |-> Samples(q, Ceil(m - SimHorizon, q), m \div q, Generated)]
        BY ONLY <3>2, <4>1
      <4>4. c \in ChannelOf(Value) /\ c.born = m
        BY ONLY <4>2, <4>3, SimFirst
      <4>5. SimSampled(c, r, m)
        BY ONLY <4>2, <4>3, SimFirst
      <4>6. SimHeld(c, m, h)
        BY ONLY <4>2, <4>3, SimFirst
      <4>7. SimOfThis(c, r, s)
        BY ONLY <4>2, <4>3, SimFirst
      <4>8. SimShown(c, o)
        BY ONLY <4>2, <4>3, SimFirst
      <4>9. QED
        BY ONLY <4>1, <4>4, <4>5, <4>6, <4>7, <4>8
    <3>4. QED
      BY <1>4, <3>2, <3>3
  <2>2. CASE refs # 0
    <3> DEFINE r == Tightened(simChan, p, n)
    <3>1. simChan' = r
      BY <1>3, <2>2, SameOperators DEF Si!subscribe, simNow
    <3>2. Sampled(simChan, n)
      BY <1>1, <2>2 DEF SimSampled
    <3> HIDE DEF n
    <3>3. /\ r \in ChannelOf(Value) /\ Sampled(r, n) /\ (r = simChan \/ BegunAt(r, n))
          /\ r.buf = simChan.buf /\ r.born = simChan.born
      BY <1>3, <1>4, <3>2, TightenedIs
    <3> HIDE DEF r
    <3>4. SimShown(r, simOrder)
      BY <1>1, <3>3, ShownSame
    <3>5. SimSampled(r, refs + 1, n)
      BY <1>4, <3>3 DEF SimSampled
    <3>6. SimHeld(r, n, hold) /\ SimOfThis(r, refs + 1, start)
      <4>1. CASE r = simChan
        BY <1>1, <2>2, <4>1 DEF SimHeld, SimOfThis
      <4>2. CASE BegunAt(r, n)
        <5>1. \A k \in Int : k < r.next => ~ (k * r.period > r.since)
          <6>1. r.period \in Int
            BY <3>3 DEF ChannelOf
          <6>2. ASSUME NEW k \in Int, k < r.next PROVE ~ (k * r.period > r.since)
            <7>1. k * r.period \in Int /\ k * r.period <= n /\ r.since = n
              BY <4>2, <6>1, <6>2 DEF BegunAt
            <7>2. QED
              BY ONLY <1>4, <7>1
          <6>3. QED
            BY <6>2
        <5>2. SimHeld(r, n, hold)
          BY <5>1 DEF SimHeld
        <5>3. start <= r.next * r.period
          <6>1. r.next * r.period \in Int /\ n < r.next * r.period
            BY <3>3, <4>2 DEF ChannelOf, BegunAt
          <6>2. QED
            BY ONLY <1>4, <6>1
        <5>4. QED
          BY <1>1, <2>2, <3>3, <5>2, <5>3 DEF SimOfThis
      <4>3. QED
        BY <3>3, <4>1, <4>2
    <3>7. QED
      BY <1>4, <3>1, <3>3, <3>4, <3>5, <3>6
  <2>3. QED
    BY <2>1, <2>2
<1>7. SimTyped'
  BY <1>1, <1>2, <1>4, <1>5, <1>6 DEF SimTyped
<1>8. QED
  BY <1>2, <1>5, <1>6, <1>7, SimThen

LEMMA SimUnsubscribeKeeps == SimInv /\ Si!unsubscribe => SimInv'
<1>1. SUFFICES ASSUME SimInv, Si!unsubscribe PROVE SimInv'
  OBVIOUS
<1>2. /\ SimTyped /\ SimSampled(simChan, refs, simNow) /\ SimHeld(simChan, simNow, hold)
      /\ SimOfThis(simChan, refs, start) /\ SimShown(simChan, simOrder)
  BY <1>1 DEF SimInv
<1>3. /\ refs > 0 /\ refs' = refs - 1 /\ simChan' = (IF refs = 1 THEN NoChannel ELSE simChan)
      /\ UNCHANGED <<brut, running, haltedAt, start, hold, net, simForced, simOrder>>
  BY <1>1, SameOperators DEF Si!unsubscribe
<1>4. simNow' = simNow
  BY <1>3, SimNowStays
<1>5. refs - 1 \in 0..MaxRefs /\ simNow \in Int /\ simNow >= 0
  BY <1>2, <1>3, SimFacts, SimConstants DEF SimTyped
<1>6. CASE refs = 1
  <2>1. /\ SimSampled(NoChannel, 0, simNow) /\ SimOfThis(NoChannel, 0, start) /\ SimShown(NoChannel, simOrder)
        /\ SimHeld(NoChannel, simNow, hold)
    BY <1>5, NoChannelHolds
  <2>2. SimTyped'
    BY <1>2, <1>3, <1>4, <1>5, <1>6, NoChannelIs DEF SimTyped
  <2>3. refs' = 0 /\ simChan' = NoChannel
    BY <1>3, <1>6
  <2>4. QED
    BY <1>3, <1>4, <2>1, <2>2, <2>3, SimThen
<1>7. CASE refs # 1
  <2>1. SimTyped'
    BY <1>2, <1>3, <1>4, <1>5, <1>7 DEF SimTyped
  <2>2. refs - 1 # 0 /\ refs # 0
    BY <1>2, <1>3, <1>7, SimConstants DEF SimTyped
  <2>3. SimSampled(simChan, refs - 1, simNow) /\ SimOfThis(simChan, refs - 1, start)
    BY <1>2, <2>2 DEF SimSampled, SimOfThis
  <2>4. simChan' = simChan
    BY <1>3, <1>7
  <2>5. QED
    BY <1>2, <1>3, <1>4, <2>1, <2>3, <2>4, SimThen
<1>8. QED
  BY <1>6, <1>7

LEMMA SimSetHoldKeeps ==
  ASSUME SimInv, NEW t \in {None} \cup 0..MaxClock, Si!setHold(t)
  PROVE  SimInv'
<1>2. /\ SimTyped /\ SimSampled(simChan, refs, simNow) /\ SimHeld(simChan, simNow, hold)
      /\ SimOfThis(simChan, refs, start) /\ SimShown(simChan, simOrder)
  BY DEF SimInv
<1>3. /\ hold' = t /\ (t # None => t >= simNow - SimHorizon \/ (hold # None /\ t >= hold))
      /\ UNCHANGED <<brut, running, haltedAt, start, net, simChan, refs, simForced, simOrder>>
  BY DEF Si!setHold, Si!InReach, simNow
<1>4. simNow' = simNow
  BY <1>3, SimNowStays
<1>5. SimTyped'
  BY <1>2, <1>3, <1>4 DEF SimTyped
<1>6. simNow \in Int /\ SimHorizon \in Int /\ HoldMax \in Int /\ t \in {None} \cup Int /\ hold \in {None} \cup Int
  BY <1>2, SimFacts, SimConstants DEF SimTyped
<1>7. ASSUME NEW d \in Int, ToHold(d, simNow, t) PROVE ToHold(d, simNow, hold)
  <2>1. SUFFICES ASSUME t # None, d >= t, d >= simNow - HoldMax PROVE ToHold(d, simNow, hold)
    BY <1>7 DEF ToHold
  <2>2. CASE t >= simNow - SimHorizon
    <3>1. d >= simNow - SimHorizon
      BY <1>6, <2>1, <2>2
    <3>2. QED
      BY <3>1 DEF ToHold
  <2>3. CASE hold # None /\ t >= hold
    <3>1. d >= hold
      BY <1>6, <2>1, <2>3
    <3>2. QED
      BY <2>1, <2>3, <3>1 DEF ToHold
  <2>4. QED
    BY <1>3, <2>1, <2>2, <2>3
<1>8. SimHeld(simChan, simNow, t)
  <2>1. \A k \in Int : k * simChan.period \in Int
    BY <1>2, SimFacts
  <2>2. QED
    BY <1>2, <1>7, <2>1 DEF SimHeld
<1>9. QED
  BY <1>2, <1>3, <1>4, <1>5, <1>8, SimThen

LEMMA SimStopKeeps == SimInv /\ Si!stop => SimInv'
<1>1. SUFFICES ASSUME SimInv, Si!stop PROVE SimInv'
  OBVIOUS
<1>2. /\ SimTyped /\ SimSampled(simChan, refs, simNow) /\ SimHeld(simChan, simNow, hold)
      /\ SimOfThis(simChan, refs, start) /\ SimShown(simChan, simOrder)
  BY <1>1 DEF SimInv
<1>3. /\ running /\ running' = FALSE /\ haltedAt' = brut
      /\ UNCHANGED <<brut, start, hold, net, simChan, refs, simForced, simOrder>>
  BY <1>1 DEF Si!stop
<1>4. simNow' = simNow
  BY <1>3 DEF simNow, Si!now
<1>5. SimTyped'
  <2>1. /\ brut \in 0..MaxClock /\ brut \in Int /\ brut <= brut
        /\ start <= simNow /\ simOrder.at <= simNow /\ simChan.born <= simNow
    BY <1>2, SimFacts DEF SimTyped
  <2>2. /\ net \in BOOLEAN /\ hold \in {None} \cup 0..MaxClock /\ start \in Int
        /\ refs \in 0..MaxRefs /\ simChan \in ChannelOf(Value)
        /\ simForced \in Forced \cup {None} /\ simOrder.v = simForced
        /\ simOrder.at \in Int /\ (net => simForced = None)
    BY <1>2 DEF SimTyped
  <2>3. haltedAt' \in 0..MaxClock /\ haltedAt' <= brut' /\ brut' \in 0..MaxClock /\ running' \in BOOLEAN
    BY <1>3, <2>1
  <2>4. start' <= simNow' /\ simOrder'.at <= simNow' /\ simChan'.born <= simNow'
    BY <1>3, <1>4, <2>1
  <2>5. QED
    BY <1>3, <2>2, <2>3, <2>4 DEF SimTyped
<1>6. QED
  BY <1>2, <1>3, <1>4, <1>5, SimThen

LEMMA CeilBefore ==
  ASSUME NEW n \in Int, NEW p \in Nat \ {0}
  PROVE  LET next == Ceil(n, p)
         IN  /\ next \in Int /\ n <= next * p /\ (next - 1) * p <= n
             /\ \A k \in Int : k < next => k * p <= n - 1
<1>1. PICK q \in Int : q = Ceil(n, p) /\ n <= q * p /\ q * p < n + p
  BY GridCeil
<1>2. q * p \in Int /\ (q - 1) * p = q * p - p
  BY GridOrder
<1>3. (q - 1) * p <= n
  BY ONLY <1>1, <1>2, n \in Int, p \in Nat
<1>4. ASSUME NEW k \in Int, k < q PROVE k * p <= n - 1
  <2>1. k * p + p <= q * p /\ k * p \in Int
    BY <1>4, GridOrder
  <2>2. QED
    BY ONLY <1>1, <1>2, <2>1, n \in Int, p \in Nat
<1>5. QED
  BY <1>1, <1>3, <1>4

LEMMA SimStartKeeps == SimInv /\ Si!startCapture => SimInv'
<1>1. SUFFICES ASSUME SimInv, Si!startCapture PROVE SimInv'
  OBVIOUS
<1>2. /\ SimTyped /\ SimSampled(simChan, refs, simNow) /\ SimHeld(simChan, simNow, hold)
      /\ SimOfThis(simChan, refs, start) /\ SimShown(simChan, simOrder)
  BY <1>1 DEF SimInv
<1>0. PICK p : p = simChan.period
  OBVIOUS
<1> DEFINE ch == [simChan EXCEPT !.buf = <<>>, !.next = Ceil(brut, p), !.since = brut - 1]
<1>3. /\ ~running /\ running' = TRUE /\ start' = brut
      /\ simChan' = (IF refs = 0 THEN simChan ELSE ch)
      /\ UNCHANGED <<brut, haltedAt, hold, net, refs, simForced, simOrder>>
  BY <1>0, <1>1, SameOperators DEF Si!startCapture
<1>4. /\ simNow' = brut /\ simNow \in Int /\ simNow <= brut /\ brut \in Int /\ simOrder.at \in Int
      /\ simChan.born \in Int /\ simChan \in ChannelOf(Value) /\ simOrder.at <= simNow /\ simChan.born <= simNow
      /\ brut \in 0..MaxClock
  BY <1>2, <1>3, SimFacts DEF simNow, Si!now, SimTyped
<1>5. simOrder.at <= brut /\ simChan.born <= brut /\ brut <= brut
  BY <1>4
<1>6. CASE refs = 0
  <2>1. simChan = NoChannel /\ simChan' = NoChannel
    BY <1>2, <1>3, <1>6 DEF SimSampled
  <2>2. /\ SimSampled(NoChannel, 0, brut) /\ SimOfThis(NoChannel, 0, brut) /\ SimShown(NoChannel, simOrder)
        /\ SimHeld(NoChannel, brut, hold)
    BY <1>4, NoChannelHolds
  <2>3. SimTyped'
    BY <1>2, <1>3, <1>4, <1>5, <2>1 DEF SimTyped
  <2>4. refs' = 0
    BY <1>3, <1>6
  <2>5. QED
    BY <1>3, <1>4, <2>1, <2>2, <2>3, <2>4, SimThen
<1>7. CASE refs # 0
  <2>1. Sampled(simChan, simNow) /\ simChan' = ch
    BY <1>2, <1>3, <1>7 DEF SimSampled
  <2>2. p \in Nat \ {0} /\ p \in Int /\ p \in MinPeriod..MaxPeriod
    BY <1>0, <2>1, Constants DEF Sampled
  <2>3. PICK next \in Int : /\ next = Ceil(brut, p) /\ brut <= next * p /\ (next - 1) * p <= brut
                            /\ \A k \in Int : k < next => k * p <= brut - 1
    BY <1>4, <2>2, CeilBefore
  <2>4. simChan = [period |-> p, next |-> simChan.next, since |-> simChan.since, born |-> simChan.born,
                   buf |-> simChan.buf]
    BY <1>0, <1>4 DEF ChannelOf
  <2>5. PICK b : b = <<>> /\ b \in Seq(SamplesOf(Value)) /\ Len(b) = 0
    <3>1. <<>> \in Seq(SamplesOf(Value)) /\ Len(<<>>) = 0
      BY ONLY TRUE
    <3>2. QED
      BY <3>1
  <2>6. ch = [period |-> p, next |-> next, since |-> brut - 1, born |-> simChan.born, buf |-> b]
    <3>1. ch = [simChan EXCEPT !.buf = b, !.next = next, !.since = brut - 1]
      BY ONLY <2>3, <2>5 DEF ch
    <3> HIDE DEF ch
    <3>2. QED
      <4>1. PICK f, d, e : f = simChan /\ d = brut - 1 /\ e = ch
        OBVIOUS
      <4>2. f = [period |-> p, next |-> f.next, since |-> f.since, born |-> f.born, buf |-> f.buf]
        BY ONLY <2>4, <4>1
      <4>3. e = [f EXCEPT !.buf = b, !.next = next, !.since = d]
        BY ONLY <3>1, <4>1
      <4>4. PICK x, y, z, w : x = f.next /\ y = f.since /\ z = f.born /\ w = f.buf
        OBVIOUS
      <4>5. f = [period |-> p, next |-> x, since |-> y, born |-> z, buf |-> w]
        BY ONLY <4>2, <4>4
      <4>6. e = [period |-> p, next |-> next, since |-> d, born |-> z, buf |-> b]
        BY ONLY <4>3, <4>5
      <4>7. QED
        BY ONLY <4>1, <4>4, <4>6
  <2> HIDE DEF ch
  <2>7. ch \in ChannelOf(Value) /\ ch.born = simChan.born /\ brut - 1 \in Int
    BY <1>4, <2>2, <2>5, <2>6 DEF ChannelOf
  <2>8. Stamped(b, p, next, brut - 1, brut)
    BY <2>5 DEF Stamped, Rising
  <2>9. SimSampled(ch, refs, brut)
    BY <1>7, <2>2, <2>3, <2>6, <2>8 DEF SimSampled, Sampled
  <2>10. SimHeld(ch, brut, hold)
    <3>1. \A k \in Int : k < next => ~ (k * p > brut - 1)
      <4>1. \A k \in Int : k * p \in Int
        BY <2>2
      <4>2. QED
        BY <1>4, <2>3, <4>1
    <3>2. QED
      BY <2>6, <3>1 DEF SimHeld
  <2>11. SimOfThis(ch, refs, brut)
    BY <2>3, <2>5, <2>6 DEF SimOfThis
  <2>12. SimShown(ch, simOrder)
    BY <2>5, <2>6 DEF SimShown, Obeys
  <2>13. SimTyped'
    BY <1>2, <1>3, <1>4, <1>5, <2>1, <2>7 DEF SimTyped
  <2>14. QED
    BY <1>3, <1>4, <2>1, <2>9, <2>10, <2>11, <2>12, <2>13, SimThen
<1>8. QED
  BY <1>6, <1>7

\* Forcing a value shows it in the last sample, and nowhere else.
LEMMA MarkedIs ==
  ASSUME NEW b \in Seq(SamplesOf(Value)), NEW v \in Forced \cup {None}, NEW m, m = Si!Marked(b, v)
  PROVE  /\ m \in Seq(SamplesOf(Value)) /\ Len(m) = Len(b)
         /\ \A i \in 1..Len(b) : m[i].t = b[i].t /\ (v = None \/ i # Len(b) => m[i].v = b[i].v)
         /\ v # None /\ b # <<>> => m[Len(b)].v = v
         /\ b = <<>> => m = <<>>
<1>1. CASE v = None \/ b = <<>>
  <2>1. m = b
    BY <1>1 DEF Si!Marked
  <2>2. QED
    BY <1>1, <2>1
<1>2. CASE v # None /\ b # <<>>
  <2>1. PICK n : n = Len(b)
    OBVIOUS
  <2>2. n \in 1..Len(b) /\ n \in Nat /\ v \in Value
    BY <1>2, <2>1 DEF Value
  <2>3. b[n] \in SamplesOf(Value)
    BY <2>2
  <2>4. PICK t, w : b[n] = [t |-> t, v |-> w] /\ t \in Int
    BY <2>3 DEF SamplesOf
  <2>5. PICK e : e = [t |-> t, v |-> v]
    OBVIOUS
  <2>6. m = [b EXCEPT ![n] = e]
    <3>1. m = [b EXCEPT ![n].v = v]
      BY <1>2, <2>1 DEF Si!Marked
    <3>2. [b[n] EXCEPT !.v = v] = e
      BY ONLY <2>4, <2>5
    <3>3. m = [b EXCEPT ![n] = [b[n] EXCEPT !.v = v]]
      BY ONLY <3>1
    <3>4. QED
      BY ONLY <3>2, <3>3
  <2>7. e \in SamplesOf(Value)
    BY <2>2, <2>4, <2>5 DEF SamplesOf
  <2>8. m \in Seq(SamplesOf(Value)) /\ Len(m) = Len(b) /\ m[n] = e
        /\ \A i \in 1..Len(b) : i # n => m[i] = b[i]
    BY ONLY <2>2, <2>6, <2>7, b \in Seq(SamplesOf(Value))
  <2>9. QED
    BY <1>2, <2>1, <2>2, <2>4, <2>5, <2>8
<1>3. QED
  BY <1>1, <1>2

LEMMA SimWriteKeeps ==
  ASSUME SimInv, NEW v \in Forced \cup {None}, Si!write(v)
  PROVE  SimInv'
<1>1. /\ SimTyped /\ SimSampled(simChan, refs, simNow) /\ SimHeld(simChan, simNow, hold)
      /\ SimOfThis(simChan, refs, start) /\ SimShown(simChan, simOrder)
  BY DEF SimInv
<1>2. /\ ~net /\ simForced' = v /\ simChan' = [simChan EXCEPT !.buf = Si!Marked(@, v)]
      /\ simOrder' = (IF v = simOrder.v THEN simOrder ELSE [v |-> v, at |-> simNow])
      /\ UNCHANGED <<brut, running, haltedAt, start, hold, net, refs>>
  BY DEF Si!write, simNow
<1>3. simNow' = simNow
  BY <1>2, SimNowStays
<1>4. PICK b, m : b = simChan.buf /\ m = Si!Marked(b, v)
  OBVIOUS
<1>5. /\ simNow \in Int /\ simOrder.at \in Int /\ simChan \in ChannelOf(Value)
      /\ b \in Seq(SamplesOf(Value)) /\ simChan.born \in Int /\ simChan.period \in Int /\ simChan.next \in Int
      /\ simChan.since \in Int
  BY <1>1, <1>4, SimFacts
<1>6. /\ m \in Seq(SamplesOf(Value)) /\ Len(m) = Len(b)
      /\ \A i \in 1..Len(b) : m[i].t = b[i].t /\ (v = None \/ i # Len(b) => m[i].v = b[i].v)
      /\ v # None /\ b # <<>> => m[Len(b)].v = v
      /\ b = <<>> => m = <<>>
  BY ONLY <1>4, <1>5, MarkedIs, v \in Forced \cup {None}
<1>7. PICK c, f : f = simChan /\ c = simChan'
  OBVIOUS
<1>8. c = [period |-> f.period, next |-> f.next, since |-> f.since, born |-> f.born, buf |-> m]
  <2>1. f = [period |-> f.period, next |-> f.next, since |-> f.since, born |-> f.born, buf |-> f.buf]
    BY <1>5, <1>7 DEF ChannelOf
  <2>2. PICK p, x, y, z, w : p = f.period /\ x = f.next /\ y = f.since /\ z = f.born /\ w = f.buf
    OBVIOUS
  <2>3. f = [period |-> p, next |-> x, since |-> y, born |-> z, buf |-> w]
    BY ONLY <2>1, <2>2
  <2>4. c = [f EXCEPT !.buf = m]
    BY <1>2, <1>4, <1>7
  <2>5. c = [period |-> p, next |-> x, since |-> y, born |-> z, buf |-> m]
    BY ONLY <2>3, <2>4
  <2>6. QED
    BY ONLY <2>2, <2>5
<1>9. c \in ChannelOf(Value) /\ c.born = f.born
  BY <1>5, <1>6, <1>7, <1>8 DEF ChannelOf
<1>10. SimOfThis(c, refs, start) /\ SimHeld(c, simNow, hold)
  <2>1. SimOfThis(c, refs, start)
    BY <1>1, <1>4, <1>6, <1>7, <1>8 DEF SimOfThis
  <2>2. \A t : Holds(f.buf, t) => Holds(c.buf, t)
    BY <1>4, <1>6, <1>7, <1>8 DEF Holds
  <2>3. QED
    BY <1>1, <1>7, <1>8, <2>1, <2>2 DEF SimHeld
<1>11. SimSampled(c, refs, simNow)
  <2>1. CASE refs = 0
    <3>1. f = NoChannel /\ b = <<>> /\ m = <<>>
      BY <1>1, <1>4, <1>6, <1>7, <2>1, NoChannelIs DEF SimSampled
    <3>2. c = NoChannel
      BY ONLY <1>8, <3>1 DEF NoChannel
    <3>3. QED
      BY <2>1, <3>2 DEF SimSampled
  <2>2. CASE refs # 0
    <3>1. Sampled(f, simNow)
      BY <1>1, <1>7, <2>2 DEF SimSampled
    <3>2. Stamped(b, f.period, f.next, f.since, simNow)
      BY <1>4, <1>7, <3>1 DEF Sampled
    <3>3. Stamped(m, f.period, f.next, f.since, simNow)
      BY <1>6, <3>2 DEF Stamped, Rising
    <3>4. Sampled(c, simNow)
      BY <1>8, <3>1, <3>3 DEF Sampled
    <3>5. QED
      BY <2>2, <3>4 DEF SimSampled
  <2>3. QED
    BY <2>1, <2>2
<1>12. simOrder'.v = v /\ simOrder'.at \in Int /\ simOrder'.at <= simNow
  BY <1>1, <1>2, <1>5 DEF SimTyped
<1>13. SimTyped'
  <2>1. simChan'.born <= simNow'
    BY <1>1, <1>3, <1>7, <1>9 DEF SimTyped
  <2>2. QED
    BY <1>1, <1>2, <1>3, <1>7, <1>9, <1>12, <2>1 DEF SimTyped
<1>14. PICK o : o = simOrder'
  OBVIOUS
<1>15. SimShown(c, o)
  <2>1. Obeys(c, o)
    <3>1. CASE v = simOrder.v
      <4>1. o = simOrder /\ Obeys(f, o)
        BY <1>1, <1>2, <1>7, <1>14, <3>1 DEF SimShown
      <4>2. ASSUME NEW i \in 1..Len(m), m[i].t > o.at, m[i].t > f.born
            PROVE  m[i].v = IF o.v = None THEN Generated ELSE o.v
        <5>1. b[i].v = IF o.v = None THEN Generated ELSE o.v
          BY <1>4, <1>6, <1>7, <4>1, <4>2 DEF Obeys
        <5>2. CASE v = None \/ i # Len(b)
          BY <1>6, <4>2, <5>1, <5>2
        <5>3. CASE v # None /\ i = Len(b)
          <6>1. b # <<>> /\ o.v = v
            BY <1>6, <1>12, <1>14, <4>2, <5>3
          <6>2. QED
            BY <1>6, <5>3, <6>1
        <5>4. QED
          BY <5>2, <5>3
      <4>3. QED
        BY <1>8, <4>2 DEF Obeys
    <3>2. CASE v # simOrder.v
      <4>1. o.at = simNow
        BY <1>2, <1>14, <3>2
      <4>2. \A i \in 1..Len(m) : m[i].t \in Int /\ m[i].t <= simNow
        <5>1. CASE refs = 0
          BY <1>1, <1>4, <1>6, <5>1, NoChannelIs DEF SimSampled
        <5>2. CASE refs # 0
          <6>1. c.buf = m /\ Rising(m) /\ \A i \in 1..Len(m) : m[i].t <= simNow
            BY <1>8, <1>11, <5>2 DEF SimSampled, Sampled, Stamped
          <6>2. QED
            BY <1>6, <6>1, StampedDates
        <5>3. QED
          BY <5>1, <5>2
      <4>3. \A i \in 1..Len(m) : ~ (m[i].t > o.at)
        BY <1>5, <4>1, <4>2
      <4>4. QED
        BY <1>8, <4>3 DEF Obeys
    <3>3. QED
      BY <3>1, <3>2
  <2>2. v # None /\ m # <<>> => m[Len(m)].v = v
    BY <1>6
  <2>3. QED
    BY <1>2, <1>8, <1>12, <1>14, <2>1, <2>2 DEF SimShown
<1>16. UNCHANGED <<refs, hold, start, net>> /\ simChan' = c /\ simOrder' = o
  BY <1>2, <1>7, <1>14
<1>17. QED
  BY <1>3, <1>10, <1>11, <1>13, <1>15, <1>16, SimThen

\* The purge leaves what is to hold.
LEMMA OldestIs ==
  ASSUME SimTyped
  PROVE  Si!Oldest \in Int /\ \A d \in Int : ToHold(d, simNow, hold) => d >= Si!Oldest
<1>1. simNow \in Int /\ SimHorizon \in Int /\ HoldMax \in Int /\ (hold = None \/ hold \in Int)
  BY SimFacts, SimConstants DEF SimTyped
<1>2. PICK n \in Int, z \in Int, x \in Int : n = simNow /\ z = SimHorizon /\ x = HoldMax
  BY <1>1
<1>3. Si!now = n
  BY <1>2 DEF simNow
<1>4. CASE hold = None
  <2>1. Si!Oldest = n - z
    BY <1>2, <1>3, <1>4 DEF Si!Oldest
  <2>2. QED
    BY <1>2, <1>4, <2>1 DEF ToHold
<1>5. CASE hold # None
  <2>1. PICK h \in Int : h = hold
    BY <1>1, <1>5
  <2>2. Si!Oldest = LET held == IF h > n - x THEN h ELSE n - x IN IF held < n - z THEN held ELSE n - z
    BY <1>2, <1>3, <1>5, <2>1 DEF Si!Oldest
  <2>3. PICK o \in Int : o = Si!Oldest /\ o <= n - z /\ (o <= h \/ o <= n - x)
    BY ONLY <2>2, n \in Int, x \in Int, z \in Int, h \in Int
  <2>4. ASSUME NEW d \in Int, ToHold(d, n, h) PROVE d >= o
    <3>1. d >= n - z \/ (d >= h /\ d >= n - x)
      BY <1>2, <2>4 DEF ToHold
    <3>2. QED
      BY ONLY <2>3, <3>1, n \in Int, x \in Int, z \in Int, h \in Int, d \in Int
  <2>5. QED
    BY <1>2, <2>1, <2>3, <2>4
<1>6. QED
  BY <1>4, <1>5

LEMMA PurgedIs ==
  ASSUME SimTyped, NEW s \in Seq(SamplesOf(Value)), NEW p \in Int, NEW next \in Int, NEW since \in Int,
         Stamped(s, p, next, since, simNow), NEW r, r = Si!Purged(s)
  PROVE  /\ r \in Seq(SamplesOf(Value)) /\ Stamped(r, p, next, since, simNow) /\ Among(r, s)
         /\ \A t \in Int : Holds(s, t) /\ ToHold(t, simNow, hold) => Holds(r, t)
         /\ r # <<>> => r[Len(r)] = s[Len(s)]
<1>1. Si!Oldest \in Int /\ \A d \in Int : ToHold(d, simNow, hold) => d >= Si!Oldest
  BY OldestIs
<1>2. r = s \/ r = Trimmed(s, Si!Oldest)
  BY SameOperators DEF Si!Purged
<1>3. CASE r = s
  BY <1>3 DEF Among
<1>4. CASE r = Trimmed(s, Si!Oldest)
  <2>1. PICK d \in Int : d = Si!Oldest
    BY <1>1
  <2>2. simNow \in Int /\ r = Trimmed(s, d)
    BY <1>4, <2>1, SimFacts
  <2>3. /\ r \in Seq(SamplesOf(Value)) /\ Stamped(r, p, next, since, simNow) /\ Among(r, s)
        /\ \A t \in Int : Holds(s, t) /\ t >= d => Holds(r, t)
        /\ r # <<>> => r[Len(r)] = s[Len(s)]
    BY <2>2, TrimmedStamped
  <2>4. QED
    BY <1>1, <2>1, <2>3
<1>5. QED
  BY <1>2, <1>3, <1>4

\* A tick samples what is due, and purges what nobody may look at.
LEMMA SimTickKeeps == SimInv /\ Si!tick => SimInv'
<1>1. SUFFICES ASSUME SimInv, Si!tick PROVE SimInv'
  OBVIOUS
<1>2. /\ SimTyped /\ SimSampled(simChan, refs, simNow) /\ SimHeld(simChan, simNow, hold)
      /\ SimOfThis(simChan, refs, start) /\ SimShown(simChan, simOrder)
  BY <1>1 DEF SimInv
<1>3. PICK f, n, v, due, next : /\ f = simChan /\ n = simNow
                                /\ v = (IF simForced = None THEN Generated ELSE simForced)
                                /\ due = Due(f, n, v) /\ next = From(f, n) + Len(due)
  OBVIOUS
<1>4. /\ refs > 0
      /\ simChan' = [f EXCEPT !.next = From(f, n) + Len(due),
                              !.since = IF Late(f, n) THEN n - 1 ELSE @,
                              !.buf = Si!Purged(@ \o due)]
      /\ UNCHANGED <<brut, running, haltedAt, start, hold, net, refs, simForced, simOrder>>
  BY <1>1, <1>3, SameOperators DEF Si!tick, simNow
<1>5. simNow' = n
  BY <1>3, <1>4, SimNowStays
<1>6. /\ n \in Int /\ f \in ChannelOf(Value) /\ start \in Int /\ refs # 0 /\ f.born <= n /\ f.born \in Int
      /\ v \in Value /\ v = (IF simOrder.v = None THEN Generated ELSE simOrder.v)
  <2>1. refs # 0
    BY <1>2, <1>4, SimConstants DEF SimTyped
  <2>2. v \in Value /\ v = (IF simOrder.v = None THEN Generated ELSE simOrder.v)
    BY <1>2, <1>3 DEF SimTyped, Value
  <2>3. QED
    BY <1>2, <1>3, <2>1, <2>2, SimFacts DEF SimTyped
<1>7. Sampled(f, n)
  BY <1>2, <1>3, <1>6 DEF SimSampled
<1>8. PICK b, p, since : b = f.buf /\ p = f.period /\ since = Since(f, n)
  OBVIOUS
<1>9. /\ due \in Seq(SamplesOf(Value)) /\ Len(due) \in Nat /\ next \in Int
      /\ f.next * p <= next * p /\ (next - 1) * p <= n
      /\ \A i \in 1..Len(due) : due[i].t \in Int /\ due[i].v = v /\ f.next * p <= due[i].t
      /\ \A k \in Int : k < next /\ k * p > since =>
            (k < f.next /\ k * p > f.since) \/ Holds(due, k * p)
  BY <1>3, <1>6, <1>7, <1>8, DueIs
<1>10. PICK s : s = b \o due
  OBVIOUS
<1>11. /\ s \in Seq(SamplesOf(Value)) /\ Len(s) = Len(b) + Len(due)
       /\ Stamped(s, p, next, since, n)
       /\ \A i \in 1..Len(b) : s[i] = b[i]
       /\ \A i \in 1..Len(due) : s[Len(b) + i] = due[i]
       /\ since \in Int
  <2>1. PICK V : V = Value
    OBVIOUS
  <2>2. v \in V /\ f \in ChannelOf(V) /\ n \in Int /\ Sampled(f, n)
    BY <1>6, <1>7, <2>1
  <2>3. LET d == Due(f, n, v)
            t == f.buf \o d
        IN  /\ t \in Seq(SamplesOf(V)) /\ Len(t) = Len(f.buf) + Len(d)
            /\ Stamped(t, f.period, From(f, n) + Len(d), Since(f, n), n)
            /\ \A i \in 1..Len(f.buf) : t[i] = f.buf[i]
            /\ \A i \in 1..Len(d) : t[Len(f.buf) + i] = d[i]
            /\ Since(f, n) \in Int
    BY ONLY <2>2, TickedIs, Zenon
  <2>4. QED
    BY ONLY <1>3, <1>8, <1>10, <2>1, <2>3
<1>12. /\ b \in Seq(SamplesOf(Value)) /\ Len(b) \in Nat /\ p \in Nat \ {0} /\ p \in Int /\ f.next * p \in Int
       /\ next * p \in Int /\ f.next \in Int /\ p \in MinPeriod..MaxPeriod
  BY <1>6, <1>7, <1>8, <1>9, Constants DEF ChannelOf, Sampled
<1>13. PICK r : r = Si!Purged(s)
  OBVIOUS
<1>14. /\ r \in Seq(SamplesOf(Value)) /\ Stamped(r, p, next, since, n) /\ Among(r, s)
       /\ \A t \in Int : Holds(s, t) /\ ToHold(t, n, hold) => Holds(r, t)
       /\ r # <<>> => r[Len(r)] = s[Len(s)]
  <2>1. Stamped(s, p, next, since, simNow)
    BY <1>3, <1>11
  <2>2. /\ r \in Seq(SamplesOf(Value)) /\ Stamped(r, p, next, since, simNow) /\ Among(r, s)
        /\ \A t \in Int : Holds(s, t) /\ ToHold(t, simNow, hold) => Holds(r, t)
        /\ r # <<>> => r[Len(r)] = s[Len(s)]
    BY ONLY <1>2, <1>9, <1>11, <1>12, <1>13, <2>1, PurgedIs
  <2>3. QED
    BY ONLY <1>3, <2>2
<1>15. PICK c : c = simChan'
  OBVIOUS
<1>16. c = [period |-> p, next |-> next, since |-> since, born |-> f.born, buf |-> r]
  <2>1. f = [period |-> f.period, next |-> f.next, since |-> f.since, born |-> f.born, buf |-> f.buf]
    BY <1>6 DEF ChannelOf
  <2>2. PICK x, y, z : x = f.next /\ y = f.since /\ z = f.born
    OBVIOUS
  <2>3. f = [period |-> p, next |-> x, since |-> y, born |-> z, buf |-> b]
    BY ONLY <1>8, <2>1, <2>2
  <2>4. since = (IF Late(f, n) THEN n - 1 ELSE y)
    BY <1>8, <2>2 DEF Since
  <2>5. c = [f EXCEPT !.next = next, !.since = since, !.buf = r]
    <3>1. c = [f EXCEPT !.next = From(f, n) + Len(due),
                        !.since = IF Late(f, n) THEN n - 1 ELSE f.since,
                        !.buf = Si!Purged(f.buf \o due)]
      BY <1>4, <1>15
    <3>2. f.since = y /\ f.buf = b
      BY <1>8, <2>2
    <3>3. QED
      BY ONLY <1>3, <1>10, <1>13, <2>4, <3>1, <3>2
  <2>6. c = [period |-> p, next |-> next, since |-> since, born |-> z, buf |-> r]
    BY ONLY <2>3, <2>5
  <2>7. QED
    BY ONLY <2>2, <2>6
<1>17. c \in ChannelOf(Value) /\ c.born = f.born
  BY <1>6, <1>9, <1>11, <1>12, <1>14, <1>16 DEF ChannelOf
<1>18. SimSampled(c, refs, n)
  BY <1>6, <1>9, <1>12, <1>14, <1>16 DEF SimSampled, Sampled
<1>19. SimHeld(c, n, hold)
  <2>1. ASSUME NEW k \in Int, k < next, k * p > since, ToHold(k * p, n, hold) PROVE Holds(r, k * p)
    <3>1. PICK t \in Int : t = k * p
      BY <1>12
    <3>2. Holds(b, t) \/ Holds(due, t)
      <4>1. (k < f.next /\ k * p > f.since) \/ Holds(due, k * p)
        BY <1>9, <2>1
      <4>2. CASE k < f.next /\ k * p > f.since
        BY <1>2, <1>3, <1>8, <2>1, <3>1, <4>2 DEF SimHeld
      <4>3. QED
        BY <3>1, <4>1, <4>2
    <3>3. Holds(s, t)
      <4>1. CASE Holds(b, t)
        <5>1. PICK i \in 1..Len(b) : b[i].t = t
          BY <4>1 DEF Holds
        <5>2. i \in 1..Len(s) /\ s[i] = b[i]
          BY <1>9, <1>11, <1>12
        <5>3. QED
          BY <5>1, <5>2 DEF Holds
      <4>2. CASE Holds(due, t)
        <5>1. PICK i \in 1..Len(due) : due[i].t = t
          BY <4>2 DEF Holds
        <5>2. Len(b) + i \in 1..Len(s) /\ s[Len(b) + i] = due[i]
          BY <1>9, <1>11, <1>12
        <5>3. QED
          BY <5>1, <5>2 DEF Holds
      <4>3. QED
        BY <3>2, <4>1, <4>2
    <3>4. QED
      BY <1>14, <2>1, <3>1, <3>3
  <2>2. QED
    BY <1>16, <2>1 DEF SimHeld
<1>20. \A i \in 1..Len(s) : i \in 1..Len(b) \/ (i - Len(b) \in 1..Len(due) /\ s[i] = due[i - Len(b)])
  <2>1. ASSUME NEW i \in 1..Len(s), i \notin 1..Len(b)
        PROVE  i - Len(b) \in 1..Len(due) /\ s[i] = due[i - Len(b)]
    <3>1. i - Len(b) \in 1..Len(due) /\ Len(b) + (i - Len(b)) = i
      BY ONLY <1>9, <1>11, <1>12, <2>1
    <3>2. QED
      BY <1>11, <3>1
  <2>2. QED
    BY ONLY <2>1
<1>21. SimOfThis(c, refs, start)
  <2>1. SUFFICES ASSUME f.born < start
                 PROVE  start <= next * p /\ \A i \in 1..Len(r) : r[i].t >= start
    BY <1>16 DEF SimOfThis
  <2>2. start <= f.next * p /\ \A i \in 1..Len(b) : b[i].t >= start
    BY <1>2, <1>3, <1>6, <1>8, <2>1 DEF SimOfThis
  <2>3. start <= next * p
    BY ONLY <1>6, <1>9, <1>12, <2>2
  <2>4. ASSUME NEW i \in 1..Len(due) PROVE due[i].t >= start
    <3>1. due[i].t \in Int /\ f.next * p <= due[i].t
      BY <1>9
    <3>2. QED
      BY ONLY <1>6, <1>12, <2>2, <3>1
  <2>5. \A j \in 1..Len(s) : s[j].t >= start
    BY <1>11, <1>20, <2>2, <2>4
  <2>6. QED
    BY <1>14, <2>3, <2>5 DEF Among
<1>22. PICK o : o = simOrder
  OBVIOUS
<1>23. /\ Obeys(f, o) /\ (net => \A i \in 1..Len(b) : b[i].v = Generated)
       /\ o.v # None /\ b # <<>> /\ b[Len(b)].t > f.born => b[Len(b)].v = o.v
       /\ v = (IF o.v = None THEN Generated ELSE o.v)
  BY <1>2, <1>3, <1>6, <1>8, <1>22 DEF SimShown
<1>24. SimShown(c, o)
  <2>1. ASSUME NEW i \in 1..Len(r), r[i].t > o.at, r[i].t > f.born
        PROVE  r[i].v = IF o.v = None THEN Generated ELSE o.v
    <3>1. PICK j \in 1..Len(s) : r[i] = s[j]
      BY <1>14 DEF Among
    <3>2. CASE j \in 1..Len(b)
      BY <1>8, <1>11, <1>23, <2>1, <3>1, <3>2 DEF Obeys
    <3>3. CASE j - Len(b) \in 1..Len(due) /\ s[j] = due[j - Len(b)]
      BY <1>9, <1>23, <3>1, <3>3
    <3>4. QED
      BY <1>20, <3>2, <3>3
  <2>2. ASSUME net, NEW i \in 1..Len(r) PROVE r[i].v = Generated
    <3>1. PICK j \in 1..Len(s) : r[i] = s[j]
      BY <1>14 DEF Among
    <3>2. v = Generated
      BY <1>2, <1>3, <2>2 DEF SimTyped
    <3>3. CASE j \in 1..Len(b)
      BY <1>11, <1>23, <2>2, <3>1, <3>3
    <3>4. CASE j - Len(b) \in 1..Len(due) /\ s[j] = due[j - Len(b)]
      BY <1>9, <3>1, <3>2, <3>4
    <3>5. QED
      BY <1>20, <3>3, <3>4
  <2>3. ASSUME o.v # None, r # <<>>, r[Len(r)].t > f.born PROVE r[Len(r)].v = o.v
    <3>1. r[Len(r)] = s[Len(s)] /\ v = o.v
      BY <1>14, <1>23, <2>3
    <3>2. Len(s) \in 1..Len(s)
      <4>1. Len(r) \in 1..Len(r)
        BY <1>14, <2>3
      <4>2. PICK j \in 1..Len(s) : r[Len(r)] = s[j]
        BY <1>14, <4>1 DEF Among
      <4>3. QED
        BY <1>11, <4>2
    <3>3. CASE Len(due) = 0
      <4>1. Len(s) = Len(b) /\ s[Len(s)] = b[Len(b)] /\ b # <<>>
        BY <1>9, <1>11, <1>12, <3>2, <3>3
      <4>2. QED
        BY <1>23, <2>3, <3>1, <4>1
    <3>4. CASE Len(due) # 0
      <4>1. Len(due) \in 1..Len(due)
        BY <1>9, <3>4
      <4>2. s[Len(s)] = due[Len(due)]
        BY <1>11, <4>1
      <4>3. QED
        BY <1>9, <3>1, <4>1, <4>2
    <3>5. QED
      BY <3>3, <3>4
  <2>4. QED
    BY <1>16, <2>1, <2>2, <2>3 DEF SimShown, Obeys
<1>25. SimTyped'
  BY <1>2, <1>3, <1>4, <1>5, <1>15, <1>17 DEF SimTyped
<1>26. UNCHANGED <<refs, hold, start, net>> /\ simChan' = c /\ simOrder' = o
  BY <1>4, <1>15, <1>22
<1>27. QED
  BY ONLY <1>5, <1>18, <1>19, <1>21, <1>22, <1>24, <1>25, <1>26, SimThen

LEMMA SimInit == Si!Init => SimInv
<1>1. SUFFICES ASSUME Si!Init PROVE SimInv
  OBVIOUS
<1>2. /\ brut = 0 /\ running = TRUE /\ haltedAt = 0 /\ start = -SimHorizon /\ hold = None /\ net \in BOOLEAN
      /\ simChan = NoChannel /\ refs = 0 /\ simForced = None /\ simOrder = [v |-> None, at |-> 0]
  BY <1>1, SameOperators DEF Si!Init
<1>3. simNow = 0
  BY <1>2 DEF simNow, Si!now
<1>4. SimTyped
  <2>1. start \in Int /\ start <= 0 /\ 0 \in 0..MaxClock /\ 0 \in 0..MaxRefs
    BY <1>2, SimConstants
  <2>2. QED
    BY <1>2, <1>3, <2>1, NoChannelIs DEF SimTyped
<1>5. QED
  BY <1>2, <1>3, <1>4, NoChannelHolds DEF SimInv

LEMMA SimStep == SimInv /\ [Si!Next]_simulationVars => SimInv'
<1>1. SUFFICES ASSUME SimInv, [Si!Next]_simulationVars PROVE SimInv'
  OBVIOUS
<1>2. CASE UNCHANGED simulationVars
  <2>1. UNCHANGED <<brut, running, haltedAt, start, hold, net, simChan, refs, simForced, simOrder>>
    BY <1>2 DEF simulationVars
  <2>2. simNow' = simNow
    BY <2>1, SimNowStays
  <2>3. /\ SimTyped /\ SimSampled(simChan, refs, simNow) /\ SimHeld(simChan, simNow, hold)
        /\ SimOfThis(simChan, refs, start) /\ SimShown(simChan, simOrder)
    BY <1>1 DEF SimInv
  <2>4. SimTyped'
    BY <2>1, <2>2, <2>3 DEF SimTyped
  <2>5. QED
    BY <2>1, <2>2, <2>3, <2>4, SimThen
<1>3. ASSUME NEW asked \in Periods, Si!subscribe(asked) PROVE SimInv'
  BY <1>1, <1>3, SimSubscribeKeeps
<1>4. CASE Si!unsubscribe
  BY <1>1, <1>4, SimUnsubscribeKeeps
<1>5. CASE Si!tick
  BY <1>1, <1>5, SimTickKeeps
<1>6. CASE Si!stop
  BY <1>1, <1>6, SimStopKeeps
<1>7. CASE Si!startCapture
  BY <1>1, <1>7, SimStartKeeps
<1>8. CASE Si!Time
  BY <1>1, <1>8, SimTimeKeeps
<1>9. ASSUME NEW t \in {None} \cup 0..MaxClock, Si!setHold(t) PROVE SimInv'
  BY <1>1, <1>9, SimSetHoldKeeps
<1>10. ASSUME NEW v \in Forced \cup {None}, Si!write(v) PROVE SimInv'
  BY <1>1, <1>10, SimWriteKeeps
<1>11. QED
  BY <1>1, <1>2, <1>3, <1>4, <1>5, <1>6, <1>7, <1>8, <1>9, <1>10 DEF Si!Next

\* What the tiles are shown follows.
LEMMA SimIsSound ==
  ASSUME SimInv
  PROVE  Si!TypeOK /\ Si!OnTheGrid /\ Si!FrozenKept /\ Si!OfThisCapture /\ Si!ForceShown
<1>1. /\ SimTyped /\ SimSampled(simChan, refs, simNow) /\ SimHeld(simChan, simNow, hold)
      /\ SimOfThis(simChan, refs, start) /\ SimShown(simChan, simOrder)
  BY DEF SimInv
<1>2. PICK b : b = simChan.buf
  OBVIOUS
<1>3. /\ b \in Seq(SamplesOf(Value)) /\ Len(b) \in Nat /\ DOMAIN b = 1..Len(b)
      /\ simNow \in Int /\ refs \in 0..MaxRefs /\ simChan \in ChannelOf(Value)
      /\ simChan.period \in Int /\ simChan.next \in Int /\ simChan.since \in Int /\ simChan.born \in Int
  BY <1>1, <1>2, SimFacts DEF SimTyped
<1>4. \A i \in 1..Len(b) : b[i] \in SamplesOf(Value) /\ b[i].t \in Int
  <2>1. \A i \in 1..Len(b) : b[i] \in SamplesOf(Value)
    BY <1>3
  <2>2. QED
    BY <2>1 DEF SamplesOf
<1>5. refs # 0 => /\ simChan.period \in MinPeriod..MaxPeriod
                  /\ Stamped(b, simChan.period, simChan.next, simChan.since, simNow)
  BY <1>1, <1>2 DEF SimSampled, Sampled
<1>6. refs = 0 => simChan = NoChannel /\ b = <<>> /\ simChan.period = 0
  BY <1>1, <1>2, NoChannelIs DEF SimSampled, NoChannel
<1>7. Si!TypeOK
  <2>1. refs = 0 <=> simChan = Si!NoChannel
    <3>1. NoChannel.period = 0 /\ MinPeriod \in Nat \ {0} /\ MaxPeriod \in Nat
      BY SimConstants DEF NoChannel
    <3>2. refs # 0 => simChan # NoChannel
      BY <1>5, <3>1
    <3>3. QED
      BY <1>6, <3>2, SameOperators
  <2>2. simChan.period \in 0..MaxPeriod
    BY <1>5, <1>6, SimConstants
  <2>3. \A i \in DOMAIN simChan.buf : simChan.buf[i] \in [t : Int, v : Forced \cup {Generated}]
    BY <1>2, <1>3, <1>4 DEF SamplesOf, Value
  <2>4. QED
    BY <1>1, <1>3, <2>1, <2>2, <2>3 DEF Si!TypeOK, SimTyped
<1>8. Si!OnTheGrid
  <2>1. CASE refs = 0
    BY <1>2, <1>6, <2>1 DEF Si!OnTheGrid
  <2>2. CASE refs # 0
    <3>1. PICK p : p = simChan.period /\ p \in Nat \ {0}
      BY <1>5, <2>2, SimConstants
    <3>2. /\ Rising(b) /\ \A i \in 1..Len(b) : b[i].t <= simNow
          /\ \A i \in 1..Len(b) : b[i].t > simChan.since => \E k \in Int : b[i].t = k * p
      BY <1>5, <2>2, <3>1 DEF Stamped
    <3>3. \A i \in 1..(Len(b) - 1) : b[i].t < b[i + 1].t
      <4>1. ASSUME NEW i \in 1..(Len(b) - 1) PROVE b[i].t < b[i + 1].t
        <5>1. i \in 1..Len(b) /\ i + 1 \in 1..Len(b) /\ i < i + 1
          BY <1>3
        <5>2. QED
          BY <3>2, <5>1 DEF Rising
      <4>2. QED
        BY <4>1
    <3>4. \A i \in 1..Len(b) : b[i].t > simChan.since => b[i].t % p = 0
      <4>1. ASSUME NEW i \in 1..Len(b), b[i].t > simChan.since PROVE b[i].t % p = 0
        <5>1. PICK k \in Int : b[i].t = k * p
          BY <3>2, <4>1
        <5>2. (k * p) % p = 0
          BY <3>1, OnTheGridIs
        <5>3. QED
          BY ONLY <5>1, <5>2
      <4>2. QED
        BY <4>1
    <3>5. QED
      BY <1>2, <1>3, <3>1, <3>2, <3>3, <3>4 DEF Si!OnTheGrid, simNow
  <2>3. QED
    BY <2>1, <2>2
<1>9. Si!FrozenKept
  <2>1. ASSUME NEW k \in (-SimHorizon)..(simChan.next - 1),
               k * simChan.period > simChan.since,
               k * simChan.period >= simNow - SimHorizon
                 \/ (hold # None /\ k * simChan.period >= hold /\ k * simChan.period >= simNow - HoldMax)
        PROVE  \E i \in DOMAIN simChan.buf : simChan.buf[i].t = k * simChan.period
    <3>1. k \in Int /\ k < simChan.next
      BY <1>3, SimConstants
    <3>2. ToHold(k * simChan.period, simNow, hold)
      BY <2>1 DEF ToHold
    <3>3. Holds(b, k * simChan.period)
      BY <1>1, <1>2, <2>1, <3>1, <3>2 DEF SimHeld
    <3>4. QED
      BY <1>2, <1>3, <3>3 DEF Holds
  <2>2. QED
    BY <2>1 DEF Si!FrozenKept, simNow
<1>10. Si!OfThisCapture
  <2>1. CASE refs = 0
    BY <1>2, <1>6, <2>1 DEF Si!OfThisCapture
  <2>2. CASE refs # 0
    BY <1>1, <1>2, <1>3, <2>2 DEF Si!OfThisCapture, SimOfThis
  <2>3. QED
    BY <2>1, <2>2
<1>11. Si!ForceShown
  <2>1. simOrder.v = simForced
    BY <1>1 DEF SimTyped
  <2>2. ASSUME b # <<>> PROVE Si!latest = b[Len(b)].v /\ Si!past(0) = b[Len(b)].v
    <3>1. PICK last : last = Len(b)
      OBVIOUS
    <3>2. last \in 1..last /\ last \in Int
      BY <1>3, <2>2, <3>1
    <3>3. Si!latest = b[last].v
      BY <1>2, <2>2, <3>1 DEF Si!latest
    <3>4. PICK before : before = {i \in 1..last : b[i].t <= b[last].t - 0}
      OBVIOUS
    <3>5. last \in before /\ before \subseteq 1..last
      BY <1>4, <3>1, <3>2, <3>4
    <3>6. before # {} /\ \A j \in before : j <= last
      BY <3>2, <3>5
    <3>7. (CHOOSE i \in before : \A j \in before : j <= i) = last
      <4>1. PICK i : i = CHOOSE x \in before : \A j \in before : j <= x
        OBVIOUS
      <4>2. i \in before /\ \A j \in before : j <= i
        BY <3>5, <3>6, <4>1
      <4>3. i \in Int /\ i <= last /\ last <= i
        BY <3>2, <3>5, <3>6, <4>2
      <4>4. i = last
        BY ONLY <3>2, <4>3
      <4>5. QED
        BY <4>1, <4>4
    <3>8. Si!past(0) = b[last].v
      <4>1. Si!past(0) = IF before = {} THEN b[1].v ELSE b[CHOOSE i \in before : \A j \in before : j <= i].v
        BY <1>2, <2>2, <3>1, <3>4 DEF Si!past
      <4>2. QED
        BY <3>6, <3>7, <4>1
    <3>9. QED
      BY <3>1, <3>3, <3>8
  <2>3. /\ \A i \in 1..Len(b) : b[i].t > simOrder.at /\ b[i].t > simChan.born =>
              b[i].v = IF simOrder.v = None THEN Generated ELSE simOrder.v
        /\ net => \A i \in 1..Len(b) : b[i].v = Generated
        /\ simOrder.v # None /\ b # <<>> /\ b[Len(b)].t > simChan.born => b[Len(b)].v = simOrder.v
    BY <1>1, <1>2 DEF SimShown, Obeys
  <2>4. simForced # None /\ b # <<>> /\ b[Len(b)].t > simChan.born => Si!latest = simForced /\ Si!past(0) = simForced
    BY <2>1, <2>2, <2>3
  <2>5. QED
    BY <1>2, <1>3, <2>3, <2>4 DEF Si!ForceShown
<1>12. QED
  BY <1>7, <1>8, <1>9, <1>10, <1>11

-----------------------------------------------------------------------------
(* The theorems.                                                           *)

\* In every state the dates of the grid are held or written, the rows go
\* forward, and the channel shows the value in force (recorder.hpp,
\* sim_source.hpp).
THEOREM JournalInvariant == Spec => []JInv
<1>1. QED
  BY InitInv, StepKeeps, PTL DEF Spec

\* Every date of the grid that the channel has been through since the campaign
\* began is in the file or will be at the next writing, and no other is sampled:
\* whatever a session subscribes to, releases or tightens (SimSource, flush).
THEOREM EveryDateIsJournaled == Spec => []GridJournaled
<1>1. JInv => GridJournaled
  BY HeldTypes, OnGrid, EveryDate DEF GridJournaled
<1>2. QED
  BY <1>1, JournalInvariant, PTL

\* The rows of the file are in the order of their dates, none is there twice, and
\* no sample shows another value than the one in force: through campaigns
\* replaced, crashes and restarts (Recorder::start, flush).
THEOREM RowsAreInOrder == Spec => []LinesInOrder
<1>1. JInv => ForceInForce
  BY DEF JInv, InForce
<1>2. JInv => LinesInOrder
  BY <1>1, InOrder DEF LinesInOrder
<1>3. QED
  BY <1>2, JournalInvariant, PTL

\* A file of another format is put aside and never written to; one of this format
\* only grows (Recorder::start).
THEOREM FilesNeverMix == Spec => NeverMixed
<1>1. JInv /\ [Next]_vars => [Unmixed]_vars
  BY NeverMixes
<1>2. QED
  BY <1>1, JournalInvariant, PTL DEF Spec, NeverMixed

\* In every state the page holds the dates that a tile may look at, of its own
\* capture, and shows the value in force (sim.js).
THEOREM SimulationInvariant == Si!Spec => []SimInv
<1>1. Si!vars = simulationVars
  BY DEF Si!vars, simulationVars
<1>2. SimInv /\ [Si!Next]_(Si!vars) => SimInv'
  BY <1>1, SimStep DEF Si!vars, simulationVars
<1>3. QED
  BY <1>2, SimInit, PTL DEF Si!Spec

\* A behaviour of the page's source is one of Simulation.
LEMMA SimPart == MCSpec => Si!Spec
<1>1. MCInit => Si!Init
  BY DEF MCInit
<1>2. [MCNext]_<<part, vars, simulationVars>> => [Si!Next]_(Si!vars)
  BY DEF MCNext, simulationVars, Si!vars
<1>3. QED
  BY <1>1, <1>2, PTL DEF MCSpec, Si!Spec

\* What a page without a controller shows is on the grid, complete over the
\* horizon and what a tile is frozen on, of the capture under way, and forced at
\* once (sim.js).
THEOREM SimulationIsSound == MCSpec => []SimulationSound
<1>1. SimInv => SimulationSound
  BY SimIsSound DEF SimulationSound
<1>2. QED
  BY <1>1, SimPart, SimulationInvariant, PTL
=============================================================================
