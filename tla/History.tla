------------------------------ MODULE History ------------------------------
(***************************************************************************)
(* The history of a variable: the deque of samples that both sources keep  *)
(* for a channel (sim_source.hpp and protocol_source.hpp, whose read() is  *)
(* the same text), as pure operators on sequences of samples.  A sample is *)
(* a record with at least a field t.                                       *)
(***************************************************************************)
EXTENDS Integers, Sequences, FiniteSets

Sorted(buf) == \A i, j \in 1..Len(buf) : i < j => buf[i].t <= buf[j].t

\* The number of samples before the first one later than `since`, by the
\* dichotomy of read(); it supposes that the buffer is sorted.
Bisect(buf, since) ==
    LET search[r \in (0..Len(buf)) \X (0..Len(buf))] ==
          LET lo == r[1]
              hi == r[2]
              m == (lo + hi) \div 2 IN
          IF lo >= hi THEN lo
          ELSE IF buf[m + 1].t <= since THEN search[<<m + 1, hi>>] ELSE search[<<lo, m>>]
    IN search[<<0, Len(buf)>>]

After(buf, since) == SubSeq(buf, Bisect(buf, since) + 1, Len(buf))

\* A reader that takes at most maxOut samples (0 for no limit) gets one in
\* `step`, and the newest unless its date has been given already.
Decimated(s, maxOut) ==
    LET step == IF maxOut > 0 /\ Len(s) > maxOut THEN (Len(s) + maxOut - 1) \div maxOut ELSE 1
        kept == [i \in 1..((Len(s) + step - 1) \div step) |-> s[(i - 1) * step + 1]]
    IN IF step > 1 /\ kept[Len(kept)].t # s[Len(s)].t THEN Append(kept, s[Len(s)]) ELSE kept

Read(buf, since, maxOut) == Decimated(After(buf, since), maxOut)

\* The samples at the end of the buffer that are later than t.
Newer(buf, t) == Cardinality({i \in 1..Len(buf) : \A j \in i..Len(buf) : buf[j].t > t})

\* ProtocolSource::push goes back over at most `reach` samples to insert a late
\* one at its place; it drops one that belongs further back.
Place(buf, smp, reach) ==
    LET back == Newer(buf, smp.t)
        front == Len(buf) - back
    IN IF back = 0 \/ back + 1 < reach \/ (front = 0 /\ back < reach)
       THEN SubSeq(buf, 1, front) \o <<smp>> \o SubSeq(buf, front + 1, Len(buf))
       ELSE buf

\* Variant: the older half goes, whatever its dates.
TrimmedToHalf(buf, minT) == SubSeq(buf, Len(buf) \div 2 + 1, Len(buf))

\* The samples from minT on: the front of the deque is popped while it is older.
Trimmed(buf, minT) ==
    LET old == {i \in 1..Len(buf) : \A j \in 1..i : buf[j].t < minT}
    IN SubSeq(buf, Cardinality(old) + 1, Len(buf))
=============================================================================
