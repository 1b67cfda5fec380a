------------------------------ MODULE Sampling ------------------------------
(***************************************************************************)
(* A channel of the controller source (sim_source.hpp, SimSource), as pure *)
(* operators: its period, the number of its next sample - the k-th is      *)
(* dated k periods, whatever instant it is taken at - and its history.     *)
(*                                                                         *)
(* Time is counted in ticks since the start of the server.  A value is     *)
(* what the generator gives, or what an operator has forced.               *)
(***************************************************************************)
EXTENDS History

CONSTANTS
    MinPeriod,  \* default_period_ms, the shortest period
    MaxPeriod,  \* the longest one, ten seconds
    Horizon,    \* horizon_s
    CatchUp,    \* lateness beyond which samples are given up: two seconds
    Generated   \* a value of the generator

ASSUME SamplingAssumption ==
    /\ MinPeriod \in Nat \ {0} /\ MaxPeriod \in Nat /\ MinPeriod <= MaxPeriod
    /\ Horizon \in Nat /\ CatchUp \in Nat

Ceil(t, p) == -((-t) \div p)

\* The period of a subscription that asks for `asked`.
PeriodOf(asked) ==
    IF asked <= MinPeriod THEN MinPeriod ELSE IF asked >= MaxPeriod THEN MaxPeriod ELSE asked

\* Samples number from..to of period p, and a history that takes them.
Samples(p, from, to, v) == [i \in 1..(IF from <= to THEN to - from + 1 ELSE 0) |->
                              [t |-> (from + i - 1) * p, v |-> v]]
Pushed(buf, new) ==
    IF new = << >> THEN buf ELSE Trimmed(buf \o new, new[Len(new)].t - Horizon)

\* First subscription: the history is filled with generated values.  `since`
\* (ghost) is the instant after which no date of the grid is missing, `born` that
\* of the creation.
NewChannel(p, now) ==
    [period |-> p, next |-> now \div p + 1, since |-> now, born |-> now,
     buf |-> Samples(p, Ceil(now - Horizon, p), now \div p, Generated)]

\* Variant: the number of the next sample is kept.
TightenedOnly(ch, p, now) ==
    IF p < ch.period THEN [ch EXCEPT !.period = p, !.since = now] ELSE ch

\* A further subscription may tighten the period; the grid is then another one.
Tightened(ch, p, now) ==
    IF p < ch.period
    THEN [ch EXCEPT !.period = p, !.next = now \div p + 1, !.since = now]
    ELSE ch

\* tick(): every sample due; a process that slept too long gives up the late ones.
Late(ch, now) == now - ch.next * ch.period > CatchUp
From(ch, now) == IF Late(ch, now) THEN Ceil(now, ch.period) ELSE ch.next

Due(ch, now, v) == Samples(ch.period, From(ch, now), now \div ch.period, v)

Ticked(ch, now, v) ==
    [ch EXCEPT !.next = From(ch, now) + Len(Due(ch, now, v)),
               !.since = IF Late(ch, now) THEN now - 1 ELSE @,
               !.buf = Pushed(@, Due(ch, now, v))]
=============================================================================
