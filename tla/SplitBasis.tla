----------------------------- MODULE SplitBasis -----------------------------
(***************************************************************************)
(* Split arithmetic of data/adjustments.py: a provider's answer read back  *)
(* into as-traded prices, stored prices read as of a date, and the         *)
(* signature of a series that mixes two adjustment bases.                  *)
(*                                                                         *)
(* Prices and split factors are logarithms to base 2: a factor of 2 is 1,  *)
(* a 1:2 reverse split is -1.  Every factor is a power of two and a        *)
(* session moves a price by a power of two or not at all, so "within the   *)
(* tolerance" is equality and "a jump" is any move: every band of the code *)
(* (1.25, 1.06, 1.12, 0.9..1.1) separates the same cases.                  *)
(*                                                                         *)
(* A series is a function from the dates that have a bar to their closes;  *)
(* splits are a function from ex-dates to factors.                         *)
(***************************************************************************)
EXTENDS Integers, FiniteSets, FiniteSetsExt

CONSTANTS
    FlipRun,    \* _MAX_FLIP_RUN_SESSIONS
    Sample      \* _PROPAGATION_SAMPLE

ASSUME BasisAssumption == FlipRun \in Nat /\ Sample \in Nat \ {0}

Prev(D, d) == Max({x \in D : x < d})
Following(D, d) == Min({x \in D : x > d})

(* Every split that took effect after d and is visible at asOf. *)
Cumulative(splits, d, asOf) ==
    MapThenSumSet(LAMBDA e : splits[e], {e \in DOMAIN splits : d < e /\ e <= asOf})

(* What a reader at asOf sees of stored as-traded prices. *)
AdjustBars(series, splits, asOf) ==
    [d \in DOMAIN series |-> series[d] - Cumulative(splits, d, asOf)]

-----------------------------------------------------------------------------
(* The mixed-basis signature. *)
Move(series, d) == series[d] - series[Prev(DOMAIN series, d)]

Explains(factor, moves) == moves \subseteq {factor, -factor}

Jumps(series, splits) ==
    {d \in DOMAIN series \ {Min(DOMAIN series)} :
        /\ Move(series, d) # 0
        /\ \E e \in DOMAIN splits : Explains(splits[e], {Move(series, d)})}

(* A bug: a run of any length counts. *)
FlipsOfAnyLength(series, splits) ==
    LET jumps == Jumps(series, splits)
    IN {p \in jumps \X jumps :
           /\ p[1] < p[2]
           /\ ~ \E d \in jumps : p[1] < d /\ d < p[2]
           /\ Move(series, p[1]) + Move(series, p[2]) = 0
           /\ \E e \in DOMAIN splits :
                /\ e > Prev(DOMAIN series, p[2])
                /\ Explains(splits[e], {Move(series, p[1]), Move(series, p[2])})}

(* Consecutive jumps that undo each other around a short run of sessions,  *)
(* when one split after the run is of their size.                          *)
Flips(series, splits) ==
    LET jumps == Jumps(series, splits)
    IN {p \in jumps \X jumps :
           /\ p[1] < p[2]
           /\ ~ \E d \in jumps : p[1] < d /\ d < p[2]
           /\ Move(series, p[1]) + Move(series, p[2]) = 0
           /\ Cardinality({d \in DOMAIN series : p[1] <= d /\ d < p[2]}) <= FlipRun
           /\ \E e \in DOMAIN splits :
                /\ e > Prev(DOMAIN series, p[2])
                /\ Explains(splits[e], {Move(series, p[1]), Move(series, p[2])})}

HasMixedBasis(series, splits) == DOMAIN series # {} /\ Flips(series, splits) # {}

-----------------------------------------------------------------------------
(* Reading a provider's answer. *)

(* The sessions that vote on whether split e was pushed back. *)
Voters(D, e) == {d \in D : d < e /\ Cardinality({x \in D : d < x /\ x < e}) < Sample}

Unpropagated(series, splits) ==
    {e \in DOMAIN splits :
        LET voters == Voters(DOMAIN series, e)
            after == {d \in DOMAIN series : d >= e}
        IN /\ after # {}
           /\ 2 * Cardinality({d \in voters : series[d] - series[Min(after)] = splits[e]})
                > Cardinality(voters)}

(* The rows the provider adjusted although it failed to push the split     *)
(* back: a walk from the newest row, which flips when that alone avoids a  *)
(* jump.  A run of them that reaches the oldest row is a price move.       *)
CorrectedRows(series, missing) ==
    LET D == DOMAIN series
        walk[d \in D] ==
            IF d = Max(D)
            THEN [corrected |-> FALSE, settled |-> series[d] - missing[d]]
            ELSE LET next == Following(D, d)
                     carried == walk[next].corrected /\ missing[next] # 0
                     keep == series[d] - (IF carried THEN 0 ELSE missing[d])
                     flip == series[d] - (IF carried THEN missing[d] ELSE 0)
                 IN CASE missing[d] = 0 ->
                           [corrected |-> FALSE, settled |-> series[d]]
                      [] /\ missing[d] # 0
                         /\ keep # walk[next].settled
                         /\ flip = walk[next].settled ->
                           [corrected |-> ~carried, settled |-> flip]
                      [] OTHER -> [corrected |-> carried, settled |-> keep]
    IN {d \in D : walk[d].corrected /\ \E x \in D : x < d /\ ~walk[x].corrected}

(* A bug: the ex-date's own row is taken for one before the split. *)
UnadjustThroughExDate(series, splits) ==
    LET D == DOMAIN series
        lagging == Unpropagated(series, splits)
        applied(d, S) == MapThenSumSet(LAMBDA e : splits[e], {e \in S : d <= e})
        missing == [d \in D |-> applied(d, lagging)]
        corrected == CorrectedRows(series, missing)
        lacks == [d \in D |-> IF d \in corrected THEN 0 ELSE missing[d]]
        continuous == [d \in D |-> series[d] - lacks[d]]
    IN IF D = {} \/ (lagging # {} /\ HasMixedBasis(continuous, splits))
       THEN <<>>
       ELSE [d \in D |-> series[d] + applied(d, DOMAIN splits) - lacks[d]]

(* The as-traded series, or no series at all when the bases cannot be told *)
(* apart.                                                                  *)
Unadjust(series, splits) ==
    LET D == DOMAIN series
        lagging == Unpropagated(series, splits)
        applied(d, S) == MapThenSumSet(LAMBDA e : splits[e], {e \in S : d < e})
        missing == [d \in D |-> applied(d, lagging)]
        corrected == CorrectedRows(series, missing)
        lacks == [d \in D |-> IF d \in corrected THEN 0 ELSE missing[d]]
        continuous == [d \in D |-> series[d] - lacks[d]]
    IN IF D = {} \/ (lagging # {} /\ HasMixedBasis(continuous, splits))
       THEN <<>>
       ELSE [d \in D |-> series[d] + applied(d, DOMAIN splits) - lacks[d]]
=============================================================================
