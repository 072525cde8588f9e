-------------------------- MODULE MCTrackingLedger --------------------------
(* TrackingLedger on small instances: one or two symbols, a few sessions.   *)
EXTENDS TrackingLedger

CONSTANTS acme, other

Bar(o, l, c) == [open |-> o, low |-> l, close |-> c]

(* With a trailing gap of 4 and a risk stop 4 below the close: a flat day,  *)
(* a rally, a day that stays above the rally's stop but closes lower, a dip *)
(* through the stop during the day, and a gap below it.                     *)
Flat == Bar(20, 18, 20)
Rally == Bar(24, 23, 26)
Drift == Bar(25, 24, 24)
Dip == Bar(20, 14, 18)
Gap == Bar(12, 10, 14)

(* Day 2 may have no bar. *)
AnyHistory ==
    {[s \in Symbols |-> h] :
        h \in {g \in [Dates -> {Flat, Rally, Drift, Dip, Gap, NoBar}] :
            /\ g[1] = Flat
            /\ g[2] \in {Rally, Dip, NoBar}
            /\ g[3] \in {Drift, Gap}
            /\ g[4] \in {Rally, Dip}}}

(* A rally, then quieter days, for every symbol; each splits on day 3. *)
OneHistory ==
    {[s \in Symbols |-> [d \in Dates |->
        CASE d = 1 -> Flat [] d = 2 -> Rally [] OTHER -> Drift]]}
OneSplit == {[s \in Symbols |-> {3}]}

(* One split, or two on days in a row, each a day with a bar. *)
LateSplits == {[s \in Symbols |-> e] : e \in {{3}, {3, 4}}}

NoStopThenWrong == [v \in Verdicts |-> IF v = 1 THEN "nostop" ELSE "wrong"]
RunOfEach == [v \in Verdicts |-> v]
OnAcme == [v \in Verdicts |-> acme]
FullThenMissing == [v \in Verdicts |-> IF v = 1 THEN "full" ELSE "missing"]
OneRun == [v \in Verdicts |-> 1]
OneOfEach == [v \in Verdicts |-> IF v = 1 THEN acme ELSE other]
DayOne == [v \in Verdicts |-> 1]
DayOfEach == [v \in Verdicts |-> v]

ASSUME InstancesAreReplayable == Replayable
=============================================================================
