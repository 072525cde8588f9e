------------------------ MODULE TrackingLedgerProofs ------------------------
(* Two results, for every ledger, price history, split, interleaving with   *)
(* collections and rebuilds, and crash.  A closed position is final: an     *)
(* update's work list never holds one, from the read that makes it to the   *)
(* last write.  And the ledger is the replay of its history: each stored    *)
(* figure is the history's, in the dollars of one day (FitsInv), which a    *)
(* session, a re-basing and an opening keep.                                *)
EXTENDS TrackingLedger, OrderFacts

PlanType == [asOf : Nat, hold : HoldRules \cup {0}, todo : SUBSET Verdicts,
             side : [Verdicts -> Sides \cup {"none"}],
             sessions : [Symbols -> SUBSET Dates],
             barSplits : [Symbols -> SUBSET Dates],
             splits : [Symbols -> SUBSET Dates]]

(* As much of the types as the argument needs. *)
ShapeInv ==
    /\ splits \in [Symbols -> SUBSET Dates]
    /\ today \in Nat
    /\ hold \in HoldRules
    /\ verdicts \in [Verdicts -> Sides \cup {"none"}]
    /\ ledger = [v \in Verdicts |-> ledger[v]]
    /\ marks = [v \in Verdicts |-> marks[v]]
    /\ plan \in PlanType

(* Only the two last phases of an update have a work list, and no closed    *)
(* position is on it.                                                       *)
WorkInv ==
    /\ pc \notin {"splits", "write"} => plan.todo = {}
    /\ plan.todo \cap Closed = {}

LedgerInv == ShapeInv /\ WorkInv

LEMMA NoPlanShape == NoPlan \in PlanType /\ NoPlan.todo = {}
BY DEF NoPlan, PlanType

LEMMA InitLedgerInv == Init => LedgerInv
<1> SUFFICES ASSUME Init PROVE LedgerInv
  OBVIOUS
<1> USE DEF Init
<1>1. ShapeInv
  BY NoPlanShape, PricesAssumption DEF ShapeInv, Sides
<1>2. WorkInv
  BY NoPlanShape DEF WorkInv
<1> QED  BY <1>1, <1>2 DEF LedgerInv

(* The cutoffs an update reads are days of its symbols. *)
LEMMA CutoffShapes ==
    ASSUME ShapeInv, NEW a
    PROVE  /\ [s \in Symbols |-> StoredSessions(s, a)] \in [Symbols -> SUBSET Dates]
           /\ [s \in Symbols |-> VisibleSplits(s, a)] \in [Symbols -> SUBSET Dates]
BY DEF ShapeInv, StoredSessions, VisibleSplits

LEMMA DeleteShapes ==
    ASSUME NEW gone, DeletePositions(gone)
    PROVE  /\ ledger' = [v \in Verdicts |-> ledger'[v]]
           /\ marks' = [v \in Verdicts |-> marks'[v]]
BY DEF DeletePositions

LEMMA BeginUpdateKeepsInv ==
    ASSUME LedgerInv, NEW a \in Nat, BeginUpdate(a)
    PROVE  LedgerInv'
BY NoPlanShape DEF LedgerInv, ShapeInv, WorkInv, BeginUpdate, PlanType, market, Closed

LEMMA StepKeepsShape ==
    ASSUME LedgerInv, [Next]_vars
    PROVE  ShapeInv'
<1> USE NoPlanShape DEF LedgerInv, ShapeInv, market
<1>1. CASE UNCHANGED vars
  BY <1>1 DEF vars
<1>2. CASE NextSession
  BY <1>2 DEF NextSession
<1>3. CASE Collect
  BY <1>3 DEF Collect
<1>4. CASE Configure
  BY <1>4 DEF Configure
<1>5. CASE DailyUpdate
  BY <1>5, BeginUpdateKeepsInv DEF DailyUpdate
<1>6. CASE OperatorUpdate
  <2>1. PICK a \in 1..(today - 1) : BeginUpdate(a)
    BY <1>6 DEF OperatorUpdate
  <2> QED  BY <2>1, BeginUpdateKeepsInv
<1>7. CASE BeginRebuild
  <2>1. plan' \in PlanType
    <3>1. PICK asOf \in (IF AnyAsOf THEN 1..today ELSE {today}) :
              plan' = [NoPlan EXCEPT !.asOf = asOf, !.hold = hold]
      BY <1>7 DEF BeginRebuild
    <3>2. asOf \in Nat
      BY <3>1
    <3> QED  BY <3>1, <3>2 DEF PlanType
  <2>2. PICK gone : DeletePositions(gone)
    BY <1>7 DEF BeginRebuild
  <2> QED  BY <1>7, <2>1, <2>2, DeleteShapes DEF BeginRebuild
<1>8. CASE PurgeOrphans
  BY <1>8, DeleteShapes DEF PurgeOrphans
<1>9. CASE SyncRecommendations
  BY <1>9 DEF SyncRecommendations
<1>10. CASE ReadLedgerAndBars
  <2>1. plan' \in PlanType
    <3> DEFINE todo == {v \in Judged \ Tracked : DateOf[v] <= plan.asOf}
                           \cup PositionsToCarry
               read == [s \in Symbols |-> StoredSessions(s, plan.asOf)]
               seen == [s \in Symbols |-> VisibleSplits(s, plan.asOf)]
    <3>1. todo \in SUBSET Verdicts
      BY DEF Judged, PositionsToCarry, Open
    <3>2. read \in [Symbols -> SUBSET Dates] /\ seen \in [Symbols -> SUBSET Dates]
      BY CutoffShapes
    <3>3. \/ plan' = NoPlan
          \/ plan' = [plan EXCEPT !.todo = todo, !.side = verdicts,
                                  !.sessions = read, !.barSplits = seen]
      BY <1>10 DEF ReadLedgerAndBars
    <3> HIDE DEF todo, read, seen
    <3> QED  BY <3>1, <3>2, <3>3 DEF PlanType
  <2> QED  BY <1>10, <2>1 DEF ReadLedgerAndBars
<1>11. CASE ReadSplits
  <2>1. plan' \in PlanType
    <3> DEFINE seen == [s \in Symbols |-> VisibleSplits(s, plan.asOf)]
               p == [plan EXCEPT !.splits = seen]
               todo == {v \in plan.todo : v \in Tracked \/ EntryPrice(p, v) > 0}
    <3>1. plan' = NoPlan \/ plan' = [p EXCEPT !.todo = todo]
      BY <1>11 DEF ReadSplits
    <3>2. todo \in SUBSET Verdicts
      BY DEF PlanType
    <3>3. seen \in [Symbols -> SUBSET Dates]
      BY CutoffShapes
    <3> HIDE DEF seen, todo
    <3> QED  BY <3>1, <3>2, <3>3 DEF PlanType
  <2> QED  BY <1>11, <2>1 DEF ReadSplits
<1>12. CASE WritePosition
  <2>1. plan' \in PlanType
    BY <1>12 DEF WritePosition, PlanType
  <2> QED  BY <1>12, <2>1 DEF WritePosition
<1>13. CASE Crash
  BY <1>13 DEF Crash
<1> QED
  BY <1>1, <1>2, <1>3, <1>4, <1>5, <1>6, <1>7, <1>8, <1>9, <1>10, <1>11, <1>12, <1>13
  DEF Next, UpdateStep

(* The work list: what each step does to it, and to the closed positions. *)
LEMMA StepKeepsWork ==
    ASSUME LedgerInv, [Next]_vars
    PROVE  WorkInv'
<1> USE NoPlanShape DEF LedgerInv, ShapeInv, WorkInv, market
<1>1. CASE UNCHANGED vars
  BY <1>1 DEF vars, Closed
<1>2. CASE NextSession
  BY <1>2 DEF NextSession, Closed
<1>3. CASE Collect
  BY <1>3 DEF Collect, Closed
<1>4. CASE Configure
  BY <1>4 DEF Configure, Closed
<1>5. CASE DailyUpdate
  BY <1>5, BeginUpdateKeepsInv DEF DailyUpdate
<1>6. CASE OperatorUpdate
  <2>1. PICK a \in 1..(today - 1) : BeginUpdate(a)
    BY <1>6 DEF OperatorUpdate
  <2> QED  BY <2>1, BeginUpdateKeepsInv
<1>7. CASE BeginRebuild
  <2>1. plan'.todo = {}
    BY <1>7 DEF BeginRebuild, PlanType
  <2> QED  BY <1>7, <2>1 DEF BeginRebuild
<1>8. CASE PurgeOrphans
  BY <1>8 DEF PurgeOrphans
<1>9. CASE SyncRecommendations
  BY <1>9 DEF SyncRecommendations
<1>10. CASE ReadLedgerAndBars
  <2>1. plan'.todo \subseteq (Judged \ Tracked) \cup Open
    <3> DEFINE todo == {v \in Judged \ Tracked : DateOf[v] <= plan.asOf} \cup Open
               read == [s \in Symbols |-> StoredSessions(s, plan.asOf)]
               seen == [s \in Symbols |-> VisibleSplits(s, plan.asOf)]
    <3>1. \/ plan' = NoPlan
          \/ plan' = [plan EXCEPT !.todo = todo, !.side = verdicts,
                                  !.sessions = read, !.barSplits = seen]
      BY <1>10 DEF ReadLedgerAndBars, PositionsToCarry
    <3>2. todo \subseteq (Judged \ Tracked) \cup Open
      OBVIOUS
    <3> HIDE DEF todo, read, seen
    <3>3. plan'.todo = {} \/ plan'.todo = todo
      BY <3>1 DEF PlanType
    <3> QED  BY <3>2, <3>3
  <2>2. Closed' = Closed /\ Closed \cap (Judged \ Tracked) = {} /\ Closed \cap Open = {}
    BY <1>10 DEF ReadLedgerAndBars, Closed, Tracked, Open, Judged
  <2> QED  BY <1>10, <2>1, <2>2 DEF ReadLedgerAndBars
<1>11. CASE ReadSplits
  <2> DEFINE p == [plan EXCEPT !.splits = [s \in Symbols |-> VisibleSplits(s, plan.asOf)]]
             todo == {v \in plan.todo : v \in Tracked \/ EntryPrice(p, v) > 0}
  <2>1. \/ pc' = "idle" /\ plan' = NoPlan
        \/ pc' = "write" /\ plan' = [p EXCEPT !.todo = todo]
    BY <1>11 DEF ReadSplits
  <2>2. todo \subseteq plan.todo
    OBVIOUS
  <2>3. Closed' = Closed
    BY <1>11 DEF ReadSplits, Closed
  <2> HIDE DEF todo
  <2>4. plan'.todo = {} \/ plan'.todo = todo
    BY <2>1 DEF PlanType
  <2> QED  BY <2>1, <2>2, <2>3, <2>4
<1>12. CASE WritePosition
  <2>1. PICK v \in plan.todo :
            /\ \A w \in Verdicts : w # v => ledger'[w] = ledger[w]
            /\ \/ pc' = "idle" /\ plan' = NoPlan
               \/ pc' = "write" /\ plan' = [plan EXCEPT !.todo = plan.todo \ {v}]
    BY <1>12 DEF WritePosition
  <2>2. plan'.todo = {} \/ plan'.todo = plan.todo \ {v}
    BY <2>1 DEF PlanType
  <2>3. plan'.todo \cap Closed' = {}
    BY <2>1, <2>2 DEF Closed, PlanType
  <2> QED  BY <2>1, <2>3
<1>13. CASE Crash
  BY <1>13 DEF Crash
<1> QED
  BY <1>1, <1>2, <1>3, <1>4, <1>5, <1>6, <1>7, <1>8, <1>9, <1>10, <1>11, <1>12, <1>13
  DEF Next, UpdateStep

(* Every reachable state satisfies the inductive invariant: an update never *)
(* holds a closed position on its work list.                                *)
THEOREM ClosedNeverPlanned == Spec => []LedgerInv
<1>1. LedgerInv /\ [Next]_vars => LedgerInv'
  BY StepKeepsShape, StepKeepsWork DEF LedgerInv
<1> QED  BY <1>1, InitLedgerInv, PTL DEF Spec

(* What one step may do to a closed position. *)
FinalStep ==
    \A v \in Closed :
        \/ ledger'[v] = NoPosition
        \/ /\ marks'[v] = marks[v]
           /\ \/ ledger'[v] = ledger[v]
              \/ \E side \in Sides : ledger'[v] = [ledger[v] EXCEPT !.side = side]

LEMMA DeleteIsFinal ==
    ASSUME NEW gone, DeletePositions(gone)
    PROVE  FinalStep
BY DEF DeletePositions, FinalStep, Closed

LEMMA StepIsFinal ==
    ASSUME LedgerInv, [Next]_vars
    PROVE  FinalStep
<1> USE DEF LedgerInv, ShapeInv, WorkInv
<1>1. CASE UNCHANGED <<ledger, marks>>
  BY <1>1 DEF FinalStep, Closed
<1>2. CASE BeginRebuild \/ PurgeOrphans
  BY <1>2, DeleteIsFinal DEF BeginRebuild, PurgeOrphans
<1>3. CASE SyncRecommendations
  <2> SUFFICES ASSUME NEW v \in Closed
               PROVE  /\ marks'[v] = marks[v]
                      /\ \/ ledger'[v] = ledger[v]
                         \/ \E side \in Sides : ledger'[v] = [ledger[v] EXCEPT !.side = side]
    BY DEF FinalStep
  <2>1. CASE v \in Tracked \cap Judged
    <3>1. verdicts[v] \in Sides
      BY <2>1 DEF Judged
    <3>2. ledger'[v] = [ledger[v] EXCEPT !.side = verdicts[v]]
      BY <1>3, <2>1 DEF SyncRecommendations, Closed
    <3> QED  BY <1>3, <3>1, <3>2 DEF SyncRecommendations
  <2>2. CASE v \notin Tracked \cap Judged
    BY <1>3, <2>2 DEF SyncRecommendations, Closed
  <2> QED  BY <2>1, <2>2
<1>4. CASE WritePosition
  <2>1. PICK v \in plan.todo : \A w \in Verdicts \ {v} :
            ledger'[w] = ledger[w] /\ marks'[w] = marks[w]
    BY <1>4 DEF WritePosition
  <2> QED  BY <2>1 DEF FinalStep, Closed
<1> QED
  BY <1>1, <1>2, <1>3, <1>4
  DEF Next, UpdateStep, vars, NextSession, Collect, Configure, DailyUpdate,
      OperatorUpdate, BeginUpdate, ReadLedgerAndBars, ReadSplits, Crash

(* Once a position is closed, no step advances, re-prices or reopens it: it *)
(* can only be deleted, or follow its verdict to the other side.            *)
THEOREM ClosedStaysFinal == Spec => ClosedIsFinal
<1>1. LedgerInv /\ [Next]_vars => [FinalStep]_vars
  BY StepIsFinal
<1>2. FinalStep <=>
        \A v \in Closed :
            \/ ledger'[v] = NoPosition
            \/ /\ marks'[v] = marks[v]
               /\ \/ ledger'[v] = ledger[v]
                  \/ \E side \in Sides : ledger'[v] = [ledger[v] EXCEPT !.side = side]
  BY DEF FinalStep
<1> QED  BY <1>1, <1>2, ClosedNeverPlanned, PTL DEF Spec, ClosedIsFinal

-----------------------------------------------------------------------------
(* Bases.  A figure is a value times the splits still ahead of its day, so  *)
(* what re-basing rests on is that the product of the splits of two         *)
(* disjoint sets is the product of their products.                          *)

LEMMA DivisionUndoesProduct ==
    ASSUME NEW x \in Nat, NEW a \in Nat \ {0}, NEW b \in Nat
    PROVE  (x * (a * b)) \div a = x * b
<1> DEFINE y == x * b
<1>1. y \in Nat /\ x * (a * b) = y * a
  OBVIOUS
<1> HIDE DEF y
<1>2. (y * a) \div a = y
  BY <1>1
<1> QED  BY <1>1, <1>2 DEF y

LEMMA ScalingKeepsOrder ==
    ASSUME NEW x \in Int, NEW y \in Int, NEW m \in Nat \ {0}
    PROVE  /\ x <= y <=> x * m <= y * m
           /\ x = y <=> x * m = y * m
           /\ x * m - y * m = (x - y) * m
           /\ x * m \in Int
OBVIOUS

LEMMA SplitFactorUnfolds ==
    ASSUME NEW events
    PROVE  \E f \in [0..LastDate -> Nat \ {0}] :
               /\ f[0] = 1
               /\ \A d \in 1..LastDate :
                     f[d] = f[d - 1] * (IF d \in events THEN Factor ELSE 1)
               /\ SplitFactor(events) = f[LastDate]
<1> DEFINE S == Nat \ {0}
           ratio(d) == IF d \in events THEN Factor ELSE 1
           step == [d \in 1..LastDate |-> [x \in S |-> x * ratio(d)]]
           Is(f) == f = [d \in 0..LastDate |->
                        IF d = 0 THEN 1 ELSE f[d - 1] * ratio(d)]
<1>1. LastDate \in Nat /\ Factor \in S
  BY PricesAssumption
<1>2. \A d \in 1..LastDate, x \in S : step[d][x] = x * ratio(d) /\ x * ratio(d) \in S
  <2>1. \A d \in 1..LastDate : ratio(d) \in S
    BY <1>1
  <2> HIDE DEF ratio
  <2> QED  BY <2>1
<1>3. PICK f \in [0..LastDate -> S] :
          f[0] = 1 /\ \A d \in 1..LastDate : f[d] = step[d][f[d - 1]]
  <2>1. 1 \in S /\ StaysIn(S, step, LastDate)
    <3> HIDE DEF step, ratio
    <3> QED  BY <1>2 DEF StaysIn
  <2> HIDE DEF step, ratio, S
  <2>2. \E f \in [0..LastDate -> S] : Iterates(f, 1, step, LastDate)
    BY <1>1, <2>1, RecursionExists
  <2> QED  BY <2>2 DEF Iterates
<1>4. \A d \in 1..LastDate : f[d] = f[d - 1] * ratio(d)
  <2> SUFFICES ASSUME NEW d \in 1..LastDate PROVE f[d] = f[d - 1] * ratio(d)
    OBVIOUS
  <2>1. f[d - 1] \in S
    BY <1>1, <1>3
  <2> HIDE DEF step, ratio, S
  <2> QED  BY <1>2, <1>3, <2>1
<1>5. Is(f)
  <2> HIDE DEF ratio
  <2> QED  BY <1>3, <1>4
<1> DEFINE through == CHOOSE g : Is(g)
<1>6. Is(through)
  BY <1>5
<1>7. SplitFactor(events) = through[LastDate]
  BY DEF SplitFactor
<1>8. /\ through[0] = 1
      /\ \A d \in 1..LastDate : through[d] = through[d - 1] * ratio(d)
      /\ through = [d \in 0..LastDate |-> through[d]]
  <2> HIDE DEF through, ratio
  <2> QED  BY <1>1, <1>6
<1>9. \A d \in 0..LastDate : through[d] \in S
  <2> DEFINE G == {d \in 0..LastDate : through[d] \in S}
  <2>1. 0 \in G
    <3> HIDE DEF through
    <3> QED  BY <1>1, <1>8
  <2>2. ASSUME NEW d \in 1..LastDate, d - 1 \in G PROVE d \in G
    <3>1. ratio(d) \in S
      BY <1>1
    <3>2. d \in 0..LastDate /\ through[d - 1] \in S
      BY <1>1, <2>2
    <3> HIDE DEF through, ratio
    <3>3. through[d] = through[d - 1] * ratio(d)
      BY <1>8
    <3> QED  BY <3>1, <3>2, <3>3
  <2>3. \A d \in 0..LastDate : d \in G
    <3> HIDE DEF G
    <3> QED  BY <1>1, <2>1, <2>2, Induction
  <2> QED  BY <2>3
<1>10. through \in [0..LastDate -> S]
  <2> HIDE DEF through
  <2> QED  BY <1>8, <1>9
<1> HIDE DEF through
<1> QED  BY <1>7, <1>8, <1>10

LEMMA SplitFactorIsPositive ==
    ASSUME NEW events
    PROVE  SplitFactor(events) \in Nat \ {0}
<1>1. LastDate \in 0..LastDate
  BY PricesAssumption
<1> QED  BY <1>1, SplitFactorUnfolds

LEMMA SplitFactorOfNone == SplitFactor({}) = 1
<1>1. PICK f \in [0..LastDate -> Nat \ {0}] :
          /\ f[0] = 1 /\ \A d \in 1..LastDate : f[d] = f[d - 1] * 1
          /\ SplitFactor({}) = f[LastDate]
  BY SplitFactorUnfolds
<1> DEFINE G == {d \in 0..LastDate : f[d] = 1}
<1>2. LastDate \in Nat /\ 0 \in G
  BY <1>1, PricesAssumption
<1>3. \A d \in 1..LastDate : d - 1 \in G => d \in G
  BY <1>1
<1>4. \A d \in 0..LastDate : d \in G
  <2> HIDE DEF G
  <2> QED  BY <1>2, <1>3, Induction
<1> QED  BY <1>1, <1>2, <1>4

LEMMA SplitFactorOfUnion ==
    ASSUME NEW A, NEW B, A \cap B = {}
    PROVE  SplitFactor(A \cup B) = SplitFactor(A) * SplitFactor(B)
<1> DEFINE Goes(f, E) ==
              /\ f[0] = 1
              /\ \A d \in 1..LastDate : f[d] = f[d - 1] * (IF d \in E THEN Factor ELSE 1)
              /\ SplitFactor(E) = f[LastDate]
           R == [0..LastDate -> Nat \ {0}]
<1>1. LastDate \in Nat /\ Factor \in Nat
  BY PricesAssumption
<1>2. PICK a \in R : Goes(a, A)
  BY SplitFactorUnfolds
<1>3. PICK b \in R : Goes(b, B)
  BY SplitFactorUnfolds
<1>4. PICK u \in R : Goes(u, A \cup B)
  BY SplitFactorUnfolds
<1> DEFINE G == {d \in 0..LastDate : u[d] = a[d] * b[d]}
<1>5. 0 \in G
  BY <1>1, <1>2, <1>3, <1>4
<1>6. ASSUME NEW d \in 1..LastDate, d - 1 \in G
      PROVE  d \in G
  <2> DEFINE x == a[d - 1]
             y == b[d - 1]
  <2>1. x \in Nat /\ y \in Nat /\ u[d - 1] = x * y
    BY <1>1, <1>2, <1>3, <1>6
  <2>2. CASE d \in A
    <3>1. d \notin B
      BY <2>2
    <3>2. a[d] = x * Factor /\ b[d] = y * 1 /\ u[d] = (x * y) * Factor
      BY <1>2, <1>3, <1>4, <2>1, <2>2, <3>1
    <3> HIDE DEF x, y
    <3>3. (x * y) * Factor = (x * Factor) * (y * 1)
      BY <1>1, <2>1
    <3> QED  BY <3>2, <3>3
  <2>3. CASE d \in B
    <3>1. d \notin A
      BY <2>3
    <3>2. a[d] = x * 1 /\ b[d] = y * Factor /\ u[d] = (x * y) * Factor
      BY <1>2, <1>3, <1>4, <2>1, <2>3, <3>1
    <3> HIDE DEF x, y
    <3>3. (x * y) * Factor = (x * 1) * (y * Factor)
      BY <1>1, <2>1
    <3> QED  BY <3>2, <3>3
  <2>4. CASE d \notin A /\ d \notin B
    <3>1. a[d] = x * 1 /\ b[d] = y * 1 /\ u[d] = (x * y) * 1
      BY <1>2, <1>3, <1>4, <2>1, <2>4
    <3> HIDE DEF x, y
    <3>2. (x * y) * 1 = (x * 1) * (y * 1)
      BY <2>1
    <3> QED  BY <3>1, <3>2
  <2> QED  BY <2>2, <2>3, <2>4
<1>7. \A d \in 0..LastDate : d \in G
  <2> HIDE DEF G
  <2> QED  BY <1>1, <1>5, <1>6, Induction
<1>8. u[LastDate] = a[LastDate] * b[LastDate]
  BY <1>1, <1>7
<1> QED  BY <1>2, <1>3, <1>4, <1>8

-----------------------------------------------------------------------------
(* What the market is, and what a position is by its history alone.         *)

(* Prices and splits are given once; a price step stores bars and actions   *)
(* together, of every symbol where no fetch can fail.                       *)
MarketInv ==
    /\ bars \in Histories /\ splits \in SplitSets
    /\ today \in 0..LastDate
    /\ stored \in [Symbols -> 0..today] /\ recorded = stored
    /\ FetchOutcomes = {"stored"} => \A s \in Symbols : stored[s] = today

(* The splits ahead of a day, as one ratio: Quote(s, x, d) = x * Ahead(s, d). *)
Ahead(s, d) == SplitFactor({e \in splits[s] : e > d})

LEMMA QuoteIsProduct ==
    ASSUME NEW s, NEW d
    PROVE  /\ Ahead(s, d) \in Nat \ {0}
           /\ \A x : Quote(s, x, d) = x * Ahead(s, d)
BY SplitFactorIsPositive DEF Quote, Ahead

LEMMA BarFacts ==
    ASSUME Replayable, MarketInv, NEW s \in Symbols, NEW d \in Dates
    PROVE  /\ bars[s][d] \in [open : Nat, low : Nat, close : Nat]
           /\ bars[s][d] = NoBar => bars[s][d].close = 0
           /\ bars[s][d] # NoBar =>
                 /\ bars[s][d].low <= bars[s][d].open
                 /\ bars[s][d].close > TrailGap /\ bars[s][d].close > StopGap
<1>1. {TrailGap, StopGap} \subseteq Nat
  BY PricesAssumption
<1>2. TrailGap <= Max({TrailGap, StopGap}) /\ StopGap <= Max({TrailGap, StopGap})
      /\ Max({TrailGap, StopGap}) \in Nat
  BY <1>1, MaxOfTwo
<1>3. bars \in Histories
  BY DEF MarketInv
<1>4. bars[s][d] \in [open : Nat, low : Nat, close : Nat]
  BY <1>3 DEF Replayable, BarsAreWhole
<1>5. bars[s][d] # NoBar =>
        bars[s][d].low <= bars[s][d].open /\ bars[s][d].close > Max({TrailGap, StopGap})
  BY <1>3 DEF Replayable, BarsAreWhole
<1> HIDE DEF Max
<1> QED  BY <1>1, <1>2, <1>4, <1>5 DEF NoBar

(* The frozen prices: none, or the close the run saw, give or take a slip;  *)
(* and what the true entry and the first stop are then.                     *)
LEMMA FrozenFacts ==
    ASSUME Replayable, MarketInv, NEW v \in Verdicts
    PROVE  /\ RiskEntry(v) \in Nat /\ RiskStop(v) \in Nat
           /\ TrueEntry(v) \in Nat
           /\ TrueEntry(v) > 0 => TrueFirstStop(v) \in Nat
           /\ TrueEntry(v) > 0 => TrueEntry(v) > TrailGap
           /\ DateOf[v] \in Sessions(SymbolOf[v]) =>
                 TrueEntry(v) = bars[SymbolOf[v]][DateOf[v]].close /\ TrueEntry(v) > 0
           /\ DateOf[v] \notin Sessions(SymbolOf[v]) => TrueEntry(v) = RiskEntry(v)
           /\ Risk[v] \in {"nostop", "wrong"} => FetchOutcomes = {"stored"}
           /\ RiskStop(v) = 0 <=> Risk[v] \in {"nostop", "missing"}
           /\ RiskEntry(v) = 0 <=> Risk[v] = "missing"
           /\ Risk[v] \in {"full", "nostop"} => RiskEntry(v) = TrueEntry(v)
           /\ Risk[v] = "wrong" /\ TrueEntry(v) # RiskEntry(v) =>
                 RiskEntry(v) = TrueEntry(v) + Slip /\ 200 * Slip > TrueEntry(v)
<1> DEFINE s == SymbolOf[v]
           d == DateOf[v]
           bar == bars[s][d]
<1>1. s \in Symbols /\ d \in Dates /\ Risk[v] \in RiskKinds
  BY VerdictsAssumption
<1>2. {TrailGap, StopGap, Par, Slip} \subseteq Nat \ {0}
  BY PricesAssumption
<1>3. Par > TrailGap /\ Par > StopGap
  <2>1. TrailGap <= Max({TrailGap, StopGap}) /\ StopGap <= Max({TrailGap, StopGap})
        /\ Max({TrailGap, StopGap}) \in Nat
    BY <1>2, MaxOfTwo
  <2>2. Par > Max({TrailGap, StopGap})
    BY DEF Replayable, FrozenPricesAreUsable
  <2> HIDE DEF Max
  <2> QED  BY <1>2, <2>1, <2>2
<1>4. /\ bar.close \in Nat
      /\ d \notin Sessions(s) => bar.close = 0
      /\ d \in Sessions(s) => bar.close > TrailGap /\ bar.close > StopGap
  BY <1>1, BarFacts DEF Sessions
<1>5. /\ Risk[v] \in {"nostop", "wrong"} => FetchOutcomes = {"stored"}
      /\ Risk[v] = "wrong" => 200 * Slip > bar.close
  BY <1>1 DEF Replayable, FrozenPricesAreUsable, MarketInv
<1> DEFINE seen == IF bar.close = 0 THEN Par ELSE bar.close
<1>6. RiskEntry(v) = IF Risk[v] = "missing" THEN 0
                     ELSE IF Risk[v] = "wrong" THEN seen + Slip ELSE seen
  BY <1>1 DEF RiskEntry, RiskKinds
<1>7. RiskStop(v) = IF Risk[v] \in {"full", "wrong"} THEN RiskEntry(v) - StopGap ELSE 0
  BY DEF RiskStop
<1>8. TrueEntry(v) = IF bar.close # 0 THEN bar.close ELSE RiskEntry(v)
  BY DEF TrueEntry
<1>9. TrueFirstStop(v) = IF RiskStop(v) # 0 THEN RiskStop(v)
                         ELSE IF HasAtr(s, d) THEN TrueEntry(v) - TrailGap ELSE 0
  BY DEF TrueFirstStop
<1> HIDE DEF s, d, bar
<1>10. seen \in Nat /\ seen > TrailGap /\ seen > StopGap
  BY <1>2, <1>3, <1>4
<1>11. /\ RiskEntry(v) \in Nat /\ RiskStop(v) \in Nat
       /\ RiskStop(v) = 0 <=> Risk[v] \in {"nostop", "missing"}
       /\ RiskEntry(v) = 0 <=> Risk[v] = "missing"
  <2> HIDE DEF seen
  <2> QED  BY <1>1, <1>2, <1>6, <1>7, <1>10 DEF RiskKinds
<1>12. /\ TrueEntry(v) \in Nat
       /\ TrueEntry(v) > 0 => TrueEntry(v) > TrailGap
       /\ d \in Sessions(s) => TrueEntry(v) = bar.close /\ TrueEntry(v) > 0
       /\ d \notin Sessions(s) => TrueEntry(v) = RiskEntry(v)
  BY <1>2, <1>4, <1>6, <1>8, <1>10, <1>11
<1>13. TrueEntry(v) > 0 => TrueFirstStop(v) \in Nat
  <2> SUFFICES ASSUME TrueEntry(v) > 0 PROVE TrueFirstStop(v) \in Nat
    OBVIOUS
  <2>1. CASE RiskStop(v) # 0
    BY <1>9, <1>11, <2>1
  <2>2. CASE RiskStop(v) = 0 /\ HasAtr(s, d)
    BY <1>2, <1>9, <1>12, <2>2
  <2>3. CASE RiskStop(v) = 0 /\ ~HasAtr(s, d)
    BY <1>9, <2>3
  <2> QED  BY <2>1, <2>2, <2>3
<1>14. /\ Risk[v] \in {"full", "nostop"} => RiskEntry(v) = TrueEntry(v)
       /\ Risk[v] = "wrong" /\ TrueEntry(v) # RiskEntry(v) =>
             RiskEntry(v) = TrueEntry(v) + Slip /\ 200 * Slip > TrueEntry(v)
  BY <1>1, <1>2, <1>4, <1>5, <1>6, <1>8, <1>10 DEF RiskKinds
<1> QED  BY <1>5, <1>11, <1>12, <1>13, <1>14 DEF s, d, bar

(* No session lies between m and d. *)
NextAfter(s, m, d) ==
    /\ d \in Sessions(s) /\ m < d
    /\ \A j \in Sessions(s) : j < d => j <= m

LEMMA SessionsAreDates ==
    ASSUME NEW s
    PROVE  /\ Sessions(s) \subseteq Dates /\ Dates \subseteq Nat \ {0}
           /\ IsFiniteSet(Dates) /\ \A T \in SUBSET Dates : IsFiniteSet(T)
<1>1. LastDate \in Nat
  BY PricesAssumption
<1>2. IsFiniteSet(Dates)
  BY <1>1, FS_Interval DEF Dates
<1>3. \A T \in SUBSET Dates : IsFiniteSet(T)
  BY <1>2, FS_Subset
<1> QED  BY <1>1, <1>2, <1>3 DEF Sessions, Dates

LEMMA HeldGrows ==
    ASSUME NEW v \in Verdicts, NEW m \in Nat, DateOf[v] <= m,
           NEW d, NextAfter(SymbolOf[v], m, d)
    PROVE  /\ SessionsHeld(v, d - 1) = SessionsHeld(v, m)
           /\ SessionsHeld(v, d) = SessionsHeld(v, m) \cup {d}
           /\ d \notin SessionsHeld(v, m)
           /\ Cardinality(SessionsHeld(v, m)) \in Nat
           /\ Cardinality(SessionsHeld(v, d)) = Cardinality(SessionsHeld(v, m)) + 1
<1> DEFINE S == Sessions(SymbolOf[v])
<1>1. S \subseteq Nat /\ DateOf[v] \in Nat /\ d \in Nat
  BY SessionsAreDates, VerdictsAssumption DEF NextAfter
<1>2. /\ SessionsHeld(v, d - 1) = {j \in S : DateOf[v] < j /\ j <= d - 1}
      /\ SessionsHeld(v, d) = {j \in S : DateOf[v] < j /\ j <= d}
      /\ SessionsHeld(v, m) = {j \in S : DateOf[v] < j /\ j <= m}
  BY DEF SessionsHeld
<1>3. d \in S /\ m < d /\ \A j \in S : j < d => j <= m
  BY DEF NextAfter
<1> HIDE DEF S
<1>4. \A j \in S : (j <= d - 1 <=> j <= m) /\ (j <= d <=> j <= m \/ j = d)
  BY <1>1, <1>3
<1>5. /\ SessionsHeld(v, d - 1) = SessionsHeld(v, m)
      /\ SessionsHeld(v, d) = SessionsHeld(v, m) \cup {d}
      /\ d \notin SessionsHeld(v, m)
  <2>1. {j \in S : DateOf[v] < j /\ j <= d - 1} = {j \in S : DateOf[v] < j /\ j <= m}
    BY <1>4
  <2>2. DateOf[v] < d /\ ~(d <= m)
    BY <1>1, <1>3
  <2>3. {j \in S : DateOf[v] < j /\ j <= d}
            = {j \in S : DateOf[v] < j /\ j <= m} \cup {d}
    BY <1>3, <1>4, <2>2
  <2>4. d \notin SessionsHeld(v, m)
    BY <1>2, <2>2
  <2> QED  BY <1>2, <2>1, <2>3, <2>4
<1>6. IsFiniteSet(SessionsHeld(v, m))
  BY <1>2, SessionsAreDates DEF S
<1> QED  BY <1>5, <1>6, FS_AddElement, FS_CardinalityType

(* The stops set before day d, of which StopInForce is the highest.         *)
StopsSet(v, d) ==
    {TrueFirstStop(v)} \cup
    {bars[SymbolOf[v]][j].close - TrailGap :
        j \in {i \in SessionsHeld(v, d - 1) : HasAtr(SymbolOf[v], i)}}

LEMMA StopInForceIsHighest ==
    ASSUME Replayable, MarketInv, NEW v \in Verdicts, TrueEntry(v) > 0, NEW d \in Int
    PROVE  /\ StopsSet(v, d) \in SUBSET Nat
           /\ StopInForce(v, d) \in StopsSet(v, d)
           /\ \A x \in StopsSet(v, d) : x <= StopInForce(v, d)
<1> DEFINE s == SymbolOf[v]
           J == {i \in SessionsHeld(v, d - 1) : HasAtr(s, i)}
           f == [j \in J |-> bars[s][j].close - TrailGap]
<1>1. s \in Symbols /\ TrailGap \in Nat
  BY VerdictsAssumption, PricesAssumption
<1>2. J \subseteq Sessions(s) /\ J \subseteq Dates /\ IsFiniteSet(J)
  BY SessionsAreDates DEF SessionsHeld
<1>3. \A j \in J : bars[s][j].close - TrailGap \in Nat
  <2> SUFFICES ASSUME NEW j \in J PROVE bars[s][j].close - TrailGap \in Nat
    OBVIOUS
  <2>1. bars[s][j] # NoBar /\ j \in Dates
    BY <1>2 DEF Sessions
  <2>2. bars[s][j].close \in Nat /\ bars[s][j].close > TrailGap
    BY <1>1, <2>1, BarFacts
  <2> QED  BY <1>1, <2>2
<1>4. StopsSet(v, d) = {TrueFirstStop(v)} \cup {f[j] : j \in J}
  BY DEF StopsSet
<1>5. StopsSet(v, d) \in SUBSET Nat
  BY <1>3, <1>4, FrozenFacts
<1>6. \E m \in StopsSet(v, d) : \A x \in StopsSet(v, d) : x <= m
  <2>1. CASE J = {}
    BY <1>4, <1>5, <2>1
  <2>2. CASE J # {}
    <3>1. PICK m \in J : \A j \in J : f[j] <= f[m]
      <4>1. \A j \in J : f[j] \in Int
        BY <1>3
      <4> HIDE DEF J, f
      <4> QED  BY <1>2, <2>2, <4>1, GreatestImage
    <3>2. f[m] \in StopsSet(v, d) /\ TrueFirstStop(v) \in StopsSet(v, d)
      BY <1>4
    <3>3. \A x \in StopsSet(v, d) : x = TrueFirstStop(v) \/ x <= f[m]
      BY <1>4, <3>1
    <3> HIDE DEF f, J
    <3> QED  BY <1>5, <3>2, <3>3
  <2> QED  BY <2>1, <2>2
<1>7. StopInForce(v, d) = Max(StopsSet(v, d))
  BY DEF StopsSet, StopInForce
<1>8. PICK m \in StopsSet(v, d) : \A x \in StopsSet(v, d) : x <= m
  BY <1>6
<1>9. Max(StopsSet(v, d)) = m
  BY <1>5, <1>8, MaxIsGreatest
<1> QED  BY <1>5, <1>7, <1>8, <1>9

LEMMA StopStarts ==
    ASSUME Replayable, MarketInv, NEW v \in Verdicts, TrueEntry(v) > 0
    PROVE  StopInForce(v, DateOf[v] + 1) = TrueFirstStop(v)
<1>1. DateOf[v] \in Nat
  BY VerdictsAssumption, SessionsAreDates
<1>2. StopsSet(v, DateOf[v] + 1) = {TrueFirstStop(v)}
  <2>1. SessionsHeld(v, (DateOf[v] + 1) - 1) = {}
    BY <1>1, SessionsAreDates DEF SessionsHeld
  <2> QED  BY <2>1 DEF StopsSet
<1> QED  BY <1>1, <1>2, StopInForceIsHighest

(* The stop moves as the rules move it, once a day and never down.          *)
LEMMA StopMoves ==
    ASSUME Replayable, MarketInv, NEW v \in Verdicts, TrueEntry(v) > 0,
           NEW m \in Nat, DateOf[v] <= m, NEW d, NextAfter(SymbolOf[v], m, d)
    PROVE  /\ StopInForce(v, d) = StopInForce(v, m + 1)
           /\ StopInForce(v, d) \in Nat
           /\ StopInForce(v, d + 1) =
                 IF HasAtr(SymbolOf[v], d)
                 THEN NextTrailingStop(StopInForce(v, d), bars[SymbolOf[v]][d].close, TrailGap)
                 ELSE StopInForce(v, d)
<1> DEFINE s == SymbolOf[v]
           moved == bars[s][d].close - TrailGap
<1>1. d \in Nat /\ d \in Dates /\ s \in Symbols /\ TrailGap \in Nat \ {0}
  BY SessionsAreDates, VerdictsAssumption, PricesAssumption DEF NextAfter
<1>2. moved \in Nat \ {0}
  <2>1. bars[s][d] # NoBar
    BY DEF NextAfter, Sessions
  <2> QED  BY <1>1, <2>1, BarFacts
<1>3. /\ SessionsHeld(v, d - 1) = SessionsHeld(v, m)
      /\ SessionsHeld(v, d) = SessionsHeld(v, m) \cup {d}
  BY HeldGrows
<1>4. (m + 1) - 1 = m /\ (d + 1) - 1 = d
  BY <1>1
<1>5. StopsSet(v, d) = StopsSet(v, m + 1)
  BY <1>3, <1>4 DEF StopsSet
<1>6. StopInForce(v, d) = StopInForce(v, m + 1)
  BY <1>5 DEF StopInForce, StopsSet
<1>7. StopsSet(v, d + 1) = StopsSet(v, d) \cup (IF HasAtr(s, d) THEN {moved} ELSE {})
  BY <1>3, <1>4 DEF StopsSet
<1>8. /\ StopsSet(v, d) \in SUBSET Nat
      /\ StopInForce(v, d) \in StopsSet(v, d)
      /\ \A x \in StopsSet(v, d) : x <= StopInForce(v, d)
  BY <1>1, StopInForceIsHighest
<1>9. StopInForce(v, d + 1) = Max(StopsSet(v, d + 1))
  BY DEF StopsSet, StopInForce
<1>10. StopInForce(v, d) \in Nat
  BY <1>8
<1>11. CASE ~HasAtr(s, d)
  <2>1. StopInForce(v, d + 1) = StopInForce(v, d)
    BY <1>7, <1>8, <1>9, <1>11, MaxIsGreatest
  <2> QED  BY <1>6, <1>10, <1>11, <2>1
<1>12. CASE HasAtr(s, d)
  <2> DEFINE old == StopInForce(v, d)
             top == IF old >= moved THEN old ELSE moved
  <2>1. top \in StopsSet(v, d + 1) /\ \A x \in StopsSet(v, d + 1) : x <= top
    <3> HIDE DEF moved
    <3> QED  BY <1>2, <1>7, <1>8, <1>10, <1>12
  <2>2. StopsSet(v, d + 1) \in SUBSET Int
    <3> HIDE DEF moved
    <3> QED  BY <1>2, <1>7, <1>8, <1>12
  <2>3. StopInForce(v, d + 1) = top
    <3> HIDE DEF top
    <3> QED  BY <1>9, <2>1, <2>2, MaxIsGreatest
  <2>4. NextTrailingStop(old, bars[s][d].close, TrailGap) = top
    <3>1. Max({old, moved}) = top
      <4> HIDE DEF moved
      <4> QED  BY <1>2, <1>10, MaxOfTwo
    <3>2. old = 0 => top = moved
      <4> HIDE DEF moved
      <4> QED  BY <1>2
    <3> QED  BY <3>1, <3>2 DEF NextTrailingStop
  <2> QED  BY <1>6, <1>10, <1>12, <2>3, <2>4
<1> QED  BY <1>11, <1>12

-----------------------------------------------------------------------------
(* A position p with the published marks mk is what its history says, in    *)
(* the dollars of `day`.                                                    *)
TrueClose(v, d) ==
    IF d = DateOf[v] THEN TrueEntry(v) ELSE bars[SymbolOf[v]][d].close

MarkedDays(v, p) == {DateOf[v]} \cup SessionsHeld(v, p.marked)

TrueMarks(v, p, day) ==
    [d \in Dates |->
        IF d \in MarkedDays(v, p)
        THEN [close |-> Quote(SymbolOf[v], TrueClose(v, d), day),
              stop |-> Quote(SymbolOf[v], StopInForce(v, IF d = p.exitDate THEN d ELSE d + 1),
                             day)]
        ELSE NoMark]

FitsOpen(v, p, day) ==
    /\ p.exitDate = 0
    /\ \A j \in 1..p.marked : ~EndsUnder(v, j, p.maxHold)
    /\ p.stop = Quote(SymbolOf[v], StopInForce(v, p.marked + 1), day)
    /\ p.held = Cardinality(SessionsHeld(v, p.marked))

FitsClosed(v, p, day) ==
    /\ p.exitDate = p.marked
    /\ EndsUnder(v, p.marked, p.maxHold)
    /\ \A j \in 1..(p.marked - 1) : ~EndsUnder(v, j, p.maxHold)
    /\ p.reason = (IF StopHit(v, p.marked) THEN "stop" ELSE "max_hold")
    /\ p.stop = Quote(SymbolOf[v], StopInForce(v, p.marked), day)
    /\ p.exitPrice = Quote(SymbolOf[v], TrueExit(v, p.marked), day)

Fits(v, p, mk, day) ==
    /\ TrueEntry(v) > 0
    /\ p.marked \in DateOf[v]..day
    /\ p.entry = Quote(SymbolOf[v], TrueEntry(v), day)
    /\ p.status = "open" => FitsOpen(v, p, day)
    /\ p.status = "closed" => FitsClosed(v, p, day)
    /\ mk = TrueMarks(v, p, day)

(* An open position is in the dollars of its last marked day, a closed one  *)
(* in those of its exit or of a later split's.                              *)
FitsInv ==
    \A v \in Verdicts :
        IF v \in Tracked
        THEN \E day \in 0..LastDate :
                /\ Fits(v, ledger[v], marks[v], day)
                /\ v \in Open => day = ledger[v].marked
        ELSE marks[v] = NoMarks

(* Which is what the properties say of the ledger.                          *)
LEMMA FitsMeansReplay ==
    ASSUME MarketInv, FitsInv
    PROVE  LedgerMatchesReplay
<1>1. OpenMatchesReplay
  <2> SUFFICES ASSUME NEW v \in Open
               PROVE  LET p == ledger[v]
                          In(x) == Quote(SymbolOf[v], x, p.marked)
                      IN  /\ \A d \in 1..p.marked : ~EndsOn(v, d)
                          /\ p.entry = In(TrueEntry(v))
                          /\ p.stop = In(StopInForce(v, p.marked + 1))
                          /\ p.held = Cardinality(SessionsHeld(v, p.marked))
    BY DEF OpenMatchesReplay
  <2>1. v \in Verdicts /\ v \in Tracked /\ ledger[v].status = "open"
    BY DEF Open, Tracked
  <2>2. Fits(v, ledger[v], marks[v], ledger[v].marked)
    BY <2>1 DEF FitsInv
  <2> QED  BY <2>1, <2>2 DEF Fits, FitsOpen, EndsOn
<1>2. ClosedMatchesReplay
  <2> SUFFICES ASSUME NEW v \in Closed
               PROVE  LET p == ledger[v]
                          d == p.exitDate
                      IN  /\ EndsOn(v, d) /\ \A j \in 1..(d - 1) : ~EndsOn(v, j)
                          /\ p.reason = (IF StopHit(v, d) THEN "stop" ELSE "max_hold")
                          /\ \E day \in d..LastDate :
                              LET In(x) == Quote(SymbolOf[v], x, day)
                              IN  /\ p.entry = In(TrueEntry(v))
                                  /\ p.stop = In(StopInForce(v, d))
                                  /\ p.exitPrice = In(TrueExit(v, d))
    BY DEF ClosedMatchesReplay
  <2>1. v \in Verdicts /\ v \in Tracked /\ ledger[v].status = "closed"
    BY DEF Closed, Tracked
  <2>2. PICK day \in 0..LastDate : Fits(v, ledger[v], marks[v], day)
    BY <2>1 DEF FitsInv
  <2>3. day \in ledger[v].exitDate..LastDate /\ ledger[v].exitDate = ledger[v].marked
    <3>1. DateOf[v] \in Nat /\ LastDate \in Nat
      BY <2>1, VerdictsAssumption, PricesAssumption, SessionsAreDates
    <3> QED  BY <2>1, <2>2, <3>1 DEF Fits, FitsClosed
  <2> QED  BY <2>1, <2>2, <2>3 DEF Fits, FitsClosed, EndsOn
<1>3. MarksMatchReplay
  <2> SUFFICES ASSUME NEW v \in Verdicts, v \in Tracked
               PROVE  LET p == ledger[v]
                          days == {DateOf[v]} \cup SessionsHeld(v, p.marked)
                      IN  \E day \in p.marked..LastDate :
                            LET In(x) == Quote(SymbolOf[v], x, day)
                            IN  /\ p.entry = In(TrueEntry(v))
                                /\ marks[v] = [d \in Dates |->
                                      IF d \in days
                                      THEN [close |-> In(TrueMark(v, d).close),
                                            stop |-> In(TrueMark(v, d).stop)]
                                      ELSE NoMark]
    BY DEF MarksMatchReplay, FitsInv
  <2>1. PICK day \in 0..LastDate : Fits(v, ledger[v], marks[v], day)
    BY DEF FitsInv
  <2>2. day \in ledger[v].marked..LastDate
    <3>1. DateOf[v] \in Nat /\ LastDate \in Nat
      BY VerdictsAssumption, PricesAssumption, SessionsAreDates
    <3> QED  BY <2>1, <3>1 DEF Fits
  <2>3. marks[v] = TrueMarks(v, ledger[v], day)
        /\ ledger[v].entry = Quote(SymbolOf[v], TrueEntry(v), day)
    BY <2>1 DEF Fits
  <2> QED  BY <2>2, <2>3 DEF TrueMarks, MarkedDays, TrueMark, TrueClose
<1> QED  BY <1>1, <1>2, <1>3 DEF LedgerMatchesReplay

-----------------------------------------------------------------------------
(* One session of the replay.                                               *)

Merged(new, old) == [d \in Dates |-> IF new[d] # NoMark THEN new[d] ELSE old[d]]

(* What a plan reads of a symbol's day is that day in the dollars of `day`. *)
BarIn(bar, s, d, day) ==
    bar = [k \in {"open", "low", "close"} |-> Quote(s, bars[s][d][k], day)]

ReadIn(p, s, d, day) ==
    /\ BarIn(BarAsRead(p, s, d), s, d, day)
    /\ TrailGapAsRead(p, s, d) = Quote(s, TrailGap, day)
    /\ AtrKnown(p, s, d) <=> HasAtr(s, d)

ExitFits(exit, v, d, maxHold, day) ==
    /\ exit = NoExit <=> ~EndsUnder(v, d, maxHold)
    /\ exit # NoExit =>
          /\ exit.reason = (IF StopHit(v, d) THEN "stop" ELSE "max_hold")
          /\ exit.price = Quote(SymbolOf[v], TrueExit(v, d), day)

(* The exit rules at prices all scaled alike decide as the history does.    *)
LEMMA ExitIsTrue ==
    ASSUME Replayable, MarketInv, NEW v \in Verdicts, TrueEntry(v) > 0,
           NEW m \in Nat, DateOf[v] <= m, NEW d, NextAfter(SymbolOf[v], m, d),
           NEW maxHold \in Nat, NEW day,
           NEW bar, BarIn(bar, SymbolOf[v], d, day),
           NEW stop, stop = Quote(SymbolOf[v], StopInForce(v, m + 1), day),
           NEW held, held = Cardinality(SessionsHeld(v, m))
    PROVE  ExitFits(EvaluateExit(bar, stop, held, maxHold), v, d, maxHold, day)
<1> DEFINE s == SymbolOf[v]
           exit == EvaluateExit(bar, stop, held, maxHold)
           b == bars[s][d]
           x == StopInForce(v, d)
           M == Ahead(s, day)
           n == Cardinality(SessionsHeld(v, d))
<1>1. d \in Dates /\ d \in Nat /\ s \in Symbols
  BY SessionsAreDates, VerdictsAssumption DEF NextAfter
<1>2. /\ b \in [open : Nat, low : Nat, close : Nat]
      /\ b.low <= b.open
  <2>1. bars[s][d] # NoBar
    BY DEF NextAfter, Sessions
  <2> QED  BY <1>1, <2>1, BarFacts
<1>3. x \in Nat /\ StopInForce(v, m + 1) = x
  BY StopMoves
<1>4. n \in Nat /\ held + 1 = n
  BY HeldGrows
<1>5. M \in Nat \ {0} /\ \A y : Quote(s, y, day) = y * M
  BY QuoteIsProduct
<1>6. /\ bar.open = b.open * M /\ bar.low = b.low * M /\ bar.close = b.close * M
      /\ stop = x * M
  <2> HIDE DEF b, M, x
  <2> QED  BY <1>3, <1>5 DEF b, BarIn
<1>7. d \in SessionsHeld(v, LastDate)
  BY <1>1, SessionsAreDates, VerdictsAssumption DEF NextAfter, SessionsHeld, Dates
<1>8. EndsUnder(v, d, maxHold) <=> StopHit(v, d) \/ n >= maxHold
  BY <1>7 DEF EndsUnder
<1>9. StopHit(v, d) <=> x # 0 /\ b.low <= x
  BY DEF StopHit
<1>10. TrueExit(v, d) = IF ~StopHit(v, d) THEN b.close
                        ELSE IF b.open <= x THEN b.open ELSE x
  <2>1. Min({b.open, x}) = IF b.open <= x THEN b.open ELSE x
    <3> HIDE DEF b, x
    <3> QED  BY <1>2, <1>3, MinOfTwo
  <2> QED  BY <2>1 DEF TrueExit
<1>11. exit = IF stop # 0 /\ bar.open <= stop THEN [price |-> bar.open, reason |-> "stop"]
              ELSE IF stop # 0 /\ bar.low <= stop THEN [price |-> stop, reason |-> "stop"]
              ELSE IF n >= maxHold THEN [price |-> bar.close, reason |-> "max_hold"]
              ELSE NoExit
  BY <1>4 DEF EvaluateExit
<1> HIDE DEF b, x, M, n
<1>12. /\ stop # 0 <=> x # 0
       /\ bar.open <= stop <=> b.open <= x
       /\ bar.low <= stop <=> b.low <= x
  <2>1. /\ b.open * M <= x * M <=> b.open <= x
        /\ b.low * M <= x * M <=> b.low <= x
        /\ x * M = 0 * M <=> x = 0
    BY <1>2, <1>3, <1>5, ScalingKeepsOrder
  <2>2. 0 * M = 0
    BY <1>5
  <2> QED  BY <1>6, <2>1, <2>2
<1>13. exit = IF x # 0 /\ b.open <= x THEN [price |-> bar.open, reason |-> "stop"]
              ELSE IF x # 0 /\ b.low <= x THEN [price |-> stop, reason |-> "stop"]
              ELSE IF n >= maxHold THEN [price |-> bar.close, reason |-> "max_hold"]
              ELSE NoExit
  BY <1>11, <1>12
<1>14. exit = NoExit <=> ~(StopHit(v, d) \/ n >= maxHold)
  BY <1>2, <1>3, <1>9, <1>13 DEF NoExit
<1>15. ASSUME exit # NoExit
       PROVE  /\ exit.reason = (IF StopHit(v, d) THEN "stop" ELSE "max_hold")
              /\ exit.price = TrueExit(v, d) * M
  BY <1>2, <1>3, <1>6, <1>9, <1>10, <1>13, <1>15 DEF NoExit
<1> QED  BY <1>5, <1>8, <1>14, <1>15 DEF ExitFits

MarkShapes == [Dates -> [close : Int, stop : Int]]

PositionShape ==
    [status : {"none", "open", "closed"}, side : Sides \cup {"none"},
     entry : Int, stop : Int, held : Int, maxHold : Nat, marked : 0..LastDate,
     exitDate : 0..LastDate, exitPrice : Int, reason : {"none", "stop", "max_hold"}]

WorkShape == [position : PositionShape, marks : MarkShapes]

LEMMA SessionKeepsShape ==
    ASSUME NEW p, NEW s, NEW d \in Dates, NEW w \in WorkShape,
           BarAsRead(p, s, d) \in [{"open", "low", "close"} -> Int],
           TrailGapAsRead(p, s, d) \in Int
    PROVE  ReplaySession(p, s, d, w) \in WorkShape
<1> DEFINE pos == w.position
           bar == BarAsRead(p, s, d)
           gap == TrailGapAsRead(p, s, d)
           exit == EvaluateExit(bar, pos.stop, pos.held, pos.maxHold)
           trail == NextTrailingStop(pos.stop, bar.close, gap)
           stop == IF exit = NoExit /\ AtrKnown(p, s, d) THEN trail ELSE pos.stop
           next == IF exit = NoExit
                   THEN [pos EXCEPT !.held = @ + 1, !.stop = stop, !.marked = d]
                   ELSE [pos EXCEPT !.status = "closed", !.exitDate = d, !.marked = d,
                                    !.exitPrice = exit.price, !.reason = exit.reason]
<1>1. ReplaySession(p, s, d, w) =
        [position |-> next,
         marks |-> [w.marks EXCEPT ![d] = [close |-> bar.close, stop |-> stop]]]
  BY DEF ReplaySession
<1>2. pos \in PositionShape /\ w.marks \in MarkShapes
  BY DEF WorkShape
<1>3. pos.stop \in Int /\ pos.held + 1 \in Int /\ d \in 0..LastDate
  BY <1>2, SessionsAreDates DEF PositionShape, Dates
<1>4. exit.price \in Int /\ exit.reason \in {"none", "stop", "max_hold"}
  <2> HIDE DEF pos, bar
  <2>1. bar.open \in Int /\ bar.close \in Int
    BY DEF bar
  <2> QED  BY <1>3, <2>1 DEF EvaluateExit, NoExit
<1>5. trail \in Int
  <2> HIDE DEF pos, gap, bar
  <2>1. bar.close \in Int /\ gap \in Int
    BY DEF bar, gap
  <2>2. Max({pos.stop, bar.close - gap}) \in Int
    BY <1>3, <2>1, MaxOfTwo
  <2> QED  BY <2>1, <2>2 DEF NextTrailingStop
<1>6. stop \in Int
  <2> HIDE DEF trail, exit, pos
  <2> QED  BY <1>3, <1>5
<1>7. bar.close \in Int
  OBVIOUS
<1>8. next \in PositionShape
  <2> HIDE DEF pos, bar, exit, stop
  <2>1. CASE exit = NoExit
    BY <1>2, <1>3, <1>6, <2>1 DEF PositionShape
  <2>2. CASE exit # NoExit
    BY <1>2, <1>3, <1>4, <2>2 DEF PositionShape
  <2> QED  BY <2>1, <2>2
<1> HIDE DEF next, stop, bar
<1> QED  BY <1>1, <1>2, <1>6, <1>7, <1>8 DEF WorkShape, MarkShapes

LEMMA ReadIsNumbers ==
    ASSUME Replayable, MarketInv, NEW p, NEW s \in Symbols, NEW d \in Dates, NEW day,
           ReadIn(p, s, d, day)
    PROVE  /\ BarAsRead(p, s, d) \in [{"open", "low", "close"} -> Int]
           /\ TrailGapAsRead(p, s, d) \in Int
<1> DEFINE M == Ahead(s, day)
           bar == BarAsRead(p, s, d)
<1>1. M \in Nat \ {0} /\ \A y : Quote(s, y, day) = y * M
  BY QuoteIsProduct
<1>2. \A k \in {"open", "low", "close"} : bars[s][d][k] * M \in Int
  <2>1. \A k \in {"open", "low", "close"} : bars[s][d][k] \in Int
    BY BarFacts
  <2> HIDE DEF M
  <2> QED  BY <1>1, <2>1
<1>3. bar = [k \in {"open", "low", "close"} |-> bars[s][d][k] * M]
  <2> HIDE DEF M, bar
  <2> QED  BY <1>1 DEF ReadIn, BarIn, bar
<1>4. TrailGapAsRead(p, s, d) = TrailGap * M /\ TrailGap \in Nat
  <2> HIDE DEF M
  <2> QED  BY <1>1, PricesAssumption DEF ReadIn
<1> HIDE DEF M, bar
<1> QED  BY <1>1, <1>2, <1>3, <1>4 DEF bar

LEMMA ScaledTrail ==
    ASSUME NEW x \in Nat, NEW c \in Nat, NEW g \in Nat, NEW m \in Nat \ {0}
    PROVE  NextTrailingStop(x * m, c * m, g * m) = NextTrailingStop(x, c, g) * m
<1>1. c * m - g * m = (c - g) * m /\ x * m \in Int /\ c - g \in Int
  BY ScalingKeepsOrder
<1>2. x * m = 0 <=> x = 0
  OBVIOUS
<1>3. Max({x, c - g}) = IF x >= c - g THEN x ELSE c - g
  BY <1>1, MaxOfTwo
<1>4. Max({x * m, (c - g) * m}) = IF x * m >= (c - g) * m THEN x * m ELSE (c - g) * m
  <2> DEFINE a == x * m
             b == (c - g) * m
  <2>1. a \in Int /\ b \in Int
    BY <1>1
  <2> HIDE DEF a, b
  <2>2. Max({a, b}) = IF a >= b THEN a ELSE b
    BY <2>1, MaxOfTwo
  <2> QED  BY <2>2 DEF a, b
<1>5. x * m >= (c - g) * m <=> x >= c - g
  BY <1>1, ScalingKeepsOrder
<1> HIDE DEF Max
<1> QED  BY <1>1, <1>2, <1>3, <1>4, <1>5 DEF NextTrailingStop

LEMMA SessionFits ==
    ASSUME Replayable, MarketInv, NEW v \in Verdicts, NEW day \in 0..LastDate,
           NEW w \in WorkShape, NEW old,
           w.position.status = "open", Fits(v, w.position, Merged(w.marks, old), day),
           NEW p, NEW d, d <= day,
           NextAfter(SymbolOf[v], w.position.marked, d), ReadIn(p, SymbolOf[v], d, day)
    PROVE  LET next == ReplaySession(p, SymbolOf[v], d, w)
           IN  /\ next \in WorkShape
               /\ next.position.marked = d
               /\ next.position.status \in {"open", "closed"}
               /\ Fits(v, next.position, Merged(next.marks, old), day)
<1> DEFINE s == SymbolOf[v]
           pos == w.position
           m == pos.marked
           bar == BarAsRead(p, s, d)
           gap == TrailGapAsRead(p, s, d)
           exit == EvaluateExit(bar, pos.stop, pos.held, pos.maxHold)
           stop == IF exit = NoExit /\ AtrKnown(p, s, d)
                   THEN NextTrailingStop(pos.stop, bar.close, gap)
                   ELSE pos.stop
           after == IF exit = NoExit
                    THEN [pos EXCEPT !.held = @ + 1, !.stop = stop, !.marked = d]
                    ELSE [pos EXCEPT !.status = "closed", !.exitDate = d, !.marked = d,
                                     !.exitPrice = exit.price, !.reason = exit.reason]
           now == [close |-> bar.close, stop |-> stop]
           next == ReplaySession(p, s, d, w)
           M == Ahead(s, day)
           x == StopInForce(v, d)
<1>1. next = [position |-> after, marks |-> [w.marks EXCEPT ![d] = now]]
  BY DEF ReplaySession
<1>2. /\ pos \in PositionShape /\ w.marks \in MarkShapes
      /\ d \in Dates /\ d \in Nat /\ d > 0 /\ s \in Symbols /\ m \in Nat /\ m < d
      /\ DateOf[v] \in Nat /\ DateOf[v] <= m /\ DateOf[v] # d
  BY SessionsAreDates, VerdictsAssumption, PricesAssumption
  DEF WorkShape, PositionShape, NextAfter, Fits
<1>3. M \in Nat \ {0} /\ \A y : Quote(s, y, day) = y * M
  BY QuoteIsProduct
<1>4. /\ bars[s][d] \in [open : Nat, low : Nat, close : Nat] /\ bars[s][d].close > TrailGap
      /\ TrailGap \in Nat \ {0}
  <2>1. bars[s][d] # NoBar
    BY DEF NextAfter, Sessions
  <2> QED  BY <1>2, <2>1, BarFacts, PricesAssumption
<1>5. TrueEntry(v) > 0 /\ FitsOpen(v, pos, day)
  BY DEF Fits
<1>6. /\ BarIn(bar, s, d, day)
      /\ gap = Quote(s, TrailGap, day)
      /\ AtrKnown(p, s, d) <=> HasAtr(s, d)
  BY DEF ReadIn
<1>7. pos.stop = Quote(s, StopInForce(v, m + 1), day)
      /\ pos.held = Cardinality(SessionsHeld(v, m)) /\ pos.exitDate = 0
  BY <1>5 DEF FitsOpen
<1>8. /\ StopInForce(v, m + 1) = x /\ x \in Nat
      /\ StopInForce(v, d + 1) =
            IF HasAtr(s, d) THEN NextTrailingStop(x, bars[s][d].close, TrailGap) ELSE x
  BY <1>2, <1>5, StopMoves
<1>9. ExitFits(exit, v, d, pos.maxHold, day)
  <2>1. pos.maxHold \in Nat
    BY <1>2 DEF PositionShape
  <2>2. NextAfter(s, m, d)
    OBVIOUS
  <2> HIDE DEF pos, bar, m
  <2> QED  BY <1>2, <1>5, <1>6, <1>7, <2>1, <2>2, ExitIsTrue
<1>10. /\ bar.close = bars[s][d].close * M /\ gap = TrailGap * M /\ pos.stop = x * M
  <2>1. bar.close = Quote(s, bars[s][d].close, day)
    <3> HIDE DEF bar
    <3> QED  BY <1>6 DEF BarIn
  <2>2. pos.stop = Quote(s, x, day)
    <3> HIDE DEF x, pos, m
    <3> QED  BY <1>7, <1>8
  <2> HIDE DEF M, bar, gap, pos, x
  <2> QED  BY <1>3, <1>6, <2>1, <2>2
<1>11. stop = Quote(s, StopInForce(v, IF exit = NoExit THEN d + 1 ELSE d), day)
  <2>1. NextTrailingStop(x * M, bars[s][d].close * M, TrailGap * M)
            = NextTrailingStop(x, bars[s][d].close, TrailGap) * M
    <3> DEFINE c == bars[s][d].close
    <3>1. c \in Nat /\ TrailGap \in Nat /\ x \in Nat /\ M \in Nat \ {0}
      BY <1>3, <1>4, <1>8
    <3> HIDE DEF x, M, c
    <3>2. NextTrailingStop(x * M, c * M, TrailGap * M)
            = NextTrailingStop(x, c, TrailGap) * M
      BY <3>1, ScaledTrail
    <3> QED  BY <3>2 DEF c
  <2>2. stop = IF exit = NoExit /\ HasAtr(s, d)
               THEN NextTrailingStop(x, bars[s][d].close, TrailGap) * M ELSE x * M
    <3>1. stop = IF exit = NoExit /\ HasAtr(s, d)
                 THEN NextTrailingStop(pos.stop, bar.close, gap) ELSE pos.stop
      <4> HIDE DEF exit, bar, gap, pos
      <4> QED  BY <1>6
    <3> HIDE DEF stop, exit, bar, gap, pos, x, M
    <3> QED  BY <1>10, <2>1, <3>1
  <2> HIDE DEF stop, exit, x, M
  <2> QED  BY <1>3, <1>8, <2>2 DEF x
<1>12. now # NoMark /\ bar.close = Quote(s, TrueClose(v, d), day)
  <2>1. bars[s][d].close * M # 0
    <3> HIDE DEF M
    <3> QED  BY <1>3, <1>4
  <2>2. TrueClose(v, d) = bars[s][d].close
    BY <1>2 DEF TrueClose
  <2> HIDE DEF M, bar, stop
  <2> QED  BY <1>3, <1>10, <2>1, <2>2 DEF NoMark
<1>13. Merged(next.marks, old) = [Merged(w.marks, old) EXCEPT ![d] = now]
  <2> HIDE DEF now, after, next
  <2>1. next.marks = [w.marks EXCEPT ![d] = now]
    BY <1>1
  <2>2. w.marks = [j \in Dates |-> w.marks[j]]
    BY <1>2 DEF MarkShapes
  <2> QED  BY <1>2, <1>12, <2>1, <2>2 DEF Merged
<1>14. /\ after.marked = d /\ after.entry = pos.entry /\ after.maxHold = pos.maxHold
       /\ after.stop = stop
       /\ exit = NoExit => after.status = "open" /\ after.exitDate = 0
                           /\ after.held = pos.held + 1
       /\ exit # NoExit => after.status = "closed" /\ after.exitDate = d
                           /\ after.exitPrice = exit.price /\ after.reason = exit.reason
  <2>1. CASE exit = NoExit
    <3> HIDE DEF exit, stop
    <3> QED  BY <1>2, <1>7, <2>1 DEF PositionShape
  <2>2. CASE exit # NoExit
    <3>1. stop = pos.stop
      BY <2>2
    <3> HIDE DEF exit, stop
    <3> QED  BY <1>2, <2>2, <3>1 DEF PositionShape
  <2> QED  BY <2>1, <2>2
<1>15. /\ SessionsHeld(v, d) = SessionsHeld(v, m) \cup {d} /\ d \notin SessionsHeld(v, m)
       /\ Cardinality(SessionsHeld(v, d)) = Cardinality(SessionsHeld(v, m)) + 1
  BY <1>2, HeldGrows
<1>16. TrueMarks(v, after, day) = [TrueMarks(v, pos, day) EXCEPT ![d] = now]
  <2> HIDE DEF after, now, pos
  <2>1. MarkedDays(v, after) = MarkedDays(v, pos) \cup {d}
    BY <1>14, <1>15 DEF MarkedDays, m
  <2>2. now = [close |-> Quote(s, TrueClose(v, d), day),
               stop |-> Quote(s, StopInForce(v, IF d = after.exitDate THEN d ELSE d + 1), day)]
    <3> HIDE DEF exit, stop, bar
    <3> QED  BY <1>2, <1>11, <1>12, <1>14 DEF now
  <2>3. d \in MarkedDays(v, after)
    BY <2>1
  <2>4. \A j \in Dates \ {d} : /\ j \in MarkedDays(v, after) <=> j \in MarkedDays(v, pos)
                               /\ j # after.exitDate /\ j # pos.exitDate
    <3> HIDE DEF exit
    <3> QED  BY <1>2, <1>7, <1>14, <2>1, SessionsAreDates
  <2> QED  BY <1>2, <2>2, <2>3, <2>4 DEF TrueMarks
<1>17. Fits(v, after, Merged(next.marks, old), day)
  <2>1. Merged(next.marks, old) = TrueMarks(v, after, day)
    <3> HIDE DEF after, next, now, pos
    <3>1. Merged(w.marks, old) = TrueMarks(v, pos, day)
      BY DEF Fits, pos
    <3> QED  BY <1>13, <1>16, <3>1
  <2>2. after.marked \in DateOf[v]..day /\ after.entry = Quote(s, TrueEntry(v), day)
    <3>1. pos.entry = Quote(s, TrueEntry(v), day)
      BY DEF Fits
    <3> HIDE DEF after, pos
    <3> QED  BY <1>2, <1>14, <3>1
  <2>3. \A j \in 1..(d - 1) : ~EndsUnder(v, j, pos.maxHold)
    <3> SUFFICES ASSUME NEW j \in 1..(d - 1) PROVE ~EndsUnder(v, j, pos.maxHold)
      OBVIOUS
    <3>1. CASE j \in 1..m
      BY <1>5, <3>1 DEF FitsOpen
    <3>2. CASE j \notin 1..m
      <4>1. j \notin Sessions(s)
        BY <1>2, <3>2 DEF NextAfter
      <4> QED  BY <4>1 DEF EndsUnder, SessionsHeld
    <3> QED  BY <3>1, <3>2
  <2>4. CASE exit = NoExit
    <3>1. \A j \in 1..d : ~EndsUnder(v, j, pos.maxHold)
      <4>1. ~EndsUnder(v, d, pos.maxHold)
        BY <1>9, <2>4 DEF ExitFits
      <4>2. \A j \in 1..d : j = d \/ j \in 1..(d - 1)
        BY <1>2
      <4> QED  BY <2>3, <4>1, <4>2
    <3>2. stop = Quote(s, StopInForce(v, d + 1), day)
      <4> HIDE DEF exit, stop
      <4> QED  BY <1>11, <2>4
    <3> HIDE DEF after, exit, pos, stop
    <3>3. FitsOpen(v, after, day)
      BY <1>7, <1>14, <1>15, <2>4, <3>1, <3>2 DEF FitsOpen
    <3>4. after.status = "open"
      BY <1>14, <2>4
    <3> QED  BY <1>5, <2>1, <2>2, <3>3, <3>4 DEF Fits
  <2>5. CASE exit # NoExit
    <3>1. stop = Quote(s, StopInForce(v, d), day)
      <4> HIDE DEF exit, stop
      <4> QED  BY <1>11, <2>5
    <3>2. EndsUnder(v, d, pos.maxHold)
      BY <1>9, <2>5 DEF ExitFits
    <3>3. /\ exit.reason = (IF StopHit(v, d) THEN "stop" ELSE "max_hold")
          /\ exit.price = Quote(s, TrueExit(v, d), day)
      BY <1>9, <2>5 DEF ExitFits
    <3> HIDE DEF after, exit, pos, stop
    <3>4. FitsClosed(v, after, day)
      BY <1>14, <2>3, <2>5, <3>1, <3>2, <3>3 DEF FitsClosed
    <3>5. after.status = "closed"
      BY <1>14, <2>5
    <3> QED  BY <1>5, <2>1, <2>2, <3>4, <3>5 DEF Fits
  <2> QED  BY <2>4, <2>5
<1>18. next \in WorkShape
  BY <1>2, ReadIsNumbers, SessionKeepsShape
<1> HIDE DEF after, exit, next
<1>19. next.position = after
  BY <1>1
<1>20. after.status \in {"open", "closed"}
  BY <1>14
<1> QED  BY <1>14, <1>17, <1>18, <1>19, <1>20 DEF next

(* The whole replay: after every day the work fits, and while the position  *)
(* is open no session that was read is left behind it.                      *)
LEMMA AdvanceFits ==
    ASSUME Replayable, MarketInv, NEW v \in Verdicts, NEW day \in 0..LastDate,
           NEW p, NEW work \in WorkShape, NEW old, NEW cut \in Nat,
           work.position.status = "open",
           Fits(v, work.position, Merged(work.marks, old), day),
           \A d \in p.sessions[SymbolOf[v]] : d \in Sessions(SymbolOf[v]) /\ d <= cut,
           \A d \in Sessions(SymbolOf[v]) : d <= cut => d \in p.sessions[SymbolOf[v]],
           \A d \in Sessions(SymbolOf[v]) :
                d > work.position.marked /\ d <= cut =>
                    d <= day /\ ReadIn(p, SymbolOf[v], d, day)
    PROVE  LET done == Advance(p, v, work)
           IN  /\ done \in WorkShape
               /\ done.position.status \in {"open", "closed"}
               /\ done.position.marked >= work.position.marked
               /\ Fits(v, done.position, Merged(done.marks, old), day)
               /\ done.position.status = "open" =>
                     \A d \in Sessions(SymbolOf[v]) : d <= cut => d <= done.position.marked
<1> DEFINE s == SymbolOf[v]
           m == work.position.marked
           sessions == SessionsToReplay(p, s, m)
           step == [d \in 1..LastDate |-> [x \in WorkShape |->
                        IF d \in sessions /\ x.position.status = "open"
                        THEN ReplaySession(p, s, d, x) ELSE x]]
           Is(f) == f = [d \in 0..LastDate |->
                        IF d = 0 THEN work
                        ELSE IF d \in sessions /\ f[d - 1].position.status = "open"
                             THEN ReplaySession(p, s, d, f[d - 1])
                             ELSE f[d - 1]]
           carried == CHOOSE f : Is(f)
<1>1. /\ LastDate \in Nat /\ s \in Symbols /\ m \in Nat
      /\ Sessions(s) \subseteq Dates /\ Dates = 1..LastDate
  <2>1. work.position.marked \in 0..LastDate
    BY DEF WorkShape, PositionShape
  <2> QED  BY <2>1, VerdictsAssumption, PricesAssumption, SessionsAreDates DEF Dates
<1>2. \A d : d \in sessions <=> d \in Sessions(s) /\ d > m /\ d <= cut
  BY DEF SessionsToReplay
<1>3. StaysIn(WorkShape, step, LastDate)
  <2> SUFFICES ASSUME NEW d \in 1..LastDate, NEW x \in WorkShape
               PROVE  step[d][x] \in WorkShape
    BY DEF StaysIn
  <2>1. CASE d \in sessions
    <3>1. d \in Dates /\ ReadIn(p, s, d, day)
      BY <1>1, <1>2, <2>1
    <3>2. ReplaySession(p, s, d, x) \in WorkShape
      BY <1>1, <3>1, ReadIsNumbers, SessionKeepsShape
    <3> QED  BY <3>2
  <2>2. CASE d \notin sessions
    BY <2>2
  <2> QED  BY <2>1, <2>2
<1>4. Is(carried)
  <2>1. PICK f \in [0..LastDate -> WorkShape] : Iterates(f, work, step, LastDate)
    <3> HIDE DEF step
    <3> QED  BY <1>1, <1>3, RecursionExists
  <2>2. \A d \in 1..LastDate :
            f[d] = IF d \in sessions /\ f[d - 1].position.status = "open"
                   THEN ReplaySession(p, s, d, f[d - 1]) ELSE f[d - 1]
    <3> SUFFICES ASSUME NEW d \in 1..LastDate
                 PROVE  f[d] = IF d \in sessions /\ f[d - 1].position.status = "open"
                               THEN ReplaySession(p, s, d, f[d - 1]) ELSE f[d - 1]
      OBVIOUS
    <3>1. f[d - 1] \in WorkShape /\ f[d] = step[d][f[d - 1]]
      BY <1>1, <2>1 DEF Iterates
    <3> QED  BY <3>1
  <2>3. f[0] = work
    BY <2>1 DEF Iterates
  <2>4. Is(f)
    <3> HIDE DEF sessions
    <3> QED  BY <2>1, <2>2, <2>3
  <2> HIDE DEF Is
  <2> QED  BY <2>4
<1>5. Advance(p, v, work) = carried[LastDate]
  BY DEF Advance
<1>6. /\ carried[0] = work
      /\ \A d \in 1..LastDate :
            carried[d] = IF d \in sessions /\ carried[d - 1].position.status = "open"
                         THEN ReplaySession(p, s, d, carried[d - 1]) ELSE carried[d - 1]
  <2> HIDE DEF carried, sessions
  <2> QED  BY <1>1, <1>4
<1> DEFINE Good(x, d) ==
              /\ x \in WorkShape /\ x.position.status \in {"open", "closed"}
              /\ x.position.marked >= m
              /\ Fits(v, x.position, Merged(x.marks, old), day)
              /\ x.position.status = "open" =>
                    /\ x.position.marked = m \/ x.position.marked <= d
                    /\ \A j \in Sessions(s) :
                          j <= d /\ j <= cut => j <= x.position.marked
           G == {d \in 0..LastDate : Good(carried[d], d)}
<1> HIDE DEF carried, step, Is
<1>7. 0 \in G
  <2>1. \A j \in Sessions(s) : ~(j <= 0)
    BY <1>1
  <2> QED  BY <1>1, <1>6, <2>1
<1>8. ASSUME NEW d \in 1..LastDate, d - 1 \in G
      PROVE  d \in G
  <2> DEFINE x == carried[d - 1]
  <2>1. Good(x, d - 1)
    BY <1>8
  <2>2. x.position.marked \in Nat
    BY <1>1, <2>1 DEF WorkShape, PositionShape
  <2>3. CASE d \in sessions /\ x.position.status = "open"
    <3>1. carried[d] = ReplaySession(p, s, d, x)
      BY <1>6, <2>3
    <3>2. NextAfter(s, x.position.marked, d)
      <4>1. d \in Sessions(s) /\ d > m /\ d <= cut
        BY <1>2, <2>3
      <4>2. x.position.marked < d
        BY <1>1, <2>1, <2>2, <2>3, <4>1
      <4>3. ASSUME NEW j \in Sessions(s), j < d PROVE j <= x.position.marked
        BY <1>1, <2>1, <2>3, <4>1, <4>3
      <4> QED  BY <4>1, <4>2, <4>3 DEF NextAfter
    <3>3. d <= day /\ ReadIn(p, s, d, day)
      BY <1>2, <2>3
    <3>4. /\ carried[d] \in WorkShape
          /\ carried[d].position.marked = d
          /\ carried[d].position.status \in {"open", "closed"}
          /\ Fits(v, carried[d].position, Merged(carried[d].marks, old), day)
      <4>1. /\ x \in WorkShape /\ x.position.status = "open"
            /\ Fits(v, x.position, Merged(x.marks, old), day)
        BY <2>1, <2>3
      <4> HIDE DEF x
      <4>2. LET next == ReplaySession(p, s, d, x)
            IN  /\ next \in WorkShape
                /\ next.position.marked = d
                /\ next.position.status \in {"open", "closed"}
                /\ Fits(v, next.position, Merged(next.marks, old), day)
        BY <3>2, <3>3, <4>1, SessionFits
      <4> QED  BY <3>1, <4>2
    <3>5. d >= m
      BY <1>1, <1>2, <2>3
    <3> QED  BY <3>4, <3>5
  <2>4. CASE ~(d \in sessions /\ x.position.status = "open")
    <3>1. carried[d] = x
      BY <1>6, <2>4
    <3>2. ASSUME x.position.status = "open", NEW j \in Sessions(s), j <= d, j <= cut
          PROVE  j <= x.position.marked
      <4>1. CASE j = d
        <5>1. d \notin sessions
          BY <2>4, <3>2
        <5>2. d <= m
          BY <1>1, <1>2, <3>2, <4>1, <5>1
        <5> QED  BY <1>1, <2>1, <2>2, <4>1, <5>2
      <4>2. CASE j # d
        BY <1>1, <2>1, <3>2, <4>2
      <4> QED  BY <4>1, <4>2
    <3>3. x.position.status = "open" => x.position.marked = m \/ x.position.marked <= d
      BY <1>1, <2>1, <2>2
    <3>4. Good(x, d)
      <4> HIDE DEF x
      <4> QED  BY <2>1, <3>2, <3>3
    <3> HIDE DEF Good
    <3> QED  BY <3>1, <3>4
  <2> QED  BY <2>3, <2>4
<1>9. \A d \in 0..LastDate : d \in G
  <2> HIDE DEF G
  <2> QED  BY <1>1, <1>7, <1>8, Induction
<1>10. Good(carried[LastDate], LastDate)
  <2> HIDE DEF Good
  <2> QED  BY <1>1, <1>9
<1>11. \A j \in Sessions(s) : j <= LastDate
  BY <1>1
<1> QED  BY <1>5, <1>10, <1>11

-----------------------------------------------------------------------------
(* What an update has read.  A symbol's bars and the splits they were       *)
(* divided by were cut at one day; the splits read afterwards add none that *)
(* a bar of the read could tell of.                                         *)
ReadAt(p, s, cut) ==
    /\ p.sessions[s] = {d \in Sessions(s) : d <= cut}
    /\ p.barSplits[s] = {e \in splits[s] : e <= cut}

SplitsAgree(p, s) == p.barSplits[s] \subseteq p.splits[s] /\ p.splits[s] \subseteq splits[s]

LEMMA SplitDaysAreSessions ==
    ASSUME Replayable, MarketInv, NEW s \in Symbols
    PROVE  splits[s] \subseteq Sessions(s) /\ splits[s] \subseteq Dates
<1>1. bars \in Histories /\ splits \in SplitSets
  BY DEF MarketInv
<1>2. splits[s] \subseteq Dates
  BY <1>1, PricesAssumption
<1>3. \A e \in splits[s] : bars[s][e] # NoBar
  BY <1>1 DEF Replayable, SplitsTrade
<1> QED  BY <1>2, <1>3 DEF Sessions

LEMMA ReadsAreInOneBasis ==
    ASSUME Replayable, MarketInv, NEW s \in Symbols, NEW cut \in 0..LastDate,
           NEW p, ReadAt(p, s, cut), NEW d \in Nat, d <= cut
    PROVE  ReadIn(p, s, d, cut)
<1>1. splits[s] \subseteq Nat /\ Sessions(s) \subseteq Nat /\ cut \in Nat
  BY SplitDaysAreSessions, SessionsAreDates
<1>2. {e \in splits[s] \ p.barSplits[s] : e > d} = {e \in splits[s] : e > cut}
  BY <1>1 DEF ReadAt
<1>3. Residue(p, s, d) = Ahead(s, cut)
  BY <1>2 DEF Residue, Ahead
<1>4. {j \in p.sessions[s] : j <= d} = {j \in Sessions(s) : j <= d}
  BY <1>1 DEF ReadAt
<1>5. \A x : Quote(s, x, cut) = x * Residue(p, s, d)
  BY <1>3 DEF Quote, Ahead
<1>6. BarIn(BarAsRead(p, s, d), s, d, cut)
  BY <1>5 DEF BarIn, BarAsRead
<1>7. TrailGapAsRead(p, s, d) = Quote(s, TrailGap, cut)
  BY <1>5 DEF TrailGapAsRead
<1>8. AtrKnown(p, s, d) <=> HasAtr(s, d)
  BY <1>4 DEF AtrKnown, HasAtr
<1> QED  BY <1>6, <1>7, <1>8 DEF ReadIn

(* The splits a position is re-based by are those between its day and the   *)
(* cut, and dividing by their product requotes every figure.                *)
LEMMA RebasingRequotes ==
    ASSUME Replayable, MarketInv, NEW s \in Symbols, NEW cut \in 0..LastDate,
           NEW p, ReadAt(p, s, cut), SplitsAgree(p, s), NEW m \in Nat
    PROVE  LET events == ApplicableSplits(p, s, m)
           IN  /\ m >= cut => events = {}
               /\ m <= cut => \A x \in Nat :
                     Quote(s, x, m) \div SplitFactor(events) = Quote(s, x, cut)
               /\ m <= cut /\ events = {} => Ahead(s, m) = Ahead(s, cut)
<1> DEFINE events == ApplicableSplits(p, s, m)
           ahead(d) == {e \in splits[s] : e > d}
<1>1. splits[s] \subseteq Nat /\ splits[s] \subseteq Sessions(s) /\ Sessions(s) \subseteq Nat
      /\ cut \in Nat
  BY SplitDaysAreSessions, SessionsAreDates
<1>2. events = {e \in splits[s] : m < e /\ e <= cut}
  <2>1. \A e \in splits[s] : e <= cut => e \in p.sessions[s] /\ e \in p.splits[s]
    BY <1>1 DEF ReadAt, SplitsAgree
  <2>2. \A e \in p.splits[s] : e \in splits[s]
    BY DEF SplitsAgree
  <2>3. \A d \in p.sessions[s] : d \in Nat /\ d <= cut
    BY <1>1 DEF ReadAt
  <2>4. \A e \in splits[s] : (\E d \in p.sessions[s] : e <= d) <=> e <= cut
    BY <1>1, <2>1, <2>3
  <2> QED  BY <1>1, <2>1, <2>2, <2>4 DEF ApplicableSplits
<1>3. m >= cut => events = {}
  BY <1>1, <1>2
<1>4. ASSUME m <= cut
      PROVE  Ahead(s, m) = SplitFactor(events) * Ahead(s, cut)
  <2>1. ahead(m) = events \cup ahead(cut) /\ events \cap ahead(cut) = {}
    BY <1>1, <1>2, <1>4
  <2> HIDE DEF events, ahead
  <2>2. SplitFactor(ahead(m)) = SplitFactor(events) * SplitFactor(ahead(cut))
    BY <2>1, SplitFactorOfUnion
  <2> QED  BY <2>2 DEF Ahead, ahead
<1>5. ASSUME m <= cut, NEW x \in Nat
      PROVE  Quote(s, x, m) \div SplitFactor(events) = Quote(s, x, cut)
  <2> DEFINE F == SplitFactor(events)
             A == Ahead(s, cut)
  <2>1. F \in Nat \ {0} /\ A \in Nat
    BY SplitFactorIsPositive, QuoteIsProduct
  <2>2. Quote(s, x, m) = x * (F * A) /\ Quote(s, x, cut) = x * A
    BY <1>4, <1>5, QuoteIsProduct
  <2> HIDE DEF F, A
  <2>3. (x * (F * A)) \div F = x * A
    BY <2>1, DivisionUndoesProduct
  <2> QED  BY <2>2, <2>3 DEF F
<1>6. ASSUME m <= cut, events = {} PROVE Ahead(s, m) = Ahead(s, cut)
  <2> DEFINE A == Ahead(s, cut)
  <2>1. A \in Nat /\ Ahead(s, m) = 1 * A
    BY <1>4, <1>6, SplitFactorOfNone, QuoteIsProduct
  <2> HIDE DEF A
  <2>2. 1 * A = A
    BY <2>1
  <2> QED  BY <2>1, <2>2 DEF A
<1> QED  BY <1>3, <1>5, <1>6

(* Two days with the same splits ahead quote alike.                         *)
LEMMA FitsRequoted ==
    ASSUME NEW v \in Verdicts, NEW q, NEW mk, NEW a \in Nat, NEW b \in Nat,
           q.marked <= b,
           Ahead(SymbolOf[v], a) = Ahead(SymbolOf[v], b), Fits(v, q, mk, a)
    PROVE  Fits(v, q, mk, b)
<1>1. \A x : Quote(SymbolOf[v], x, a) = Quote(SymbolOf[v], x, b)
  BY DEF Quote, Ahead
<1>2. q.marked \in DateOf[v]..b
  BY VerdictsAssumption, SessionsAreDates DEF Fits
<1>3. TrueMarks(v, q, a) = TrueMarks(v, q, b)
  BY <1>1 DEF TrueMarks
<1>4. FitsOpen(v, q, a) => FitsOpen(v, q, b)
  BY <1>1 DEF FitsOpen
<1>5. FitsClosed(v, q, a) => FitsClosed(v, q, b)
  BY <1>1 DEF FitsClosed
<1> QED  BY <1>1, <1>2, <1>3, <1>4, <1>5 DEF Fits

(* A marked day has a close and a stop.                                     *)
LEMMA MarkedFigures ==
    ASSUME Replayable, MarketInv, NEW v \in Verdicts, TrueEntry(v) > 0,
           NEW q, NEW d \in MarkedDays(v, q)
    PROVE  /\ d \in Dates
           /\ TrueClose(v, d) \in Nat \ {0}
           /\ StopInForce(v, d + 1) \in Nat
<1>1. /\ DateOf[v] \in Dates /\ SymbolOf[v] \in Symbols
      /\ Sessions(SymbolOf[v]) \subseteq Dates /\ Dates \subseteq Nat
  BY VerdictsAssumption, SessionsAreDates
<1>2. d \in Dates /\ (d = DateOf[v] \/ d \in Sessions(SymbolOf[v]))
  BY <1>1 DEF MarkedDays, SessionsHeld
<1>3. TrueClose(v, d) \in Nat \ {0}
  <2>1. CASE d = DateOf[v]
    BY <2>1, FrozenFacts DEF TrueClose
  <2>2. CASE d # DateOf[v]
    <3>1. bars[SymbolOf[v]][d] # NoBar
      BY <1>2, <2>2 DEF Sessions
    <3>2. /\ bars[SymbolOf[v]][d].close \in Nat
          /\ bars[SymbolOf[v]][d].close > TrailGap /\ TrailGap \in Nat
      BY <1>1, <1>2, <3>1, BarFacts, PricesAssumption
    <3> QED  BY <2>2, <3>2 DEF TrueClose
  <2> QED  BY <2>1, <2>2
<1>4. StopInForce(v, d + 1) \in Nat
  <2>1. d \in Nat
    BY <1>1, <1>2
  <2>2. d + 1 \in Int
    BY <2>1
  <2> QED  BY <2>2, StopInForceIsHighest
<1> QED  BY <1>2, <1>3, <1>4

LEMMA MergedWithNone ==
    ASSUME NEW mk \in MarkShapes
    PROVE  Merged(NoMarks, mk) = mk /\ NoMarks \in MarkShapes
BY DEF Merged, NoMarks, NoMark, MarkShapes

(* An open position, re-based, is in the dollars of the cut it is read at.  *)
LEMMA RebasedFits ==
    ASSUME Replayable, MarketInv, NEW v \in Verdicts,
           ledger[v] \in PositionShape, marks[v] \in MarkShapes,
           ledger[v].status = "open", Fits(v, ledger[v], marks[v], ledger[v].marked),
           NEW p, NEW cut \in 0..LastDate, ReadAt(p, SymbolOf[v], cut),
           SplitsAgree(p, SymbolOf[v]),
           NEW day, day = IF ledger[v].marked <= cut THEN cut ELSE ledger[v].marked
    PROVE  LET work == RebasedWork(p, v)
           IN  /\ work \in WorkShape
               /\ work.position.status = "open"
               /\ work.position.marked = ledger[v].marked
               /\ Fits(v, work.position, Merged(work.marks, marks[v]), day)
<1> DEFINE s == SymbolOf[v]
           old == ledger[v]
           m == ledger[v].marked
           events == ApplicableSplits(p, s, m)
           F == SplitFactor(events)
           work == RebasedWork(p, v)
           rebased == [old EXCEPT !.entry = @ \div F, !.stop = @ \div F]
           moved == [d \in Dates |-> [close |-> marks[v][d].close \div F,
                                      stop |-> marks[v][d].stop \div F]]
<1>1. s \in Symbols /\ m \in Nat /\ m \in 0..LastDate /\ LastDate \in Nat
  BY VerdictsAssumption, PricesAssumption DEF PositionShape
<1>2. F \in Nat \ {0}
  BY SplitFactorIsPositive
<1>3. /\ m >= cut => events = {}
      /\ m <= cut => \A x \in Nat : Quote(s, x, m) \div F = Quote(s, x, cut)
      /\ m <= cut /\ events = {} => Ahead(s, m) = Ahead(s, cut)
  BY <1>1, RebasingRequotes
<1>4. CASE events = {}
  <2>1. work = [position |-> old, marks |-> NoMarks]
    BY <1>4 DEF RebasedWork
  <2>2. Merged(work.marks, marks[v]) = marks[v] /\ work \in WorkShape
    BY <2>1, MergedWithNone DEF WorkShape
  <2>3. Fits(v, old, marks[v], day)
    <3>1. CASE m <= cut
      BY <1>1, <1>3, <1>4, <3>1, FitsRequoted
    <3>2. CASE ~(m <= cut)
      BY <3>2
    <3> QED  BY <3>1, <3>2
  <2> HIDE DEF work
  <2> QED  BY <2>1, <2>2, <2>3 DEF work
<1>5. CASE events # {}
  <2>1. m <= cut /\ day = cut
    BY <1>1, <1>3, <1>5
  <2>2. work = [position |-> rebased, marks |-> moved]
    BY <1>5 DEF RebasedWork, RebasePosition
  <2> HIDE DEF work, F, events
  <2>3. /\ rebased \in PositionShape /\ rebased.marked = m /\ rebased.exitDate = old.exitDate
        /\ rebased.maxHold = old.maxHold /\ rebased.held = old.held
        /\ rebased.status = "open"
        /\ rebased.entry = old.entry \div F /\ rebased.stop = old.stop \div F
    <3>1. old \in PositionShape /\ old.entry \in Int /\ old.stop \in Int
      BY DEF PositionShape
    <3>2. old.entry \div F \in Int /\ old.stop \div F \in Int
      BY <1>2, <3>1
    <3> DEFINE e == old.entry \div F
               g == old.stop \div F
    <3>3. old.status = "open" /\ rebased = [old EXCEPT !.entry = e, !.stop = g]
      OBVIOUS
    <3> HIDE DEF old, e, g, rebased
    <3>4. /\ rebased \in PositionShape /\ rebased.marked = old.marked
          /\ rebased.exitDate = old.exitDate /\ rebased.maxHold = old.maxHold
          /\ rebased.held = old.held /\ rebased.status = "open"
          /\ rebased.entry = e /\ rebased.stop = g
      BY <3>1, <3>2, <3>3 DEF PositionShape, e, g
    <3> QED  BY <3>4 DEF e, g, old
  <2>4. moved \in MarkShapes
    <3>1. \A d \in Dates : marks[v][d].close \in Int /\ marks[v][d].stop \in Int
      BY DEF MarkShapes
    <3> QED  BY <1>2, <3>1 DEF MarkShapes
  <2>5. TrueEntry(v) \in Nat /\ TrueEntry(v) > 0 /\ StopInForce(v, m + 1) \in Nat
    <3>1. m + 1 \in Int
      BY <1>1
    <3> QED  BY <3>1, FrozenFacts, StopInForceIsHighest DEF Fits
  <2>6. /\ rebased.entry = Quote(s, TrueEntry(v), cut)
        /\ rebased.stop = Quote(s, StopInForce(v, m + 1), cut)
    <3>1. /\ old.entry = Quote(s, TrueEntry(v), m)
          /\ old.stop = Quote(s, StopInForce(v, m + 1), m)
      BY DEF Fits, FitsOpen
    <3> HIDE DEF rebased
    <3> QED  BY <1>3, <2>1, <2>3, <2>5, <3>1
  <2>7. FitsOpen(v, rebased, cut)
    <3> HIDE DEF rebased
    <3> QED  BY <2>3, <2>6 DEF Fits, FitsOpen
  <2>8. MarkedDays(v, rebased) = MarkedDays(v, old)
    <3> HIDE DEF rebased
    <3> QED  BY <2>3 DEF MarkedDays
  <2>9. \A d \in Dates : ~(d \in MarkedDays(v, old)) =>
            marks[v][d] = NoMark /\ moved[d] = NoMark
    <3> SUFFICES ASSUME NEW d \in Dates, ~(d \in MarkedDays(v, old))
                 PROVE  marks[v][d] = NoMark /\ moved[d] = NoMark
      OBVIOUS
    <3>1. marks[v][d] = NoMark
      BY DEF Fits, TrueMarks
    <3>2. 0 \div F = 0
      BY <1>2
    <3> QED  BY <3>1, <3>2 DEF NoMark
  <2>10. \A d \in MarkedDays(v, old) :
            /\ moved[d] = [close |-> Quote(s, TrueClose(v, d), cut),
                           stop |-> Quote(s, StopInForce(v, d + 1), cut)]
            /\ moved[d] # NoMark
            /\ d \in Dates /\ d # old.exitDate
    <3> SUFFICES ASSUME NEW d \in MarkedDays(v, old)
                 PROVE  /\ moved[d] = [close |-> Quote(s, TrueClose(v, d), cut),
                                       stop |-> Quote(s, StopInForce(v, d + 1), cut)]
                        /\ moved[d] # NoMark
                        /\ d \in Dates /\ d # old.exitDate
      OBVIOUS
    <3>1. /\ d \in Dates /\ TrueClose(v, d) \in Nat \ {0} /\ StopInForce(v, d + 1) \in Nat
      BY <2>5, MarkedFigures
    <3>2. d # old.exitDate
      <4>1. old.exitDate = 0
        BY DEF Fits, FitsOpen
      <4> QED  BY <3>1, <4>1, SessionsAreDates
    <3>3. marks[v][d] = [close |-> Quote(s, TrueClose(v, d), m),
                         stop |-> Quote(s, StopInForce(v, d + 1), m)]
      BY <3>1, <3>2 DEF Fits, TrueMarks
    <3>4. moved[d] = [close |-> Quote(s, TrueClose(v, d), cut),
                      stop |-> Quote(s, StopInForce(v, d + 1), cut)]
      BY <1>3, <2>1, <3>1, <3>3
    <3>5. Quote(s, TrueClose(v, d), cut) # 0
      <4> DEFINE M == Ahead(s, cut)
                 c == TrueClose(v, d)
      <4>1. M \in Nat \ {0} /\ c \in Nat \ {0} /\ Quote(s, c, cut) = c * M
        BY <3>1, QuoteIsProduct
      <4> HIDE DEF M, c
      <4>2. c * M # 0
        BY <4>1
      <4> QED  BY <4>1, <4>2 DEF c
    <3> HIDE DEF moved
    <3> QED  BY <3>1, <3>2, <3>4, <3>5 DEF NoMark
  <2>11. Merged(moved, marks[v]) = TrueMarks(v, rebased, cut)
    <3> HIDE DEF moved, rebased
    <3> QED  BY <2>3, <2>8, <2>9, <2>10 DEF Merged, TrueMarks
  <2>12. cut >= m /\ m >= DateOf[v] /\ rebased.marked \in DateOf[v]..cut
    <3>1. m \in DateOf[v]..m /\ DateOf[v] \in Nat /\ cut \in Nat
      BY VerdictsAssumption, SessionsAreDates, <1>1 DEF Fits
    <3> HIDE DEF rebased
    <3> QED  BY <1>1, <2>1, <2>3, <3>1
  <2> HIDE DEF rebased, moved
  <2>13. Fits(v, rebased, Merged(moved, marks[v]), cut)
    BY <2>3, <2>5, <2>6, <2>7, <2>11, <2>12 DEF Fits
  <2> QED  BY <2>1, <2>2, <2>3, <2>4, <2>13 DEF WorkShape, work
<1> QED  BY <1>4, <1>5

(* A wrongly frozen price is told from the close by the tolerance.          *)
LEMMA MismatchIsSeen ==
    ASSUME NEW c \in Nat, NEW slip \in Nat, NEW m \in Nat \ {0}, c > 0, 200 * slip > c
    PROVE  IsEntryPriceBasisMismatch((c + slip) * m, c * m)
<1>1. (c + slip) * m - c * m = slip * m /\ c * m > 0 /\ slip * m > 0
      /\ c * m \in Nat /\ slip * m \in Nat /\ (c + slip) * m \in Nat
  OBVIOUS
<1>2. (200 * slip) * m > c * m /\ (200 * slip) * m = 200 * (slip * m)
  <2>1. (200 * slip) * m = 200 * (slip * m)
    OBVIOUS
  <2>2. ~((200 * slip) * m <= c * m)
    BY ScalingKeepsOrder
  <2>3. (200 * slip) * m \in Int /\ c * m \in Int
    OBVIOUS
  <2> QED  BY <2>1, <2>2, <2>3
<1>3. (c + slip) * m > c * m
  BY <1>1
<1> DEFINE e == (c + slip) * m
           b == c * m
           g == slip * m
<1>4. e > b /\ e - b = g /\ 200 * g > b /\ b > 0
  BY <1>1, <1>2, <1>3
<1> HIDE DEF e, b, g
<1>5. IsEntryPriceBasisMismatch(e, b)
  BY <1>4 DEF IsEntryPriceBasisMismatch
<1> QED  BY <1>5 DEF e, b

(* A position that is opened is in the dollars of the cut it is read at, or *)
(* of its own day where no bar of that day has been read.                   *)
LEMMA SeedFits ==
    ASSUME Replayable, MarketInv, NEW v \in Verdicts,
           NEW p, NEW cut \in 0..LastDate, ReadAt(p, SymbolOf[v], cut),
           SplitsAgree(p, SymbolOf[v]),
           p.hold \in Nat, p.side \in [Verdicts -> Sides \cup {"none"}],
           RiskEntry(v) > 0 \/ DateOf[v] \in p.sessions[SymbolOf[v]],
           FetchOutcomes = {"stored"} => DateOf[v] <= cut,
           NEW day, day = IF DateOf[v] <= cut THEN cut ELSE DateOf[v]
    PROVE  LET work == SeedPosition(p, v)
           IN  /\ work \in WorkShape
               /\ work.position.status = "open"
               /\ work.position.marked = DateOf[v]
               /\ Fits(v, work.position, Merged(work.marks, NoMarks), day)
<1> DEFINE s == SymbolOf[v]
           d == DateOf[v]
           events == ApplicableSplits(p, s, d)
           F == SplitFactor(events)
           M == Ahead(s, day)
           entry == EntryPrice(p, v)
           stop == EntryStop(p, v)
           work == SeedPosition(p, v)
           barClose == IF d \in p.sessions[s] THEN BarAsRead(p, s, d).close ELSE 0
           frozen == Quote(s, RiskEntry(v), d) \div F
<1>1. s \in Symbols /\ d \in Nat /\ d \in Dates /\ d > 0 /\ d \in 0..LastDate /\ cut \in Nat
      /\ TrailGap \in Nat /\ Slip \in Nat /\ LastDate \in Nat
  BY VerdictsAssumption, PricesAssumption, SessionsAreDates DEF Dates
<1>2. F \in Nat \ {0} /\ M \in Nat \ {0} /\ \A x : Quote(s, x, day) = x * M
  BY SplitFactorIsPositive, QuoteIsProduct
<1>3. \A x \in Nat : Quote(s, x, d) \div F = x * M
  <2>1. CASE d <= cut
    <3>1. \A x \in Nat : Quote(s, x, d) \div F = Quote(s, x, cut)
      BY <1>1, <2>1, RebasingRequotes
    <3>2. day = cut
      BY <2>1
    <3> HIDE DEF F, M
    <3> QED  BY <1>2, <3>1, <3>2
  <2>2. CASE ~(d <= cut)
    <3>1. events = {}
      BY <1>1, <2>2, RebasingRequotes
    <3>2. F = 1 /\ day = d
      BY <2>2, <3>1, SplitFactorOfNone
    <3>3. \A x \in Nat : x * M \in Nat
      <4> HIDE DEF M
      <4> QED  BY <1>2
    <3> HIDE DEF F, M
    <3> QED  BY <1>2, <3>2, <3>3
  <2> QED  BY <2>1, <2>2
<1>4. /\ RiskEntry(v) \in Nat /\ RiskStop(v) \in Nat /\ TrueEntry(v) \in Nat
      /\ d \in Sessions(s) =>
            TrueEntry(v) = bars[s][d].close /\ TrueEntry(v) > 0
      /\ d \notin Sessions(s) => TrueEntry(v) = RiskEntry(v)
      /\ Risk[v] \in {"nostop", "wrong"} => FetchOutcomes = {"stored"}
      /\ RiskStop(v) = 0 <=> Risk[v] \in {"nostop", "missing"}
      /\ RiskEntry(v) = 0 <=> Risk[v] = "missing"
      /\ Risk[v] \in {"full", "nostop"} => RiskEntry(v) = TrueEntry(v)
      /\ Risk[v] = "wrong" /\ TrueEntry(v) # RiskEntry(v) =>
            RiskEntry(v) = TrueEntry(v) + Slip /\ 200 * Slip > TrueEntry(v)
      /\ Risk[v] \in {"full", "nostop", "missing", "wrong"}
  BY FrozenFacts, VerdictsAssumption DEF RiskKinds
<1>5. d \in p.sessions[s] <=> d \in Sessions(s) /\ d <= cut
  BY DEF ReadAt
<1>6. d <= cut => ReadIn(p, s, d, cut)
  BY <1>1, ReadsAreInOneBasis
<1>7. ~(d <= cut) => Risk[v] = "full"
  BY <1>4, <1>5
<1>8. frozen = RiskEntry(v) * M
  <2> HIDE DEF F, M
  <2> QED  BY <1>3, <1>4
<1>9. barClose = IF d \in p.sessions[s] THEN bars[s][d].close * M ELSE 0
  <2>1. CASE d \in p.sessions[s]
    <3>1. BarIn(BarAsRead(p, s, d), s, d, cut) /\ day = cut
      BY <1>5, <1>6, <2>1 DEF ReadIn
    <3>2. BarAsRead(p, s, d).close = Quote(s, bars[s][d].close, day)
      BY <3>1 DEF BarIn
    <3> HIDE DEF M
    <3> QED  BY <1>2, <2>1, <3>2
  <2>2. CASE d \notin p.sessions[s]
    BY <2>2
  <2> QED  BY <2>1, <2>2
<1>10. entry = IF frozen = 0 \/ (barClose # 0 /\ IsEntryPriceBasisMismatch(frozen, barClose))
               THEN barClose ELSE frozen
  BY DEF EntryPrice
<1>11. entry = TrueEntry(v) * M /\ TrueEntry(v) > 0
  <2> HIDE DEF entry, frozen, barClose, M
  <2>1. frozen = 0 <=> RiskEntry(v) = 0
    BY <1>2, <1>4, <1>8
  <2>2. CASE d \in p.sessions[s]
    <3>1. barClose = TrueEntry(v) * M /\ TrueEntry(v) > 0
      BY <1>4, <1>5, <1>9, <2>2
    <3>2. CASE RiskEntry(v) = 0
      BY <1>10, <2>1, <3>1, <3>2
    <3>3. CASE RiskEntry(v) # 0 /\ RiskEntry(v) = TrueEntry(v)
      BY <1>8, <1>10, <3>1, <3>3
    <3>4. CASE RiskEntry(v) # 0 /\ RiskEntry(v) # TrueEntry(v)
      <4>1. RiskEntry(v) = TrueEntry(v) + Slip /\ 200 * Slip > TrueEntry(v)
        BY <1>4, <3>4
      <4>2. IsEntryPriceBasisMismatch(frozen, barClose)
        BY <1>1, <1>2, <1>4, <1>8, <3>1, <4>1, MismatchIsSeen
      <4>3. barClose # 0
        BY <1>2, <1>4, <3>1
      <4> QED  BY <1>10, <3>1, <4>2, <4>3
    <3> QED  BY <3>2, <3>3, <3>4
  <2>3. CASE d \notin p.sessions[s]
    <3>1. RiskEntry(v) > 0 /\ barClose = 0
      BY <1>9, <2>3
    <3>2. RiskEntry(v) = TrueEntry(v)
      BY <1>4, <1>5, <1>7, <2>3
    <3> QED  BY <1>4, <1>8, <1>10, <2>1, <3>1, <3>2
  <2> QED  BY <2>2, <2>3
<1>12. /\ TrueFirstStop(v) \in Nat
       /\ TrueFirstStop(v) = IF RiskStop(v) # 0 THEN RiskStop(v)
                             ELSE IF HasAtr(s, d) THEN TrueEntry(v) - TrailGap ELSE 0
  BY <1>11, FrozenFacts DEF TrueFirstStop
<1>13. stop = TrueFirstStop(v) * M
  <2> HIDE DEF M, F
  <2>1. CASE RiskStop(v) # 0
    <3>1. stop = Quote(s, RiskStop(v), d) \div F
      BY <2>1 DEF EntryStop, F
    <3> QED  BY <1>3, <1>4, <1>12, <2>1, <3>1
  <2>2. CASE RiskStop(v) = 0
    <3>1. d <= cut /\ day = cut
      BY <1>4, <1>7, <2>2
    <3>2. /\ AtrKnown(p, s, d) <=> HasAtr(s, d)
          /\ TrailGapAsRead(p, s, d) = TrailGap * M
      BY <1>2, <1>6, <3>1 DEF ReadIn
    <3>3. stop = IF AtrKnown(p, s, d) THEN entry - TrailGapAsRead(p, s, d) ELSE 0
      BY <2>2 DEF EntryStop, InitialStopPrice, NextTrailingStop
    <3>4. TrueEntry(v) * M - TrailGap * M = (TrueEntry(v) - TrailGap) * M /\ 0 = 0 * M
      BY <1>1, <1>2, <1>4, ScalingKeepsOrder
    <3> HIDE DEF stop, entry
    <3> QED  BY <1>11, <1>12, <2>2, <3>2, <3>3, <3>4
  <2> QED  BY <2>1, <2>2
<1> DEFINE position == [NoPosition EXCEPT !.status = "open", !.side = p.side[v],
                            !.entry = entry, !.stop = stop, !.maxHold = p.hold, !.marked = d]
           seeded == [NoMarks EXCEPT ![d] = [close |-> entry, stop |-> stop]]
<1>14. work = [position |-> position, marks |-> seeded]
  BY DEF SeedPosition
<1> HIDE DEF entry, stop, frozen, barClose, F, work
<1>15. entry \in Int /\ stop \in Int /\ entry # 0
  <2> HIDE DEF M
  <2> QED  BY <1>2, <1>4, <1>11, <1>12, <1>13
<1>16. /\ position \in PositionShape /\ position.status = "open" /\ position.marked = d
       /\ position.exitDate = 0 /\ position.held = 0 /\ position.maxHold = p.hold
       /\ position.entry = entry /\ position.stop = stop
  <2>1. 0 \in 0..LastDate
    BY <1>1
  <2>2. p.side[v] \in Sides \cup {"none"}
    OBVIOUS
  <2>3. /\ NoPosition \in PositionShape
        /\ NoPosition.exitDate = 0 /\ NoPosition.held = 0
    BY <2>1 DEF NoPosition, PositionShape
  <2> QED  BY <1>1, <1>15, <2>2, <2>3 DEF PositionShape
<1>17. seeded \in MarkShapes /\ Merged(seeded, NoMarks) = seeded
  <2> DEFINE first == [close |-> entry, stop |-> stop]
  <2>1. first \in [close : Int, stop : Int] /\ first # NoMark
    BY <1>15 DEF NoMark
  <2>2. seeded = [NoMarks EXCEPT ![d] = first]
    OBVIOUS
  <2>3. NoMarks \in MarkShapes
    BY DEF NoMarks, NoMark, MarkShapes
  <2> HIDE DEF first, seeded
  <2>4. seeded \in MarkShapes
    BY <1>1, <2>1, <2>2, <2>3 DEF MarkShapes
  <2>5. \A j \in Dates : seeded[j] = IF j = d THEN first ELSE NoMark
    BY <1>1, <2>2 DEF NoMarks
  <2>6. seeded = [j \in Dates |-> seeded[j]]
    BY <2>4 DEF MarkShapes
  <2>7. \A j \in Dates : (IF seeded[j] # NoMark THEN seeded[j] ELSE NoMarks[j]) = seeded[j]
    BY <2>1, <2>5 DEF NoMarks
  <2> QED  BY <2>4, <2>6, <2>7 DEF Merged
<1>18. SessionsHeld(v, d) = {} /\ \A j \in 1..d : ~(j \in SessionsHeld(v, LastDate))
  BY <1>1, SessionsAreDates DEF SessionsHeld
<1>19. StopInForce(v, d + 1) = TrueFirstStop(v)
  BY <1>11, StopStarts
<1>20. /\ entry = Quote(s, TrueEntry(v), day)
       /\ stop = Quote(s, StopInForce(v, d + 1), day)
  <2> HIDE DEF M
  <2> QED  BY <1>2, <1>11, <1>13, <1>19
<1>21. seeded = TrueMarks(v, position, day)
  <2> HIDE DEF position
  <2>1. MarkedDays(v, position) = {d}
    BY <1>16, <1>18 DEF MarkedDays
  <2> QED  BY <1>1, <1>16, <1>20, <2>1 DEF TrueMarks, TrueClose, NoMarks
<1> HIDE DEF position, seeded
<1>22. FitsOpen(v, position, day)
  <2>1. \A j \in 1..d : ~EndsUnder(v, j, position.maxHold)
    BY <1>18 DEF EndsUnder
  <2> QED  BY <1>16, <1>18, <1>20, <2>1, FS_EmptySet DEF FitsOpen
<1>23. position.marked \in DateOf[v]..day
  BY <1>1, <1>16
<1>24. Fits(v, position, Merged(seeded, NoMarks), day)
  BY <1>11, <1>16, <1>17, <1>20, <1>21, <1>22, <1>23 DEF Fits
<1> QED  BY <1>14, <1>16, <1>17, <1>24 DEF WorkShape, work

-----------------------------------------------------------------------------
(* What an update under way holds: each symbol's bars and splits as of one  *)
(* cut, splits that agree with them, and positions to open whose day is no  *)
(* later than its own and whose price is known.                             *)
Reads(p, s, cut) ==
    /\ ReadAt(p, s, cut)
    /\ cut <= recorded[s] /\ cut <= p.asOf
    /\ FetchOutcomes = {"stored"} => cut = p.asOf

MayOpen(p, v) ==
    /\ DateOf[v] <= p.asOf
    /\ RiskEntry(v) > 0 \/ DateOf[v] \in p.sessions[SymbolOf[v]]

PlanInv ==
    /\ plan.asOf \in 0..today
    /\ pc \in {"splits", "write"} =>
          \A s \in Symbols : \E cut \in 0..LastDate : Reads(plan, s, cut)
    /\ pc = "splits" => \A v \in plan.todo \ Tracked : DateOf[v] <= plan.asOf
    /\ pc = "write" =>
          /\ \A s \in Symbols : SplitsAgree(plan, s)
          /\ \A v \in plan.todo \ Tracked : MayOpen(plan, v)

FiguresInv ==
    /\ ledger \in [Verdicts -> PositionShape]
    /\ marks \in [Verdicts -> MarkShapes]

ReplayInv == LedgerInv /\ MarketInv /\ PlanInv /\ FiguresInv /\ FitsInv

(* What a write leaves: a position that fits, and the marks of both.        *)
LEMMA WriteFits ==
    ASSUME Replayable, ReplayInv, pc = "write", NEW v \in plan.todo
    PROVE  LET work == IF v \in Tracked THEN RebasedWork(plan, v) ELSE SeedPosition(plan, v)
               done == Advance(plan, v, work)
           IN  /\ done \in WorkShape
               /\ done.position.status \in {"open", "closed"}
               /\ \E day \in 0..LastDate :
                     /\ Fits(v, done.position, Merged(done.marks, marks[v]), day)
                     /\ done.position.status = "open" => day = done.position.marked
<1> DEFINE s == SymbolOf[v]
           p == plan
           m == IF v \in Tracked THEN ledger[v].marked ELSE DateOf[v]
           work == IF v \in Tracked THEN RebasedWork(plan, v) ELSE SeedPosition(plan, v)
           done == Advance(plan, v, work)
<1>1. LedgerInv /\ MarketInv /\ PlanInv /\ FiguresInv /\ FitsInv
  BY DEF ReplayInv
<1>2. v \in Verdicts /\ s \in Symbols /\ LastDate \in Nat /\ plan \in PlanType
  BY <1>1, VerdictsAssumption, PricesAssumption DEF LedgerInv, ShapeInv, PlanType
<1>3. PICK cut \in 0..LastDate : Reads(p, s, cut)
  BY <1>1, <1>2 DEF PlanInv
<1>4. ReadAt(p, s, cut) /\ SplitsAgree(p, s)
  BY <1>1, <1>2, <1>3 DEF PlanInv, Reads
<1>5. ledger[v] \in PositionShape /\ marks[v] \in MarkShapes
  BY <1>1, <1>2 DEF FiguresInv
<1>6. m \in 0..LastDate /\ cut \in Nat /\ m \in Nat
  <2>1. ledger[v].marked \in 0..LastDate /\ DateOf[v] \in 0..LastDate
    BY <1>2, <1>5, VerdictsAssumption DEF PositionShape, Dates
  <2> QED  BY <1>2, <2>1
<1> DEFINE day == IF m <= cut THEN cut ELSE m
<1>7. /\ work \in WorkShape
      /\ work.position.status = "open"
      /\ work.position.marked = m
      /\ Fits(v, work.position, Merged(work.marks, marks[v]), day)
  <2>1. CASE v \in Tracked
    <3>1. ledger[v].status = "open"
      BY <1>1, <1>2, <1>5, <2>1 DEF LedgerInv, WorkInv, Tracked, Closed, PositionShape
    <3>2. Fits(v, ledger[v], marks[v], ledger[v].marked)
      BY <1>1, <1>2, <2>1, <3>1 DEF FitsInv, Open
    <3>3. day = IF ledger[v].marked <= cut THEN cut ELSE ledger[v].marked
      BY <2>1
    <3> HIDE DEF day
    <3>4. LET w == RebasedWork(p, v)
          IN  /\ w \in WorkShape
              /\ w.position.status = "open"
              /\ w.position.marked = ledger[v].marked
              /\ Fits(v, w.position, Merged(w.marks, marks[v]), day)
      BY <1>1, <1>2, <1>4, <1>5, <3>1, <3>2, <3>3, RebasedFits
    <3> QED  BY <2>1, <3>4
  <2>2. CASE v \notin Tracked
    <3>1. marks[v] = NoMarks
      BY <1>1, <1>2, <2>2 DEF FitsInv
    <3>2. MayOpen(p, v)
      BY <1>1, <2>2 DEF PlanInv
    <3>3. /\ RiskEntry(v) > 0 \/ DateOf[v] \in p.sessions[s]
          /\ FetchOutcomes = {"stored"} => DateOf[v] <= cut
      BY <1>3, <3>2 DEF MayOpen, Reads
    <3>4. p.hold \in Nat /\ p.side \in [Verdicts -> Sides \cup {"none"}]
      <4>1. HoldRules \subseteq Nat
        BY PricesAssumption
      <4>2. plan.hold \in HoldRules \cup {0}
        BY <1>2 DEF PlanType
      <4>3. plan.hold \in Nat
        BY <4>1, <4>2
      <4>4. plan.side \in [Verdicts -> Sides \cup {"none"}]
        BY <1>2 DEF PlanType
      <4> QED  BY <4>3, <4>4
    <3>5. day = IF DateOf[v] <= cut THEN cut ELSE DateOf[v]
      BY <2>2
    <3> HIDE DEF day
    <3>6. LET w == SeedPosition(p, v)
          IN  /\ w \in WorkShape
              /\ w.position.status = "open"
              /\ w.position.marked = DateOf[v]
              /\ Fits(v, w.position, Merged(w.marks, NoMarks), day)
      BY <1>1, <1>2, <1>4, <3>3, <3>4, <3>5, SeedFits
    <3> QED  BY <2>2, <3>1, <3>6
  <2> QED  BY <2>1, <2>2
<1>8. day \in 0..LastDate /\ day \in Nat
  BY <1>2, <1>6
<1>9. /\ \A d \in p.sessions[s] : d \in Sessions(s) /\ d <= cut
      /\ \A d \in Sessions(s) : d <= cut => d \in p.sessions[s]
  BY <1>4 DEF ReadAt
<1>10. \A d \in Sessions(s) : d > m /\ d <= cut => d <= day /\ ReadIn(p, s, d, day)
  <2> SUFFICES ASSUME NEW d \in Sessions(s), d > m, d <= cut
               PROVE  d <= day /\ ReadIn(p, s, d, day)
    OBVIOUS
  <2>1. d \in Nat
    BY SessionsAreDates
  <2>2. day = cut
    BY <1>6, <2>1
  <2>3. ReadIn(p, s, d, cut)
    BY <1>1, <1>2, <1>4, <2>1, ReadsAreInOneBasis
  <2> QED  BY <2>2, <2>3
<1> HIDE DEF work, m, day
<1>11. /\ done \in WorkShape
       /\ done.position.status \in {"open", "closed"}
       /\ done.position.marked >= m
       /\ Fits(v, done.position, Merged(done.marks, marks[v]), day)
       /\ done.position.status = "open" =>
             \A d \in Sessions(s) : d <= cut => d <= done.position.marked
  <2>1. \A d \in Sessions(s) :
            d > work.position.marked /\ d <= cut => d <= day /\ ReadIn(p, s, d, day)
    BY <1>7, <1>10
  <2>2. LET w == Advance(p, v, work)
        IN  /\ w \in WorkShape
            /\ w.position.status \in {"open", "closed"}
            /\ w.position.marked >= work.position.marked
            /\ Fits(v, w.position, Merged(w.marks, marks[v]), day)
            /\ w.position.status = "open" =>
                  \A d \in Sessions(s) : d <= cut => d <= w.position.marked
    BY <1>1, <1>2, <1>6, <1>7, <1>8, <1>9, <2>1, AdvanceFits
  <2> QED  BY <1>7, <2>2
<1> HIDE DEF done
<1>12. ASSUME done.position.status = "open"
       PROVE  /\ done.position.marked \in 0..LastDate
              /\ Fits(v, done.position, Merged(done.marks, marks[v]), done.position.marked)
  <2> DEFINE q == done.position
  <2>1. q.marked \in 0..LastDate /\ q.marked \in Nat /\ q.marked <= day
    BY <1>2, <1>8, <1>11, VerdictsAssumption, SessionsAreDates
    DEF WorkShape, PositionShape, Fits
  <2>2. splits[s] \subseteq Sessions(s) /\ splits[s] \subseteq Nat
    BY <1>1, <1>2, SplitDaysAreSessions, SessionsAreDates
  <2>3. \A e \in splits[s] : e > q.marked <=> e > day
    <3>1. \A e \in splits[s] : e <= cut => e <= q.marked
      BY <1>11, <1>12, <2>2
    <3> QED  BY <1>6, <1>8, <1>11, <2>1, <2>2, <3>1 DEF day
  <2>4. Ahead(s, day) = Ahead(s, q.marked)
    <3>1. {e \in splits[s] : e > day} = {e \in splits[s] : e > q.marked}
      BY <2>3
    <3> QED  BY <3>1 DEF Ahead
  <2> QED  BY <1>2, <1>8, <1>11, <2>1, <2>4, FitsRequoted
<1>13. \E b \in 0..LastDate :
          /\ Fits(v, done.position, Merged(done.marks, marks[v]), b)
          /\ done.position.status = "open" => b = done.position.marked
  BY <1>8, <1>11, <1>12
<1> QED  BY <1>11, <1>13 DEF done, work

-----------------------------------------------------------------------------
(* What a position should be depends on prices and splits alone.            *)
LEMMA FitsUnchanged ==
    ASSUME bars' = bars, splits' = splits, NEW v, NEW q, NEW mk, NEW day
    PROVE  Fits(v, q, mk, day)' <=> Fits(v, q, mk, day)
<1>1. \A x, d : Quote(SymbolOf[v], x, d)' = Quote(SymbolOf[v], x, d)
  BY DEF Quote
<1>2. TrueEntry(v)' = TrueEntry(v)
  BY DEF TrueEntry, RiskEntry
<1>3. \A s : Sessions(s)' = Sessions(s)
  BY DEF Sessions
<1>4. \A d : SessionsHeld(v, d)' = SessionsHeld(v, d)
  BY <1>3 DEF SessionsHeld
<1>5. \A s, d : HasAtr(s, d)' <=> HasAtr(s, d)
  BY <1>3 DEF HasAtr
<1>6. RiskStop(v)' = RiskStop(v)
  BY DEF RiskStop, RiskEntry
<1>7. TrueFirstStop(v)' = TrueFirstStop(v)
  BY <1>2, <1>5, <1>6 DEF TrueFirstStop
<1>8. \A d : StopInForce(v, d)' = StopInForce(v, d)
  BY <1>4, <1>5, <1>7 DEF StopInForce
<1>9. \A d : StopHit(v, d)' <=> StopHit(v, d)
  BY <1>8 DEF StopHit
<1>10. \A d, n : EndsUnder(v, d, n)' <=> EndsUnder(v, d, n)
  BY <1>4, <1>9 DEF EndsUnder
<1>11. \A d : TrueExit(v, d)' = TrueExit(v, d)
  BY <1>8, <1>9 DEF TrueExit
<1>12. TrueMarks(v, q, day)' = TrueMarks(v, q, day)
  BY <1>1, <1>2, <1>4, <1>8 DEF TrueMarks, MarkedDays, TrueClose
<1> QED  BY <1>1, <1>2, <1>4, <1>8, <1>9, <1>10, <1>11, <1>12 DEF Fits, FitsOpen, FitsClosed


LEMMA PlanReadsUnchanged ==
    ASSUME bars' = bars, splits' = splits, NEW p
    PROVE  /\ \A s, cut : ReadAt(p, s, cut)' <=> ReadAt(p, s, cut)
           /\ \A s : SplitsAgree(p, s)' <=> SplitsAgree(p, s)
           /\ \A v : MayOpen(p, v)' <=> MayOpen(p, v)
<1>1. \A s : Sessions(s)' = Sessions(s)
  BY DEF Sessions
<1>2. \A v : RiskEntry(v)' = RiskEntry(v)
  BY DEF RiskEntry
<1> QED  BY <1>1, <1>2 DEF ReadAt, SplitsAgree, MayOpen

LEMMA InitReplayInv == Init => ReplayInv
<1> SUFFICES ASSUME Init PROVE ReplayInv
  OBVIOUS
<1>1. LedgerInv
  BY InitLedgerInv
<1>2. LastDate \in Nat /\ Dates \subseteq Nat
  BY PricesAssumption, SessionsAreDates
<1>3. MarketInv
  BY <1>2 DEF Init, MarketInv
<1>4. PlanInv
  BY <1>2 DEF Init, PlanInv, NoPlan
<1>5. FiguresInv
  <2>1. NoPosition \in PositionShape
    BY <1>2 DEF NoPosition, PositionShape
  <2>2. NoMarks \in MarkShapes
    BY DEF NoMarks, NoMark, MarkShapes
  <2> QED  BY <2>1, <2>2 DEF Init, FiguresInv
<1>6. FitsInv
  <2>1. \A v \in Verdicts : v \notin Tracked /\ marks[v] = NoMarks
    BY DEF Init, Tracked, NoPosition
  <2> QED  BY <2>1 DEF FitsInv
<1> QED  BY <1>1, <1>3, <1>4, <1>5, <1>6 DEF ReplayInv

LEMMA MarketStep ==
    ASSUME Replayable, MarketInv, [Next]_vars
    PROVE  /\ MarketInv' /\ bars' = bars /\ splits' = splits
           /\ today' >= today /\ \A s \in Symbols : recorded'[s] >= recorded[s]
           /\ today' \in Nat /\ today \in Nat /\ recorded \in [Symbols -> Nat]
<1>1. /\ today \in 0..LastDate /\ LastDate \in Nat /\ today \in Nat
      /\ stored \in [Symbols -> 0..today] /\ recorded = stored
      /\ recorded \in [Symbols -> Nat]
  BY PricesAssumption DEF MarketInv
<1>2. CASE NextSession
  <2>1. PICK outcome \in [Symbols -> FetchOutcomes] :
          /\ recorded' = [s \in Symbols |->
                IF outcome[s] = "failed" THEN recorded[s] ELSE today + 1]
          /\ stored' = [s \in Symbols |->
                IF outcome[s] = "stored" THEN today + 1 ELSE stored[s]]
    BY <1>2 DEF NextSession
  <2>2. today < LastDate /\ today' = today + 1 /\ bars' = bars /\ splits' = splits
    BY <1>2 DEF NextSession
  <2>3. \A s \in Symbols : outcome[s] \in {"stored", "failed"}
    BY PricesAssumption DEF Replayable, ActionsComeWithBars
  <2>4. recorded' = stored' /\ stored' \in [Symbols -> 0..today']
    BY <1>1, <2>1, <2>2, <2>3
  <2>5. FetchOutcomes = {"stored"} => \A s \in Symbols : stored'[s] = today'
    BY <2>1, <2>2
  <2>6. \A s \in Symbols : recorded'[s] >= recorded[s]
    BY <1>1, <2>1, <2>2
  <2> QED  BY <1>1, <2>2, <2>4, <2>5, <2>6 DEF MarketInv
<1>3. CASE UNCHANGED market
  <2>1. UNCHANGED <<bars, splits, today, stored, recorded>>
    BY <1>3 DEF market
  <2> QED  BY <1>1, <2>1 DEF MarketInv
<1>4. NextSession \/ UNCHANGED market
  BY DEF Next, UpdateStep, vars, Collect, Configure, DailyUpdate, OperatorUpdate,
     BeginUpdate, BeginRebuild, PurgeOrphans, SyncRecommendations, ReadLedgerAndBars,
     ReadSplits, WritePosition, Crash, market
<1> QED  BY <1>2, <1>3, <1>4

(* A plan keeps what it has read while prices only arrive. *)
LEMMA ReadsStay ==
    ASSUME bars' = bars, splits' = splits,
           \A s \in Symbols : recorded'[s] >= recorded[s],
           recorded \in [Symbols -> Nat], recorded' \in [Symbols -> Nat],
           NEW p, NEW s \in Symbols, NEW cut \in Nat, Reads(p, s, cut),
           NEW q, q.sessions = p.sessions, q.barSplits = p.barSplits, q.asOf = p.asOf
    PROVE  Reads(q, s, cut)'
<1>1. ReadAt(q, s, cut)'
  <2>1. ReadAt(q, s, cut)
    BY DEF Reads, ReadAt
  <2> QED  BY <2>1, PlanReadsUnchanged
<1>2. cut <= recorded'[s]
  BY DEF Reads
<1> QED  BY <1>1, <1>2 DEF Reads

LEMMA PlanStep ==
    ASSUME Replayable, ReplayInv, [Next]_vars
    PROVE  PlanInv'
<1> USE DEF ReplayInv
<1>1. /\ bars' = bars /\ splits' = splits /\ today' >= today
      /\ \A s \in Symbols : recorded'[s] >= recorded[s]
      /\ today' \in Nat /\ today \in Nat /\ recorded \in [Symbols -> Nat]
      /\ recorded' \in [Symbols -> Nat]
  BY MarketStep DEF MarketInv
<1>2. LastDate \in Nat /\ plan \in PlanType /\ plan.asOf \in 0..today
  BY PricesAssumption DEF LedgerInv, ShapeInv, PlanInv
<1> DEFINE Kept ==
              /\ \A s \in Symbols, cut \in 0..LastDate :
                    Reads(plan, s, cut) => Reads(plan, s, cut)'
              /\ \A s \in Symbols : SplitsAgree(plan, s) => SplitsAgree(plan, s)'
<1>3. plan' = plan => Kept
  BY <1>1, <1>2, ReadsStay, PlanReadsUnchanged
<1>4. CASE plan' = plan /\ pc' = pc /\ Tracked' = Tracked
  <2>1. plan.asOf \in 0..today'
    BY <1>1, <1>2
  <2>2. Kept
    BY <1>3, <1>4
  <2>3. pc \in {"splits", "write"} =>
          \A s \in Symbols : \E cut \in 0..LastDate : Reads(plan, s, cut)'
    BY <2>2 DEF PlanInv
  <2>4. pc = "splits" => \A v \in plan.todo \ Tracked : DateOf[v] <= plan.asOf
    BY DEF PlanInv
  <2>5. pc = "write" =>
          /\ \A s \in Symbols : SplitsAgree(plan, s)'
          /\ \A v \in plan.todo \ Tracked : MayOpen(plan, v)'
    BY <1>1, <1>4, <2>2, PlanReadsUnchanged DEF PlanInv
  <2> HIDE DEF Kept
  <2> QED  BY <1>4, <2>1, <2>3, <2>4, <2>5 DEF PlanInv
<1>5. CASE pc' \notin {"splits", "write"} /\ plan'.asOf \in 0..today'
  BY <1>5 DEF PlanInv
<1>6. NoPlan.asOf \in 0..today'
  BY <1>1 DEF NoPlan
<1>7. CASE UNCHANGED vars \/ NextSession \/ Collect \/ Configure
  BY <1>4, <1>7 DEF vars, NextSession, Collect, Configure, Tracked
<1>8. ASSUME NEW a \in Nat, a <= today, BeginUpdate(a)
      PROVE  PlanInv'
  <2>1. plan'.asOf = a /\ pc' = "purge"
    BY <1>8 DEF BeginUpdate, NoPlan
  <2> QED  BY <1>1, <1>5, <1>8, <2>1
<1>9. CASE DailyUpdate
  BY <1>1, <1>8, <1>9 DEF DailyUpdate
<1>10. CASE OperatorUpdate
  <2>1. PICK a \in 1..(today - 1) : BeginUpdate(a)
    BY <1>10 DEF OperatorUpdate
  <2>2. a \in Nat /\ a <= today
    BY <1>1
  <2> QED  BY <1>8, <2>1, <2>2
<1>11. CASE BeginRebuild
  <2>1. PICK a \in (IF AnyAsOf THEN 1..today ELSE {today}) :
            plan' = [NoPlan EXCEPT !.asOf = a, !.hold = hold]
    BY <1>11 DEF BeginRebuild
  <2>2. plan'.asOf = a /\ a \in 0..today'
    BY <1>1, <2>1 DEF NoPlan
  <2>3. pc' = "purge"
    BY <1>11 DEF BeginRebuild
  <2> QED  BY <1>5, <2>2, <2>3
<1>12. CASE PurgeOrphans \/ SyncRecommendations
  <2>1. plan' = plan /\ pc' \in {"sync", "read"}
    BY <1>12 DEF PurgeOrphans, SyncRecommendations
  <2> QED  BY <1>1, <1>2, <1>5, <2>1
<1>13. CASE ReadLedgerAndBars
  <2> DEFINE todo == {v \in Judged \ Tracked : DateOf[v] <= plan.asOf}
                         \cup PositionsToCarry
             read == [s \in Symbols |-> StoredSessions(s, plan.asOf)]
             seen == [s \in Symbols |-> VisibleSplits(s, plan.asOf)]
  <2>1. \/ pc' = "idle" /\ plan' = NoPlan
        \/ pc' = "splits" /\ plan' = [plan EXCEPT !.todo = todo, !.side = verdicts,
                                          !.sessions = read, !.barSplits = seen]
    BY <1>13 DEF ReadLedgerAndBars
  <2>2. CASE pc' = "idle" /\ plan' = NoPlan
    BY <1>5, <1>6, <2>2
  <2>3. CASE pc' = "splits" /\ plan' = [plan EXCEPT !.todo = todo, !.side = verdicts,
                                            !.sessions = read, !.barSplits = seen]
    <3>1. /\ plan'.asOf = plan.asOf /\ plan'.todo = todo
          /\ plan'.sessions = read /\ plan'.barSplits = seen
      <4> HIDE DEF todo, read, seen
      <4> QED  BY <1>2, <2>3 DEF PlanType
    <3>2. UNCHANGED <<recorded, today, ledger>>
      BY <1>13 DEF ReadLedgerAndBars, market
    <3>3. ASSUME NEW s \in Symbols
          PROVE  \E cut \in 0..LastDate : Reads(plan, s, cut)'
      <4>1. /\ stored[s] \in 0..today /\ recorded[s] = stored[s]
            /\ today \in 0..LastDate
            /\ FetchOutcomes = {"stored"} => stored[s] = today
        BY DEF MarketInv
      <4> PICK cut \in 0..LastDate :
                cut = IF stored[s] <= plan.asOf THEN stored[s] ELSE plan.asOf
        BY <1>2, <4>1
      <4>2. /\ cut \in Nat /\ cut <= recorded[s] /\ cut <= plan.asOf
            /\ FetchOutcomes = {"stored"} => cut = plan.asOf
        BY <1>2, <4>1
      <4>3. /\ Sessions(s) \subseteq Dates /\ Dates \subseteq Nat
            /\ splits[s] \subseteq Nat
        BY SessionsAreDates, SplitDaysAreSessions
      <4>4. \A d \in Nat : d <= cut <=> d <= stored[s] /\ d <= plan.asOf
        BY <1>2, <4>1
      <4>5. read[s] = {d \in Sessions(s) : d <= cut}
        BY <4>3, <4>4 DEF StoredSessions, Sessions
      <4>6. seen[s] = {e \in splits[s] : e <= cut}
        BY <4>1, <4>3, <4>4 DEF VisibleSplits
      <4> DEFINE q == [plan EXCEPT !.sessions = read, !.barSplits = seen]
      <4>7. q.asOf = plan.asOf /\ q.sessions = read /\ q.barSplits = seen
        <5> HIDE DEF read, seen
        <5> QED  BY <1>2 DEF PlanType
      <4> HIDE DEF todo, read, seen, q
      <4>8. Reads(q, s, cut)
        BY <4>2, <4>5, <4>6, <4>7 DEF Reads, ReadAt
      <4>9. Reads(plan, s, cut)'
        BY <1>1, <3>1, <4>2, <4>7, <4>8, ReadsStay
      <4> QED  BY <4>9
    <3>4. \A v \in todo \ Tracked : DateOf[v] <= plan.asOf
      BY DEF PositionsToCarry, Open, Tracked
    <3>5. Tracked' = Tracked
      BY <3>2 DEF Tracked
    <3>6. plan'.asOf \in 0..today' /\ pc' = "splits"
      BY <1>2, <2>3, <3>1, <3>2
    <3> HIDE DEF todo, read, seen
    <3> QED  BY <3>1, <3>3, <3>4, <3>5, <3>6 DEF PlanInv
  <2> QED  BY <2>1, <2>2, <2>3
<1>14. CASE ReadSplits
  <2> DEFINE seen == [s \in Symbols |-> VisibleSplits(s, plan.asOf)]
             p == [plan EXCEPT !.splits = seen]
             todo == {v \in plan.todo : v \in Tracked \/ EntryPrice(p, v) > 0}
  <2>1. \/ pc' = "idle" /\ plan' = NoPlan
        \/ pc' = "write" /\ plan' = [p EXCEPT !.todo = todo]
    BY <1>14 DEF ReadSplits
  <2>2. CASE pc' = "idle" /\ plan' = NoPlan
    BY <1>5, <1>6, <2>2
  <2>3. CASE pc' = "write" /\ plan' = [p EXCEPT !.todo = todo]
    <3>1. /\ plan'.asOf = plan.asOf /\ plan'.todo = todo /\ plan'.splits = seen
          /\ plan'.sessions = plan.sessions /\ plan'.barSplits = plan.barSplits
      <4> HIDE DEF todo, seen
      <4> QED  BY <1>2, <2>3 DEF PlanType
    <3>2. UNCHANGED <<recorded, today, ledger>> /\ pc = "splits"
      BY <1>14 DEF ReadSplits, market
    <3>3. p.sessions = plan.sessions
      <4> HIDE DEF seen
      <4> QED  BY <1>2 DEF PlanType
    <3>4. ASSUME NEW s \in Symbols
          PROVE  /\ \E cut \in 0..LastDate : Reads(plan, s, cut)'
                 /\ SplitsAgree(plan, s)'
      <4>1. PICK cut \in 0..LastDate : Reads(plan, s, cut)
        BY <3>2 DEF PlanInv
      <4>2. cut \in Nat
        BY <1>2
      <4>3. splits[s] \subseteq Nat
        BY SplitDaysAreSessions, SessionsAreDates
      <4>4. seen[s] = {e \in splits[s] : e <= recorded[s] /\ e <= plan.asOf}
        BY DEF VisibleSplits
      <4>5. plan.barSplits[s] \subseteq seen[s] /\ seen[s] \subseteq splits[s]
        <5>1. plan.barSplits[s] = {e \in splits[s] : e <= cut}
              /\ cut <= recorded[s] /\ cut <= plan.asOf
          BY <4>1 DEF Reads, ReadAt
        <5>2. recorded[s] \in Nat /\ plan.asOf \in Nat /\ cut \in Nat
          BY <1>1, <1>2
        <5> HIDE DEF seen
        <5> QED  BY <4>3, <4>4, <5>1, <5>2
      <4> HIDE DEF seen, todo
      <4>6. Reads(plan, s, cut)'
        BY <1>1, <3>1, <4>1, <4>2, ReadsStay
      <4>7. SplitsAgree(plan, s)'
        BY <1>1, <3>1, <4>5 DEF SplitsAgree
      <4> QED  BY <4>6, <4>7
    <3>5. ASSUME NEW v \in todo \ Tracked
          PROVE  MayOpen(plan, v)'
      <4>1. DateOf[v] <= plan.asOf /\ EntryPrice(p, v) > 0 /\ v \in Verdicts
        BY <1>2, <3>2 DEF PlanInv, PlanType
      <4>2. RiskEntry(v) > 0 \/ DateOf[v] \in plan.sessions[SymbolOf[v]]
        <5> SUFFICES ASSUME ~(RiskEntry(v) > 0),
                            DateOf[v] \notin plan.sessions[SymbolOf[v]]
                     PROVE  FALSE
          OBVIOUS
        <5>1. RiskEntry(v) = 0
          BY <4>1, FrozenFacts
        <5> DEFINE F == SplitFactor(ApplicableSplits(p, SymbolOf[v], DateOf[v]))
        <5>2. F \in Nat \ {0}
          BY SplitFactorIsPositive
        <5>3. Quote(SymbolOf[v], 0, DateOf[v]) = 0
          <6> DEFINE A == Ahead(SymbolOf[v], DateOf[v])
          <6>1. A \in Nat /\ Quote(SymbolOf[v], 0, DateOf[v]) = 0 * A
            BY QuoteIsProduct
          <6> HIDE DEF A
          <6> QED  BY <6>1
        <5> HIDE DEF F, p
        <5>4. 0 \div F = 0
          BY <5>2
        <5>5. EntryPrice(p, v) = 0
          BY <3>3, <5>1, <5>3, <5>4 DEF EntryPrice, F
        <5> QED  BY <4>1, <5>5
      <4>3. RiskEntry(v)' = RiskEntry(v)
        BY <1>1 DEF RiskEntry
      <4> HIDE DEF todo, seen
      <4> QED  BY <3>1, <4>1, <4>2, <4>3 DEF MayOpen
    <3>6. Tracked' = Tracked
      BY <3>2 DEF Tracked
    <3>7. plan'.asOf \in 0..today' /\ pc' = "write"
      BY <1>2, <2>3, <3>1, <3>2
    <3> HIDE DEF todo, seen
    <3> QED  BY <3>1, <3>4, <3>5, <3>6, <3>7 DEF PlanInv
  <2> QED  BY <2>1, <2>2, <2>3
<1>15. CASE WritePosition
  <2>1. PICK v \in plan.todo :
            /\ \A w \in Verdicts : w # v => ledger'[w] = ledger[w]
            /\ \/ pc' = "idle" /\ plan' = NoPlan
               \/ pc' = "write" /\ plan' = [plan EXCEPT !.todo = plan.todo \ {v}]
    BY <1>15 DEF WritePosition, LedgerInv, ShapeInv
  <2>2. CASE pc' = "idle" /\ plan' = NoPlan
    BY <1>5, <1>6, <2>2
  <2>3. CASE pc' = "write" /\ plan' = [plan EXCEPT !.todo = plan.todo \ {v}]
    <3>1. /\ plan'.asOf = plan.asOf /\ plan'.todo = plan.todo \ {v}
          /\ plan'.sessions = plan.sessions /\ plan'.barSplits = plan.barSplits
          /\ plan'.splits = plan.splits
      BY <1>2, <2>3 DEF PlanType
    <3>2. UNCHANGED <<recorded, today>> /\ pc = "write"
      BY <1>15 DEF WritePosition, market
    <3>3. ASSUME NEW s \in Symbols
          PROVE  /\ \E cut \in 0..LastDate : Reads(plan, s, cut)'
                 /\ SplitsAgree(plan, s)'
      <4>1. PICK cut \in 0..LastDate : Reads(plan, s, cut)
        BY <3>2 DEF PlanInv
      <4>2. cut \in Nat
        BY <1>2
      <4>3. Reads(plan, s, cut)'
        BY <1>1, <3>1, <4>1, <4>2, ReadsStay
      <4>4. SplitsAgree(plan, s)
        BY <3>2 DEF PlanInv
      <4>5. SplitsAgree(plan, s)'
        BY <1>1, <3>1, <4>4 DEF SplitsAgree
      <4> QED  BY <4>3, <4>5
    <3>4. ASSUME NEW w \in plan'.todo \ Tracked'
          PROVE  MayOpen(plan, w)'
      <4>1. w \in plan.todo /\ w # v /\ w \in Verdicts
        BY <1>2, <3>1 DEF PlanType
      <4>2. w \notin Tracked
        BY <2>1, <4>1 DEF Tracked
      <4>3. MayOpen(plan, w)
        BY <3>2, <4>1, <4>2 DEF PlanInv
      <4>4. RiskEntry(w)' = RiskEntry(w)
        BY <1>1 DEF RiskEntry
      <4> QED  BY <3>1, <4>3, <4>4 DEF MayOpen
    <3>5. plan'.asOf \in 0..today'
      BY <1>2, <3>1, <3>2
    <3> QED  BY <2>3, <3>3, <3>4, <3>5 DEF PlanInv
  <2> QED  BY <2>1, <2>2, <2>3
<1>16. CASE Crash
  BY <1>5, <1>6, <1>16 DEF Crash
<1> QED
  BY <1>7, <1>9, <1>10, <1>11, <1>12, <1>13, <1>14, <1>15, <1>16 DEF Next, UpdateStep

(* What FitsInv says of one position and its marks.                         *)
Replayed(v, q, mk) ==
    IF q.status # "none"
    THEN \E day \in 0..LastDate :
            Fits(v, q, mk, day) /\ (q.status = "open" => day = q.marked)
    ELSE mk = NoMarks

LEMMA FitsInvIsReplayed == FitsInv <=> \A v \in Verdicts : Replayed(v, ledger[v], marks[v])
<1>1. ASSUME NEW v \in Verdicts
      PROVE  /\ v \in Tracked <=> ledger[v].status # "none"
             /\ v \in Open <=> ledger[v].status = "open"
  BY DEF Tracked, Open
<1> QED  BY <1>1 DEF FitsInv, Replayed

LEMMA ReplayedStays ==
    ASSUME bars' = bars, splits' = splits, NEW v, NEW q, NEW mk
    PROVE  Replayed(v, q, mk)' <=> Replayed(v, q, mk)
BY FitsUnchanged DEF Replayed

(* The side of a position is no part of its replay. *)
LEMMA ReplayedWhateverSide ==
    ASSUME NEW v, NEW q \in PositionShape, NEW mk, NEW side, Replayed(v, q, mk)
    PROVE  Replayed(v, [q EXCEPT !.side = side], mk)
<1> DEFINE r == [q EXCEPT !.side = side]
<1>1. /\ r.status = q.status /\ r.entry = q.entry /\ r.stop = q.stop /\ r.held = q.held
      /\ r.maxHold = q.maxHold /\ r.marked = q.marked /\ r.exitDate = q.exitDate
      /\ r.exitPrice = q.exitPrice /\ r.reason = q.reason
  BY DEF PositionShape
<1> HIDE DEF r
<1>2. \A day : Fits(v, q, mk, day) => Fits(v, r, mk, day)
  <2> SUFFICES ASSUME NEW day, Fits(v, q, mk, day) PROVE Fits(v, r, mk, day)
    OBVIOUS
  <2>1. MarkedDays(v, r) = MarkedDays(v, q)
    BY <1>1 DEF MarkedDays
  <2>2. TrueMarks(v, r, day) = TrueMarks(v, q, day)
    BY <1>1, <2>1 DEF TrueMarks
  <2>3. FitsOpen(v, q, day) => FitsOpen(v, r, day)
    BY <1>1 DEF FitsOpen
  <2>4. FitsClosed(v, q, day) => FitsClosed(v, r, day)
    BY <1>1 DEF FitsClosed
  <2> QED  BY <1>1, <2>2, <2>3, <2>4 DEF Fits
<1>3. Replayed(v, r, mk)
  BY <1>1, <1>2 DEF Replayed
<1> QED  BY <1>3 DEF r

LEMMA NothingIsReplayed ==
    ASSUME NEW v
    PROVE  /\ NoPosition \in PositionShape /\ NoMarks \in MarkShapes
           /\ Replayed(v, NoPosition, NoMarks)
<1>1. 0 \in 0..LastDate
  BY PricesAssumption
<1>2. NoPosition \in PositionShape
  BY <1>1 DEF NoPosition, PositionShape
<1>3. NoMarks \in MarkShapes
  BY DEF NoMarks, NoMark, MarkShapes
<1>4. NoPosition.status = "none"
  BY DEF NoPosition
<1> QED  BY <1>2, <1>3, <1>4 DEF Replayed

(* What one step makes of a verdict's position and marks.                   *)
LEMMA PositionStep ==
    ASSUME Replayable, ReplayInv, [Next]_vars, NEW v \in Verdicts
    PROVE  /\ ledger'[v] \in PositionShape /\ marks'[v] \in MarkShapes
           /\ Replayed(v, ledger'[v], marks'[v])
<1>1. /\ ledger[v] \in PositionShape /\ marks[v] \in MarkShapes
      /\ Replayed(v, ledger[v], marks[v])
  BY FitsInvIsReplayed DEF ReplayInv, FiguresInv
<1>2. ShapeInv /\ WorkInv /\ plan.todo \subseteq Verdicts
  BY DEF ReplayInv, LedgerInv, ShapeInv, PlanType
<1>3. CASE ledger'[v] = ledger[v] /\ marks'[v] = marks[v]
  BY <1>1, <1>3
<1>4. ASSUME NEW gone, DeletePositions(gone)
      PROVE  \/ ledger'[v] = ledger[v] /\ marks'[v] = marks[v]
             \/ ledger'[v] = NoPosition /\ marks'[v] = NoMarks
  BY <1>4 DEF DeletePositions
<1>5. CASE BeginRebuild \/ PurgeOrphans
  <2>1. PICK gone : DeletePositions(gone)
    BY <1>5 DEF BeginRebuild, PurgeOrphans
  <2> QED  BY <1>3, <1>4, <2>1, NothingIsReplayed
<1>6. CASE SyncRecommendations
  <2>1. marks'[v] = marks[v]
    BY <1>6 DEF SyncRecommendations
  <2>2. CASE v \in Tracked \cap Judged
    <3>1. ledger'[v] = [ledger[v] EXCEPT !.side = verdicts[v]]
      BY <1>6, <2>2 DEF SyncRecommendations
    <3>2. verdicts[v] \in Sides \cup {"none"}
      BY <1>2 DEF ShapeInv
    <3>3. ledger'[v] \in PositionShape
      BY <1>1, <3>1, <3>2 DEF PositionShape
    <3> QED  BY <1>1, <2>1, <3>1, <3>3, ReplayedWhateverSide
  <2>3. CASE v \notin Tracked \cap Judged
    <3>1. ledger'[v] = ledger[v]
      BY <1>6, <2>3 DEF SyncRecommendations
    <3> QED  BY <1>3, <2>1, <3>1
  <2> QED  BY <2>2, <2>3
<1>7. CASE WritePosition
  <2> DEFINE work(w) == IF w \in Tracked THEN RebasedWork(plan, w) ELSE SeedPosition(plan, w)
             done(w) == Advance(plan, w, work(w))
  <2>1. PICK w \in plan.todo :
            /\ ledger' = [ledger EXCEPT ![w] = done(w).position]
            /\ marks' = [marks EXCEPT ![w] = [d \in Dates |->
                    IF done(w).marks[d] # NoMark THEN done(w).marks[d] ELSE @[d]]]
    BY <1>7 DEF WritePosition
  <2>2. CASE v # w
    <3>1. ledger'[v] = ledger[v] /\ marks'[v] = marks[v]
      <4> HIDE DEF done
      <4> QED  BY <1>2, <2>1, <2>2 DEF ShapeInv
    <3> QED  BY <1>3, <3>1
  <2>3. CASE v = w
    <3>1. pc = "write"
      BY <1>7 DEF WritePosition
    <3>2. /\ done(v) \in WorkShape
          /\ done(v).position.status \in {"open", "closed"}
          /\ \E day \in 0..LastDate :
                /\ Fits(v, done(v).position, Merged(done(v).marks, marks[v]), day)
                /\ done(v).position.status = "open" => day = done(v).position.marked
      BY <2>3, <3>1, WriteFits
    <3> HIDE DEF done
    <3>3. ledger'[v] = done(v).position /\ marks'[v] = Merged(done(v).marks, marks[v])
      BY <1>2, <2>1, <2>3 DEF ShapeInv, Merged
    <3>4. done(v).position \in PositionShape /\ Merged(done(v).marks, marks[v]) \in MarkShapes
      <4>1. done(v).marks \in MarkShapes /\ done(v).position \in PositionShape
        BY <3>2 DEF WorkShape
      <4> QED  BY <1>1, <4>1 DEF Merged, MarkShapes
    <3>5. Replayed(v, done(v).position, Merged(done(v).marks, marks[v]))
      BY <3>2 DEF Replayed
    <3> QED  BY <3>3, <3>4, <3>5
  <2> QED  BY <2>2, <2>3
<1>8. CASE UNCHANGED <<ledger, marks>>
  BY <1>3, <1>8
<1> QED
  BY <1>5, <1>6, <1>7, <1>8
  DEF Next, UpdateStep, vars, NextSession, Collect, Configure, DailyUpdate,
      OperatorUpdate, BeginUpdate, ReadLedgerAndBars, ReadSplits, Crash

LEMMA StepKeepsReplay ==
    ASSUME Replayable, ReplayInv, [Next]_vars
    PROVE  ReplayInv'
<1>1. LedgerInv'
  BY StepKeepsShape, StepKeepsWork DEF ReplayInv, LedgerInv
<1>2. MarketInv' /\ bars' = bars /\ splits' = splits
  BY MarketStep DEF ReplayInv
<1>3. PlanInv'
  BY PlanStep
<1>4. FiguresInv'
  <2>1. /\ ledger' = [v \in Verdicts |-> ledger'[v]]
        /\ marks' = [v \in Verdicts |-> marks'[v]]
    BY <1>1 DEF LedgerInv, ShapeInv
  <2> QED  BY <2>1, PositionStep DEF FiguresInv
<1>5. FitsInv'
  <2>1. \A v \in Verdicts : Replayed(v, ledger[v], marks[v])'
    BY <1>2, PositionStep, ReplayedStays
  <2>2. FitsInv' <=> (\A v \in Verdicts : Replayed(v, ledger[v], marks[v])')
    <3>1. ASSUME NEW v \in Verdicts
          PROVE  /\ v \in Tracked' <=> ledger'[v].status # "none"
                 /\ v \in Open' <=> ledger'[v].status = "open"
      BY DEF Tracked, Open
    <3> QED  BY <3>1 DEF FitsInv, Replayed
  <2> QED  BY <2>1, <2>2
<1> QED  BY <1>1, <1>2, <1>3, <1>4, <1>5 DEF ReplayInv

(* In every reachable state the ledger is what its history says it is: an   *)
(* open position has the entry, the stop and the days held of a replay of   *)
(* its stored sessions in the dollars of its last one, a closed one was     *)
(* closed by the first session that ends it at the price of the exit rules, *)
(* and its marks are one a session, all in the same dollars; whatever the   *)
(* updates, splits, missed fetches, corrections, rebuilds and crashes, of   *)
(* every ledger whose circumstances are Replayable.                         *)
THEOREM LedgerReplaysItsHistory == ASSUME Replayable PROVE Spec => []LedgerMatchesReplay
<1>1. Init => ReplayInv
  BY InitReplayInv
<1>2. ReplayInv /\ [Next]_vars => ReplayInv'
  BY StepKeepsReplay
<1>3. ReplayInv => LedgerMatchesReplay
  BY FitsMeansReplay DEF ReplayInv
<1> QED  BY <1>1, <1>2, <1>3, PTL DEF Spec

=============================================================================
