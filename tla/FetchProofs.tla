----------------------------- MODULE FetchProofs -----------------------------
(***************************************************************************)
(* Theorems about what the daily run asks of its providers.                *)
(*                                                                         *)
(* Fundamentals: whatever the universe, the intervals, the landing delays  *)
(* and the lags of as_of, a run that is not cut short polls what is due,   *)
(* and what it was answered is in the store.  RequestThrottle: whatever    *)
(* the clients, accounts, intervals, delays and clocks, the rate of an     *)
(* account and the wait a 429 asks for are kept.  TextCollection: whatever *)
(* is listed and whatever fails, a text that a cap shortened says so.      *)
(***************************************************************************)
EXTENDS Fundamentals, RequestThrottle, TextCollection, SequenceTheorems,
        OrderFacts

(* Fundamentals: what the variables hold.                                  *)
Filed == [day : Nat, lands : Nat]
LogRows == [last : Nat, through : Nat, empties : Nat]
RunSteps ==
    [pc : {"idle", "fetch", "stamp", "done"}, asOf : Nat, today : Nat,
     queue : SUBSET DOMAIN Universe, records : SUBSET (Symbols \X Filed),
     fetched : SUBSET Symbols, empty : SUBSET Symbols, failed : SUBSET Symbols,
     cut : BOOLEAN]

FetchShape ==
    /\ today \in Nat
    /\ filings \in [Symbols -> SUBSET Filed]
    /\ collected \in [Symbols -> SUBSET Filed]
    /\ ingested \in [Symbols -> SUBSET Filed]
    /\ log \in [Symbols -> LogRows]
    /\ step \in RunSteps

(* Facts are not out before the filing, no row claims to cover a day that  *)
(* has not come, and a run evaluates no day after the one it began on.     *)
DatesInv ==
    /\ \A s \in Symbols : \A f \in filings[s] : f.lands # Never => f.day <= f.lands
    /\ \A s \in Symbols : collected[s] \subseteq filings[s]
    /\ \A s \in Symbols : log[s].through <= today
    /\ step.asOf <= step.today /\ step.today <= today

(* A fetch horizon means what it says: the facts that were out before it,  *)
(* of the filings in its window, are in the store.                         *)
CoverInv ==
    \A s \in Symbols : \A f \in filings[s] :
        /\ f.lands # Never
        /\ f.lands < log[s].through
        /\ f.day >= log[s].through - Lookback
        => f \in ingested[s]

(* The facts an answer to this run's poll cannot have left out.            *)
Answered(f) ==
    /\ f.lands # Never /\ f.lands <= step.today
    /\ f.day <= step.asOf /\ f.day >= step.asOf - Lookback

Left(s) == \E i \in step.queue : Universe[i] = s

(* The run asked about the symbol, or had no reason or no leave to.        *)
Handled(s) ==
    \/ s \in step.failed \cup step.fetched \cup step.empty
    \/ ~NeedsFetch(s, step.asOf, step.today)

RunInv ==
    /\ step.pc = "idle" => step = Idle
    /\ step.pc \in {"stamp", "done"} => step.queue = {}
    /\ \A r \in step.records : r[1] \in step.fetched
    /\ \A s \in step.fetched : \A f \in filings[s] :
          Answered(f) => IF step.pc = "fetch" THEN <<s, f>> \in step.records ELSE f \in ingested[s]
    /\ step.pc = "done" =>
          \A s \in step.empty : log[s].empties > 0 /\ log[s].last >= step.today
    /\ step.pc # "idle" /\ ~step.cut => \A s \in Symbols : Left(s) \/ Handled(s)

FetchInv == FetchShape /\ DatesInv /\ CoverInv /\ RunInv
-----------------------------------------------------------------------------
(* The newest of some filings is no older than any of them.                *)
LEMMA NewestIsNewest ==
    ASSUME NEW s \in Symbols, NEW known \in [Symbols -> SUBSET Filed], NEW asOf \in Nat
    PROVE  /\ NewestDay(s, known, asOf) \in Nat
           /\ \A f \in known[s] : f.day <= asOf => f.day <= NewestDay(s, known, asOf)
  <1> DEFINE D == {f.day : f \in {g \in known[s] : g.day <= asOf}} \cup {None}
  <1>1. D \in SUBSET Nat /\ D # {} /\ \A d \in D : d <= asOf
    BY DEF Filed, None
  <1>2. \A f \in known[s] : f.day <= asOf => f.day \in D
    OBVIOUS
  <1> HIDE DEF D
  <1>3. Max(D) \in D /\ \A d \in D : d <= Max(D)
    BY <1>1, GreatestNatural
  <1> QED BY <1>1, <1>2, <1>3 DEF NewestDay, D
-----------------------------------------------------------------------------
(* What a run decides from. *)

(* The gap after empty answers is never longer than the interval.          *)
LEMMA GapsAreBounded ==
    ASSUME NEW empties \in Nat
    PROVE  RefreshIntervalDays(empties) \in 1..RefreshInterval
  BY FundamentalsAssumption DEF RefreshIntervalDays

(* Whether a symbol needs a poll is settled while its row, what is known   *)
(* of its filings and the run's two dates stay.                            *)
LEMMA SameDecision ==
    ASSUME NEW s, log'[s] = log[s], collected'[s] = collected[s], ingested'[s] = ingested[s],
           step'.asOf = step.asOf, step'.today = step.today
    PROVE  NeedsFetch(s, step.asOf, step.today)' <=> NeedsFetch(s, step.asOf, step.today)
  <1>1. /\ NewestDay(s, collected, step.asOf)' = NewestDay(s, collected, step.asOf)
        /\ NewestDay(s, ingested, step.asOf)' = NewestDay(s, ingested, step.asOf)
    BY DEF NewestDay
  <1> QED BY <1>1 DEF NeedsFetch, IsDue, PollAllowed, HasPendingFiling, LatestFilingOn, LatestIngestedOn

(* The next position is one of those that are left.                        *)
LEMMA NextInQueue ==
    ASSUME NEW queue \in SUBSET DOMAIN Universe, queue # {}
    PROVE  FetchOrder(queue) \in queue
  <1> DEFINE held == {i \in queue : Universe[i] \in Held}
             pick == IF held # {} THEN held ELSE queue
  <1>1. pick \in SUBSET Nat /\ pick # {} /\ pick \subseteq queue
    <2>1. DOMAIN Universe \subseteq Nat
      BY FundamentalsAssumption
    <2> QED BY <2>1
  <1> HIDE DEF pick
  <1>2. Min(pick) \in pick
    BY <1>1, LeastNatural
  <1> QED BY <1>1, <1>2 DEF FetchOrder, pick
-----------------------------------------------------------------------------
(* The invariant is inductive. *)
LEMMA FetchStarts == Init => FetchInv
  <1> SUFFICES ASSUME Init PROVE FetchInv
    OBVIOUS
  <1>1. step = Idle /\ Idle \in RunSteps
    BY DEF Init, Idle, RunSteps, None
  <1>2. FetchShape
    BY <1>1 DEF Init, FetchShape, NoRow, LogRows, None, Filed
  <1>3. DatesInv
    BY <1>1 DEF Init, DatesInv, Idle, NoRow, None, Never
  <1>4. CoverInv
    BY DEF Init, CoverInv, NoRow, None, Never
  <1>5. RunInv
    BY <1>1 DEF RunInv, Idle
  <1> QED BY <1>2, <1>3, <1>4, <1>5 DEF FetchInv

(* A step of the run, of the calendar or of a backfill keeps it: the poll  *)
(* puts into the records what its answer holds, the upsert moves those to  *)
(* the store, and only then does the row claim the horizon.                *)
LEMMA FetchSteps == FetchInv /\ [Next]_vars => FetchInv'
  <1> SUFFICES ASSUME FetchInv, [Next]_vars PROVE FetchInv'
    OBVIOUS
  <1> USE FundamentalsAssumption
  <1>0. FetchShape /\ DatesInv /\ CoverInv /\ RunInv
    BY DEF FetchInv
  <1>a. ASSUME step' = Idle
        PROVE  RunInv' /\ step' \in RunSteps /\ step'.asOf = 0 /\ step'.today = 0
    BY <1>a DEF RunInv, Idle, RunSteps, None
  <1>1. CASE NextDay
    <2>1. today' = today + 1 /\ UNCHANGED <<filings, collected, ingested, log, step>>
      BY <1>1 DEF NextDay
    <2>2. RunInv'
      BY <1>0, <2>1, SameDecision DEF RunInv, Answered, Left, Handled
    <2>3. FetchShape' /\ CoverInv'
      BY <1>0, <2>1 DEF FetchShape, CoverInv
    <2>4. \A s \in Symbols : log[s].through <= today'
      <3>1. \A s \in Symbols : log[s].through \in Nat
        BY <1>0 DEF FetchShape, LogRows
      <3> QED BY <1>0, <2>1, <3>1 DEF FetchShape, DatesInv
    <2>5. step.today <= today'
      <3>1. step.today \in Nat
        BY <1>0 DEF FetchShape, RunSteps
      <3> QED BY <1>0, <2>1, <3>1 DEF FetchShape, DatesInv
    <2>6. DatesInv'
      BY <1>0, <2>1, <2>4, <2>5 DEF DatesInv
    <2> QED BY <2>2, <2>3, <2>6 DEF FetchInv
  <1>2. ASSUME NEW s \in Symbols, File(s) PROVE FetchInv'
    <2>1. PICK lands \in {today + d : d \in LandingDelays} \cup {Never} :
             filings' = [filings EXCEPT ![s] = filings[s] \cup {[day |-> today, lands |-> lands]}]
      BY <1>2 DEF File
    <2>2. UNCHANGED <<today, collected, ingested, log, step>> /\ step.pc = "idle"
      BY <1>2 DEF File
    <2> DEFINE new == [day |-> today, lands |-> lands]
    <2>3. new \in Filed /\ (lands # Never => today <= lands)
      BY <1>0, <2>1 DEF FetchShape, Filed, Never
    <2>4. \A q \in Symbols : filings'[q] \in SUBSET Filed /\ filings[q] \subseteq filings'[q]
                            /\ \A f \in filings'[q] : f \in filings[q] \/ f = new
      BY <1>0, <2>1, <2>3 DEF FetchShape
    <2>5. new.day = today /\ new.lands = lands
      OBVIOUS
    <2> HIDE DEF new
    <2>6. FetchShape'
      BY <1>0, <2>1, <2>2, <2>4 DEF FetchShape
    <2>7. DatesInv'
      BY <1>0, <2>2, <2>3, <2>4, <2>5 DEF DatesInv
    <2>8. CoverInv'
      <3> SUFFICES ASSUME NEW q \in Symbols, NEW f \in filings'[q], f.lands # Never,
                          f.lands < log[q].through, f.day >= log[q].through - Lookback
                   PROVE  f \in ingested[q]
        BY <2>2 DEF CoverInv
      <3>1. f # new
        BY <1>0, <2>3, <2>5 DEF DatesInv, FetchShape, LogRows, Filed, Never
      <3> QED BY <1>0, <2>4, <3>1 DEF CoverInv
    <2>9. RunInv'
      BY <1>0, <1>a, <2>2 DEF RunInv
    <2> QED BY <2>6, <2>7, <2>8, <2>9 DEF FetchInv
  <1>3. CASE Begin
    <2>1. PICK lag \in Lags :
             /\ lag < today
             /\ step' = [Idle EXCEPT !.pc = "fetch", !.asOf = today - lag,
                                     !.today = today, !.queue = DOMAIN Universe]
      BY <1>3 DEF Begin
    <2>2. UNCHANGED <<today, filings, collected, ingested, log>>
      BY <1>3 DEF Begin
    <2>3. step' = [pc |-> "fetch", asOf |-> today - lag, today |-> today,
                   queue |-> DOMAIN Universe, records |-> {},
                   fetched |-> {}, empty |-> {}, failed |-> {}, cut |-> FALSE]
      BY <2>1 DEF Idle
    <2>4. today - lag \in Nat /\ today - lag <= today
      BY <1>0, <2>1 DEF FetchShape
    <2>5. FetchShape'
      BY <1>0, <2>2, <2>3, <2>4 DEF FetchShape, RunSteps
    <2>6. DatesInv' /\ CoverInv'
      BY <1>0, <2>2, <2>3, <2>4 DEF DatesInv, CoverInv, FetchShape
    <2>7. RunInv'
      BY <2>3 DEF RunInv, Left, Symbols
    <2> QED BY <2>5, <2>6, <2>7 DEF FetchInv
  (* A fetch takes the next position; nothing else is known of it yet.     *)
  <1>b. ASSUME NEW s \in Symbols, Fetching(s)
        PROVE  /\ step.pc = "fetch"
               /\ \A q \in Symbols : q # s /\ Left(q) => \E i \in Rest : Universe[i] = q
               /\ Rest \subseteq step.queue
    <2>1. FetchOrder(step.queue) \in step.queue
      BY <1>0, <1>b, NextInQueue DEF Fetching, FetchShape, RunSteps
    <2> QED BY <2>1, <1>b DEF Fetching, Rest, Left
  (* What a step inside the loop over the symbols has to add.              *)
  <1>c. ASSUME UNCHANGED <<today, filings, collected, ingested, log>>,
               step.pc = "fetch", step' \in RunSteps, step'.pc = "fetch",
               step'.asOf = step.asOf, step'.today = step.today,
               \A r \in step'.records : r[1] \in step'.fetched,
               \A q \in step'.fetched : q \in step.fetched \/
                   \A f \in filings[q] : Answered(f) => <<q, f>> \in step'.records,
               step.records \subseteq step'.records,
               ~step'.cut => \A q \in Symbols : Left(q)' \/ Handled(q)'
        PROVE  FetchInv'
    <2>1. FetchShape' /\ DatesInv' /\ CoverInv'
      BY <1>0, <1>c DEF FetchShape, DatesInv, CoverInv
    <2>2. \A f : Answered(f)' <=> Answered(f)
      BY <1>c DEF Answered
    <2>3. RunInv'
      BY <1>0, <1>c, <2>2 DEF RunInv
    <2> QED BY <2>1, <2>3 DEF FetchInv
  (* Who was handled before still is, and the others are still to come.    *)
  <1>d. ASSUME UNCHANGED <<today, filings, collected, ingested, log>>,
               step'.asOf = step.asOf, step'.today = step.today, step'.cut = step.cut,
               step.pc = "fetch", step'.queue = Rest,
               step.failed \subseteq step'.failed, step.fetched \subseteq step'.fetched,
               step.empty \subseteq step'.empty,
               NEW s \in Symbols, Fetching(s), Handled(s)'
        PROVE  ~step'.cut => \A q \in Symbols : Left(q)' \/ Handled(q)'
    <2> SUFFICES ASSUME ~step'.cut, NEW q \in Symbols, q # s PROVE Left(q)' \/ Handled(q)'
      BY <1>d
    <2>1. CASE Left(q)
      BY <1>b, <1>d, <2>1 DEF Left
    <2>2. CASE Handled(q)
      BY <1>d, <2>2, SameDecision DEF Handled
    <2> QED BY <2>1, <2>2, <1>0, <1>d DEF RunInv
  <1>4. ASSUME NEW s \in Symbols, SkipFresh(s) PROVE FetchInv'
    <2>1. /\ Fetching(s) /\ ~NeedsFetch(s, step.asOf, step.today)
          /\ step' = [step EXCEPT !.queue = Rest]
          /\ UNCHANGED <<today, filings, collected, ingested, log>>
      BY <1>4 DEF SkipFresh
    <2>2. step.pc = "fetch" /\ Rest \subseteq step.queue
      BY <1>b, <2>1
    <2>3. /\ step' \in RunSteps /\ step'.pc = "fetch" /\ step'.queue = Rest
          /\ step'.asOf = step.asOf /\ step'.today = step.today /\ step'.cut = step.cut
          /\ step'.records = step.records /\ step'.fetched = step.fetched
          /\ step'.empty = step.empty /\ step'.failed = step.failed
      BY <1>0, <2>1, <2>2 DEF FetchShape, RunSteps
    <2>4. Handled(s)'
      BY <2>1, <2>3, SameDecision DEF Handled
    <2>5. ~step'.cut => \A q \in Symbols : Left(q)' \/ Handled(q)'
      BY <2>1, <2>2, <2>3, <2>4, <1>d
    <2> QED BY <2>1, <2>2, <2>3, <2>5, <1>0, <1>c DEF RunInv
  <1>5. ASSUME NEW s \in Symbols, FetchAnswers(s) PROVE FetchInv'
    <2> DEFINE facts == Facts(s, step.asOf, Lookback)
               found == {<<s, f>> : f \in facts}
    <2>1. /\ Fetching(s)
          /\ UNCHANGED <<today, filings, collected, ingested, log>>
          /\ \/ step' = [step EXCEPT !.queue = Rest, !.empty = step.empty \cup {s}]
             \/ step' = [step EXCEPT !.queue = Rest, !.fetched = step.fetched \cup {s},
                                     !.records = step.records \cup found]
      BY <1>5 DEF FetchAnswers
    <2>2. step.pc = "fetch" /\ Rest \subseteq step.queue
      BY <1>b, <2>1
    <2>3. found \subseteq Symbols \X Filed /\ \A r \in found : r[1] = s
      BY <1>0 DEF FetchShape, Facts
    <2>4. \A f \in filings[s] : Answered(f) => <<s, f>> \in found
      <3>1. \A f \in filings[s] : Answered(f) => f \in facts
        BY <1>0 DEF Answered, Facts, FetchShape, DatesInv, Filed, RunSteps
      <3> HIDE DEF facts
      <3> QED BY <3>1
    <2> HIDE DEF facts, found
    <2>5. CASE step' = [step EXCEPT !.queue = Rest, !.empty = step.empty \cup {s}]
      <3> DEFINE mid == [step EXCEPT !.queue = Rest]
                 empty == step.empty \cup {s}
      <3>1. mid \in RunSteps /\ mid.queue = Rest /\ mid.empty = step.empty
            /\ mid.pc = step.pc /\ mid.asOf = step.asOf /\ mid.today = step.today
            /\ mid.cut = step.cut /\ mid.records = step.records
            /\ mid.fetched = step.fetched /\ mid.failed = step.failed
        BY <1>0, <2>2 DEF FetchShape, RunSteps
      <3>2. step' = [mid EXCEPT !.empty = empty] /\ empty \in SUBSET Symbols
        BY <1>0, <2>5 DEF FetchShape, RunSteps
      <3>3. s \in empty /\ step.empty \subseteq empty
        OBVIOUS
      <3> HIDE DEF mid, empty
      <3>4. /\ step' \in RunSteps /\ step'.pc = "fetch" /\ step'.queue = Rest
            /\ step'.asOf = step.asOf /\ step'.today = step.today /\ step'.cut = step.cut
            /\ step'.records = step.records /\ step'.fetched = step.fetched
            /\ step'.empty = empty /\ step'.failed = step.failed
        BY <3>1, <3>2, <2>2 DEF RunSteps
      <3>5. Handled(s)'
        BY <3>3, <3>4 DEF Handled
      <3>6. ~step'.cut => \A q \in Symbols : Left(q)' \/ Handled(q)'
        BY <2>1, <2>2, <3>3, <3>4, <3>5, <1>d
      <3> QED BY <2>1, <2>2, <3>4, <3>6, <1>0, <1>c DEF RunInv
    <2>6. CASE step' = [step EXCEPT !.queue = Rest, !.fetched = step.fetched \cup {s},
                                    !.records = step.records \cup found]
      <3> DEFINE fetched == step.fetched \cup {s}
                 records == step.records \cup found
                 mid == [step EXCEPT !.queue = Rest]
                 late == [mid EXCEPT !.fetched = fetched]
      <3>1. mid \in RunSteps /\ mid.queue = Rest /\ mid.empty = step.empty
            /\ mid.pc = step.pc /\ mid.asOf = step.asOf /\ mid.today = step.today
            /\ mid.cut = step.cut /\ mid.records = step.records
            /\ mid.fetched = step.fetched /\ mid.failed = step.failed
        BY <1>0, <2>2 DEF FetchShape, RunSteps
      <3>2. fetched \in SUBSET Symbols /\ records \in SUBSET (Symbols \X Filed)
        BY <1>0, <2>3 DEF FetchShape, RunSteps
      <3>3. step' = [late EXCEPT !.records = records]
        BY <2>6
      <3>a. s \in fetched /\ step.fetched \subseteq fetched /\ step.records \subseteq records
            /\ found \subseteq records
            /\ (\A q \in fetched : q \in step.fetched \/ q = s)
            /\ (\A r \in records : r \in step.records \/ r \in found)
        OBVIOUS
      <3> HIDE DEF mid, fetched, records
      <3>4. late \in RunSteps /\ late.queue = Rest /\ late.empty = step.empty
            /\ late.pc = step.pc /\ late.asOf = step.asOf /\ late.today = step.today
            /\ late.cut = step.cut /\ late.records = step.records
            /\ late.fetched = fetched /\ late.failed = step.failed
        BY <3>1, <3>2 DEF RunSteps
      <3> HIDE DEF late
      <3>5. /\ step' \in RunSteps /\ step'.pc = "fetch" /\ step'.queue = Rest
            /\ step'.asOf = step.asOf /\ step'.today = step.today /\ step'.cut = step.cut
            /\ step'.records = records /\ step'.fetched = fetched
            /\ step'.empty = step.empty /\ step'.failed = step.failed
        BY <3>2, <3>3, <3>4, <2>2 DEF RunSteps
      <3>6. Handled(s)'
        BY <3>a, <3>5 DEF Handled
      <3>7. ~step'.cut => \A q \in Symbols : Left(q)' \/ Handled(q)'
        BY <2>1, <2>2, <3>a, <3>5, <3>6, <1>d
      <3>8. \A r \in step'.records : r[1] \in step'.fetched
        BY <3>a, <3>5, <2>3, <1>0 DEF RunInv
      <3>9. \A q \in step'.fetched : q \in step.fetched \/
                   \A f \in filings[q] : Answered(f) => <<q, f>> \in step'.records
        BY <3>a, <3>5, <2>4
      <3> QED BY <2>1, <2>2, <3>a, <3>5, <3>7, <3>8, <3>9, <1>c
    <2> QED BY <2>1, <2>5, <2>6
  <1>6. ASSUME NEW s \in Symbols, FetchFails(s) PROVE FetchInv'
    <2> DEFINE mid == [step EXCEPT !.queue = Rest]
               failed == step.failed \cup {s}
    <2>1. /\ Fetching(s)
          /\ step' = [mid EXCEPT !.failed = failed]
          /\ UNCHANGED <<today, filings, collected, ingested, log>>
      BY <1>6 DEF FetchFails
    <2>2. step.pc = "fetch" /\ Rest \subseteq step.queue
      BY <1>b, <2>1
    <2>3. mid \in RunSteps /\ mid.queue = Rest /\ mid.empty = step.empty
          /\ mid.pc = step.pc /\ mid.asOf = step.asOf /\ mid.today = step.today
          /\ mid.cut = step.cut /\ mid.records = step.records
          /\ mid.fetched = step.fetched /\ mid.failed = step.failed
      BY <1>0, <2>2 DEF FetchShape, RunSteps
    <2>4. failed \in SUBSET Symbols /\ s \in failed /\ step.failed \subseteq failed
      BY <1>0 DEF FetchShape, RunSteps
    <2> HIDE DEF mid, failed
    <2>5. /\ step' \in RunSteps /\ step'.pc = "fetch" /\ step'.queue = Rest
          /\ step'.asOf = step.asOf /\ step'.today = step.today /\ step'.cut = step.cut
          /\ step'.records = step.records /\ step'.fetched = step.fetched
          /\ step'.empty = step.empty /\ step'.failed = failed
      BY <2>1, <2>2, <2>3, <2>4 DEF RunSteps
    <2>6. Handled(s)'
      BY <2>4, <2>5 DEF Handled
    <2>7. ~step'.cut => \A q \in Symbols : Left(q)' \/ Handled(q)'
      BY <2>1, <2>2, <2>4, <2>5, <2>6, <1>d
    <2> QED BY <2>1, <2>2, <2>5, <2>7, <1>0, <1>c DEF RunInv
  <1>7. CASE BudgetExceeded
    <2> DEFINE mid == [step EXCEPT !.queue = {}]
    <2>1. /\ step.pc = "fetch"
          /\ step' = [mid EXCEPT !.cut = TRUE]
          /\ UNCHANGED <<today, filings, collected, ingested, log>>
      BY <1>7 DEF BudgetExceeded
    <2>2. mid \in RunSteps
          /\ mid.pc = step.pc /\ mid.asOf = step.asOf /\ mid.today = step.today
          /\ mid.records = step.records /\ mid.fetched = step.fetched
      BY <1>0 DEF FetchShape, RunSteps
    <2> HIDE DEF mid
    <2>3. /\ step' \in RunSteps /\ step'.pc = "fetch"
          /\ step'.asOf = step.asOf /\ step'.today = step.today /\ step'.cut
          /\ step'.records = step.records /\ step'.fetched = step.fetched
      BY <2>1, <2>2 DEF RunSteps
    <2> QED BY <2>1, <2>3, <1>0, <1>c DEF RunInv
  (* An upsert adds to what is in the store, of the records' symbols only. *)
  <1>e. ASSUME NEW records \in SUBSET (Symbols \X Filed), Upsert(records)
        PROVE  /\ ingested' \in [Symbols -> SUBSET Filed]
               /\ \A q \in Symbols : ingested[q] \subseteq ingested'[q]
               /\ \A q \in Symbols : \A f : <<q, f>> \in records => f \in ingested'[q]
               /\ \A q \in Symbols : (\A r \in records : r[1] # q) => ingested'[q] = ingested[q]
    <2>1. ingested' = [q \in Symbols |-> ingested[q] \cup {r[2] : r \in {p \in records : p[1] = q}}]
      BY <1>e DEF Upsert
    <2>2. \A r \in records : r[2] \in Filed
      OBVIOUS
    <2>3. \A q \in Symbols : \A f : <<q, f>> \in records => f \in {r[2] : r \in {p \in records : p[1] = q}}
      <3> TAKE q \in Symbols
      <3> TAKE f
      <3>1. <<q, f>>[1] = q /\ <<q, f>>[2] = f
        OBVIOUS
      <3> QED BY <3>1
    <2> QED BY <1>0, <2>1, <2>2, <2>3 DEF FetchShape
  <1>8. CASE UpsertFundamentals
    <2>1. /\ step.pc = "fetch" /\ step.queue = {} /\ Upsert(step.records)
          /\ step' = [step EXCEPT !.pc = "stamp"]
          /\ UNCHANGED <<today, filings, collected, log>>
      BY <1>8 DEF UpsertFundamentals
    <2>2. /\ step' \in RunSteps /\ step'.pc = "stamp" /\ step'.queue = {}
          /\ step'.asOf = step.asOf /\ step'.today = step.today /\ step'.cut = step.cut
          /\ step'.records = step.records /\ step'.fetched = step.fetched
          /\ step'.empty = step.empty /\ step'.failed = step.failed
      BY <1>0, <2>1 DEF FetchShape, RunSteps
    <2>3. step.records \in SUBSET (Symbols \X Filed)
      BY <1>0 DEF FetchShape, RunSteps
    <2>4. /\ ingested' \in [Symbols -> SUBSET Filed]
          /\ \A q \in Symbols : ingested[q] \subseteq ingested'[q]
          /\ \A q \in Symbols : \A f : <<q, f>> \in step.records => f \in ingested'[q]
          /\ \A q \in Symbols : (\A r \in step.records : r[1] # q) => ingested'[q] = ingested[q]
      BY <2>1, <2>3, <1>e
    <2>5. FetchShape' /\ DatesInv' /\ CoverInv'
      BY <1>0, <2>1, <2>2, <2>4 DEF FetchShape, DatesInv, CoverInv
    <2>6. \A q \in step.fetched : q \in Symbols /\ \A f \in filings[q] : Answered(f)' => f \in ingested'[q]
      BY <1>0, <2>1, <2>2, <2>4 DEF RunInv, Answered, FetchShape, RunSteps
    <2>7. ~step'.cut => \A q \in Symbols : Handled(q)'
      <3> SUFFICES ASSUME ~step.cut, NEW q \in Symbols PROVE Handled(q)'
        BY <2>2
      <3>1. Handled(q)
        BY <1>0, <2>1 DEF RunInv, Left
      <3>2. CASE q \in step.failed \cup step.fetched \cup step.empty
        BY <3>2, <2>2 DEF Handled
      <3>3. CASE q \notin step.fetched
        <4>1. ingested'[q] = ingested[q]
          BY <1>0, <2>4, <3>3 DEF RunInv
        <4> QED BY <4>1, <3>1, <2>1, <2>2, SameDecision DEF Handled
      <3> QED BY <3>2, <3>3
    <2>8. RunInv'
      BY <1>0, <2>1, <2>2, <2>6, <2>7 DEF RunInv
    <2> QED BY <2>5, <2>8 DEF FetchInv
  <1>9. CASE RecordFetches
    <2> DEFINE polled == step.fetched \cup step.empty
    <2>1. /\ step.pc = "stamp"
          /\ log' = [s \in Symbols |-> IF s \in polled THEN Stamp(s, step.asOf) ELSE log[s]]
          /\ step' = [step EXCEPT !.pc = "done"]
          /\ UNCHANGED <<today, filings, collected, ingested>>
      BY <1>9 DEF RecordFetches
    <2>2. /\ step' \in RunSteps /\ step'.pc = "done"
          /\ step'.asOf = step.asOf /\ step'.today = step.today /\ step'.cut = step.cut
          /\ step'.records = step.records /\ step'.fetched = step.fetched
          /\ step'.empty = step.empty /\ step'.failed = step.failed /\ step'.queue = step.queue
      BY <1>0, <2>1 DEF FetchShape, RunSteps
    <2>3. FetchHorizon(today, step.asOf) = step.asOf
      <3> DEFINE D == {today, step.asOf}
      <3>1. D \in SUBSET Nat /\ D # {} /\ step.asOf <= today
        BY <1>0 DEF FetchShape, RunSteps, DatesInv
      <3>2. Min(D) \in D /\ \A x \in D : Min(D) <= x
        BY <3>1, LeastNatural
      <3> QED BY <3>1, <3>2, <1>0 DEF FetchHorizon, FetchShape, RunSteps
    <2>4. \A s \in Symbols :
             /\ s \in step.empty =>
                   log'[s] = [last |-> today, through |-> log[s].through, empties |-> log[s].empties + 1]
             /\ s \in step.fetched \ step.empty =>
                   log'[s] = [last |-> today, through |-> step.asOf, empties |-> 0]
             /\ s \notin polled => log'[s] = log[s]
      BY <2>1, <2>3 DEF Stamp
    <2>a. \A s \in Symbols :
             /\ s \in step.empty =>
                   /\ log'[s] \in LogRows
                   /\ log'[s].last = today /\ log'[s].through = log[s].through
                   /\ log'[s].empties = log[s].empties + 1
             /\ s \in step.fetched \ step.empty =>
                   log'[s] \in LogRows /\ log'[s].last = today /\ log'[s].through = step.asOf
             /\ s \notin polled => log'[s] = log[s] /\ log'[s] \in LogRows
      <3> SUFFICES ASSUME NEW s \in Symbols
                   PROVE  /\ s \in step.empty =>
                                /\ log'[s] \in LogRows
                                /\ log'[s].last = today /\ log'[s].through = log[s].through
                                /\ log'[s].empties = log[s].empties + 1
                          /\ s \in step.fetched \ step.empty =>
                                log'[s] \in LogRows /\ log'[s].last = today /\ log'[s].through = step.asOf
                          /\ s \notin polled => log'[s] = log[s] /\ log'[s] \in LogRows
        OBVIOUS
      <3>1. today \in Nat /\ step.asOf \in Nat /\ log[s] \in LogRows
        BY <1>0 DEF FetchShape, RunSteps
      <3>2. CASE s \in step.empty
        <4>1. log'[s] = [last |-> today, through |-> log[s].through, empties |-> log[s].empties + 1]
          BY <3>2, <2>4
        <4>2. log[s].through \in Nat /\ log[s].empties + 1 \in Nat
          BY <3>1 DEF LogRows
        <4> QED BY <3>1, <3>2, <4>1, <4>2 DEF LogRows
      <3>3. CASE s \in step.fetched \ step.empty
        <4>1. log'[s] = [last |-> today, through |-> step.asOf, empties |-> 0]
          BY <3>3, <2>4
        <4> QED BY <3>1, <3>3, <4>1 DEF LogRows
      <3>4. CASE s \notin polled
        BY <3>1, <3>4, <2>4
      <3> QED BY <3>2, <3>3, <3>4
    <2>5. FetchShape'
      <3>1. \A s \in Symbols : log'[s] \in LogRows
        BY <2>a
      <3>2. log' \in [Symbols -> LogRows]
        BY <2>1, <3>1
      <3> QED BY <1>0, <2>1, <2>2, <3>2 DEF FetchShape
    <2>6. DatesInv'
      <3>1. \A s \in Symbols : log'[s].through \in {log[s].through, step.asOf}
        BY <2>a
      <3>2. step.asOf <= today
        BY <1>0 DEF DatesInv, FetchShape, RunSteps
      <3>3. \A s \in Symbols : log'[s].through <= today
        BY <1>0, <3>1, <3>2 DEF DatesInv
      <3> QED BY <1>0, <2>1, <2>2, <3>3 DEF DatesInv
    <2>7. CoverInv'
      <3> SUFFICES ASSUME NEW s \in Symbols, NEW f \in filings[s], f.lands # Never,
                          f.lands < log'[s].through, f.day >= log'[s].through - Lookback
                   PROVE  f \in ingested[s]
        BY <2>1 DEF CoverInv
      <3>1. CASE s \in step.fetched \ step.empty
        <4>1. log'[s].through = step.asOf
          BY <2>a, <3>1
        <4>2. Answered(f)
          BY <1>0, <4>1 DEF Answered, FetchShape, RunSteps, DatesInv, Filed
        <4> QED BY <1>0, <2>1, <3>1, <4>2 DEF RunInv
      <3>2. CASE s \notin step.fetched \ step.empty
        <4>1. log'[s].through = log[s].through
          BY <2>a, <3>2
        <4> QED BY <1>0, <4>1 DEF CoverInv
      <3> QED BY <3>1, <3>2
    <2>8. RunInv'
      <3>1. \A s \in step.empty : log'[s].empties > 0 /\ log'[s].last >= step.today
        BY <1>0, <2>a DEF FetchShape, RunSteps, LogRows, DatesInv
      <3>2. ~step'.cut => \A q \in Symbols : Handled(q)'
        <4> SUFFICES ASSUME ~step.cut, NEW q \in Symbols PROVE Handled(q)'
          BY <2>2
        <4>1. Handled(q)
          BY <1>0, <2>1 DEF RunInv, Left
        <4>2. CASE q \in step.failed \cup step.fetched \cup step.empty
          BY <4>2, <2>2 DEF Handled
        <4>3. CASE q \notin polled
          <5>1. log'[q] = log[q]
            BY <2>4, <4>3
          <5> QED BY <5>1, <4>1, <2>1, <2>2, SameDecision DEF Handled
        <4> QED BY <4>2, <4>3
      <3>3. \A s \in step.fetched : \A f \in filings[s] : Answered(f)' => f \in ingested[s]
        BY <1>0, <2>1, <2>2 DEF RunInv, Answered
      <3> QED BY <1>0, <2>1, <2>2, <3>1, <3>2, <3>3 DEF RunInv
    <2> QED BY <2>5, <2>6, <2>7, <2>8 DEF FetchInv
  <1>10. CASE CollectText \/ Crash
    <2>1. /\ step' = Idle /\ UNCHANGED <<today, filings, ingested, log>>
          /\ collected' \in [Symbols -> SUBSET Filed]
          /\ \A s \in Symbols : collected'[s] \subseteq filings[s]
      <3>1. CASE CollectText
        <4>1. PICK candidates \in SUBSET (Symbols \ Held) :
                 collected' = [s \in Symbols |->
                                 IF s \in Held \cup candidates
                                 THEN collected[s] \cup {f \in filings[s] : f.day <= step.asOf}
                                 ELSE collected[s]]
          BY <3>1 DEF CollectText
        <4> QED BY <4>1, <3>1, <1>0 DEF CollectText, FetchShape, DatesInv
      <3>2. CASE Crash
        BY <3>2, <1>0 DEF Crash, FetchShape, DatesInv
      <3> QED BY <1>10, <3>1, <3>2
    <2>2. FetchShape' /\ DatesInv' /\ CoverInv'
      BY <1>0, <1>a, <2>1 DEF FetchShape, DatesInv, CoverInv
    <2> QED BY <1>a, <2>1, <2>2 DEF FetchInv
  <1>11. ASSUME NEW s \in Symbols, BackfillFundamentals(s) PROVE FetchInv'
    <2> DEFINE records == {<<s, f>> : f \in Facts(s, today, Lookback)}
    <2>1. /\ step.pc = "idle" /\ Upsert(records)
          /\ UNCHANGED <<today, filings, collected, log, step>>
      BY <1>11 DEF BackfillFundamentals
    <2>2. records \in SUBSET (Symbols \X Filed)
      BY <1>0 DEF FetchShape, Facts
    <2> HIDE DEF records
    <2>3. /\ ingested' \in [Symbols -> SUBSET Filed]
          /\ \A q \in Symbols : ingested[q] \subseteq ingested'[q]
      BY <2>1, <2>2, <1>e
    <2>4. RunInv'
      BY <1>0, <1>a, <2>1 DEF RunInv
    <2>5. FetchShape' /\ DatesInv' /\ CoverInv'
      BY <1>0, <2>1, <2>3 DEF FetchShape, DatesInv, CoverInv
    <2> QED BY <2>4, <2>5 DEF FetchInv
  <1>12. CASE UNCHANGED vars
    <2>1. UNCHANGED <<today, filings, collected, ingested, log, step>>
      BY <1>12 DEF vars
    <2>2. RunInv'
      BY <1>0, <2>1, SameDecision DEF RunInv, Answered, Left, Handled
    <2> QED BY <1>0, <2>1, <2>2 DEF FetchInv, FetchShape, DatesInv, CoverInv
  <1> QED
    BY <1>1, <1>2, <1>3, <1>4, <1>5, <1>6, <1>7, <1>8, <1>9, <1>10, <1>11, <1>12 DEF Next
-----------------------------------------------------------------------------
(* A symbol that the run left alone although it was due was throttled, or  *)
(* had its answer that day.                                                *)
LEMMA NotAskedIsNotDue ==
    ASSUME FetchInv, step.pc = "done", ~step.cut, NEW s \in Symbols, ~Excused(s)
    PROVE  \/ s \in step.fetched
           \/ s \notin step.fetched \cup step.empty /\ ~IsDue(s, step.asOf)
  <1>0. FetchShape /\ DatesInv /\ RunInv
    BY DEF FetchInv
  <1>1. /\ step.today \in Nat /\ log[s].last \in Nat /\ log[s].empties \in Nat
        /\ RefreshInterval \in Nat \ {0}
    BY <1>0, FundamentalsAssumption DEF FetchShape, RunSteps, LogRows
  <1>2. Handled(s) /\ s \notin step.failed /\ ~Throttled(s)
        /\ ~(s \notin step.fetched /\ log[s].last >= step.today)
    BY <1>0 DEF RunInv, Left, Excused
  <1>3. s \in step.empty => s \in step.fetched
    BY <1>0, <1>2 DEF RunInv
  <1>4. ASSUME s \notin step.fetched PROVE ~IsDue(s, step.asOf)
    <2>1. ~NeedsFetch(s, step.asOf, step.today) /\ log[s].last # step.today
      BY <1>1, <1>2, <1>3, <1>4 DEF Handled
    <2>2. PollAllowed(s, step.today)
      <3>1. RefreshIntervalDays(log[s].empties) \in 1..RefreshInterval
        BY <1>1, GapsAreBounded
      <3> QED BY <1>1, <1>2, <3>1 DEF PollAllowed, Throttled
    <2> QED BY <2>1, <2>2 DEF NeedsFetch
  <1> QED BY <1>3, <1>4

(* The weekly backstop holds in every universe: after a complete run, what *)
(* has been out for an interval, in the windows of this poll and the last  *)
(* answered one, is in the store (_FundamentalsFreshness, daily.py:607).   *)
THEOREM BackstopHolds == Spec => []NothingOverdue
  <1>1. FetchInv => NothingOverdue
    <2> SUFFICES ASSUME FetchInv, step.pc = "done", ~step.cut, NEW s \in Symbols,
                        NEW f \in filings[s], f.lands # Never,
                        f.lands + RefreshInterval <= step.asOf,
                        f.day >= Max({step.asOf, log[s].through}) - Lookback,
                        ~Excused(s)
                 PROVE  f \in ingested[s]
      BY DEF NothingOverdue
    <2>0. FetchShape /\ DatesInv /\ CoverInv /\ RunInv
      BY DEF FetchInv
    <2>1. /\ step.today \in Nat /\ step.asOf \in Nat /\ log[s].through \in Nat
          /\ f.day \in Nat /\ f.lands \in Nat /\ Lookback \in Nat /\ RefreshInterval \in Nat
      BY <2>0, FundamentalsAssumption DEF FetchShape, RunSteps, LogRows, Filed
    <2>2. f.day >= step.asOf - Lookback /\ f.day >= log[s].through - Lookback
      <3> DEFINE D == {step.asOf, log[s].through}
                 b == step.asOf + log[s].through
      <3>1. D \in SUBSET Nat /\ D # {} /\ b \in Nat /\ \A x \in D : x <= b
        BY <2>1
      <3>a. step.asOf \in D /\ log[s].through \in D /\ f.day >= Max(D) - Lookback
        OBVIOUS
      <3> HIDE DEF D, b
      <3>2. Max(D) \in D /\ \A x \in D : x <= Max(D)
        BY <3>1, GreatestNatural
      <3>3. Max(D) \in Nat /\ step.asOf <= Max(D) /\ log[s].through <= Max(D)
        BY <3>1, <3>2, <3>a
      <3> DEFINE newest == Max(D)
      <3>4. newest \in Nat /\ step.asOf <= newest /\ log[s].through <= newest /\ f.day >= newest - Lookback
        BY <3>3, <3>a
      <3> HIDE DEF newest
      <3> QED BY <2>1, <3>4
    <2>3. CASE s \in step.fetched
      <3>1. Answered(f)
        BY <2>0, <2>1, <2>2 DEF Answered, DatesInv
      <3> QED BY <2>0, <2>3, <3>1 DEF RunInv
    <2>4. CASE ~IsDue(s, step.asOf)
      BY <2>0, <2>1, <2>2, <2>4 DEF IsDue, CoverInv
    <2> QED BY <2>3, <2>4, NotAskedIsNotDue
  <1> QED BY <1>1, FetchStarts, FetchSteps, PTL DEF Spec

(* And a filing that was collected is fetched by the first complete run    *)
(* after its facts are out: the trigger is a level, not an edge.           *)
THEOREM TriggerStaysArmed == Spec => []PendingIsRetried
  <1>1. FetchInv => PendingIsRetried
    <2> SUFFICES ASSUME FetchInv, step.pc = "done", ~step.cut, NEW s \in Symbols,
                        NEW f \in collected[s],
                        f.day = LatestFilingOn(s, step.asOf),
                        f.lands # Never, f.lands <= step.today,
                        step.asOf - f.day < RefreshInterval,
                        f.day >= step.asOf - Lookback,
                        f.day > LatestIngestedOn(s, step.asOf),
                        ~Excused(s)
                 PROVE  FALSE
      BY DEF PendingIsRetried
    <2>0. FetchShape /\ DatesInv /\ RunInv
      BY DEF FetchInv
    <2>1. f \in filings[s] /\ f \in Filed
      BY <2>0 DEF FetchShape, DatesInv
    <2>2. /\ LatestIngestedOn(s, step.asOf) \in Nat
          /\ \A g \in ingested[s] : g.day <= step.asOf => g.day <= LatestIngestedOn(s, step.asOf)
      BY <2>0, NewestIsNewest DEF FetchShape, RunSteps, LatestIngestedOn
    <2>3. f.day # None /\ f.day \in Nat
      BY <2>1, <2>2 DEF Filed, None
    <2>4. f.day <= step.asOf
      <3> DEFINE D == {g.day : g \in {h \in collected[s] : h.day <= step.asOf}} \cup {None}
      <3>1. D \in SUBSET Nat /\ D # {} /\ step.asOf \in Nat /\ \A d \in D : d <= step.asOf
        BY <2>0 DEF FetchShape, RunSteps, Filed, None
      <3>2. f.day = Max(D)
        BY DEF LatestFilingOn, NewestDay
      <3> HIDE DEF D
      <3> QED BY <3>1, <3>2, GreatestNatural
    <2>5. IsDue(s, step.asOf)
      BY <2>3 DEF IsDue, HasPendingFiling
    <2>6. s \in step.fetched
      BY <2>5, NotAskedIsNotDue
    <2>7. f \in ingested[s]
      BY <2>0, <2>1, <2>4, <2>6 DEF RunInv, Answered
    <2> QED BY <2>2, <2>3, <2>4, <2>7
  <1> QED BY <1>1, FetchStarts, FetchSteps, PTL DEF Spec

-----------------------------------------------------------------------------
(* RequestThrottle.                                                        *)

(* A budget without a recorded instant has sent nothing.                   *)
RecordedInv ==
    \A b \in Budgets : lastRequestAt[b] = Unset <=> issued[b] = <<>>

(* The recorded instant trails the last request, and every earlier request *)
(* left as many intervals before it as requests have left since, but for   *)
(* its own lateness.  RateIsKept relates requests to each other and says   *)
(* nothing of the instant the next wait is computed from.                  *)
SpacingInv ==
    \A b \in Budgets : \A i \in DOMAIN issued[b] :
        /\ i = Len(issued[b]) => issued[b][i] >= lastRequestAt[b]
        /\ issued[b][i] - Slack
              <= lastRequestAt[b] - (Len(issued[b]) - i) * MinInterval[b]

(* A call that has met a block has waited it out.                          *)
BlockInv == now >= call.until

ThrottleInv == ThrottleTypeOK /\ RecordedInv /\ SpacingInv /\ RateIsKept /\ BlockInv
-----------------------------------------------------------------------------
(* The wait ends at the first instant that keeps the interval.             *)
LEMMA IssuedAtKeepsTheInterval ==
    ASSUME ThrottleTypeOK, NEW b \in Budgets
    PROVE  /\ Wait(b) \in Nat
           /\ IssuedAt(b) \in Nat
           /\ lastRequestAt[b] # Unset => IssuedAt(b) >= lastRequestAt[b] + MinInterval[b]
  <1>1. /\ now \in Nat /\ MinInterval[b] \in Nat
        /\ lastRequestAt[b] \in Nat \/ lastRequestAt[b] = Unset
    <2>1. MinInterval[b] \in Nat
      BY ThrottleAssumption
    <2>2. now \in Nat /\ lastRequestAt[b] \in Nat \cup {Unset}
      BY DEF ThrottleTypeOK
    <2> QED BY <2>1, <2>2
  <1>2. CASE lastRequestAt[b] = Unset \/ now - lastRequestAt[b] >= MinInterval[b]
    <2>1. Wait(b) = 0
      BY <1>2 DEF Wait
    <2>2. IssuedAt(b) = now
      BY <1>1, <2>1 DEF IssuedAt
    <2> QED BY <1>1, <1>2, <2>1, <2>2
  <1>3. CASE ~(lastRequestAt[b] = Unset \/ now - lastRequestAt[b] >= MinInterval[b])
    <2>1. Wait(b) = MinInterval[b] - (now - lastRequestAt[b])
      BY <1>3 DEF Wait
    <2>2. lastRequestAt[b] \in Nat
      BY <1>1, <1>3
    <2>3. Wait(b) \in Nat
      BY <1>1, <1>3, <2>1, <2>2
    <2>4. IssuedAt(b) = lastRequestAt[b] + MinInterval[b]
      BY <1>1, <2>1, <2>2 DEF IssuedAt
    <2> QED BY <1>1, <2>2, <2>3, <2>4
  <1> QED BY <1>2, <1>3

LEMMA BudgetOfAClient == \A c \in Clients : BudgetOf[c] \in Budgets
  BY DEF Budgets

(* One more interval lies between a request and the one after the last.    *)
LEMMA OneMoreInterval ==
    \A k, m \in Int : (k + 1) * m = k * m + m
  OBVIOUS

(* What an Attempt does, for the budget it counts against.                 *)
LEMMA AttemptSends ==
    ASSUME ThrottleTypeOK, Attempt
    PROVE  \E b \in Budgets :
             /\ Wait(b) \in Nat /\ IssuedAt(b) \in Nat
             /\ now' \in Nat /\ now' >= IssuedAt(b) /\ now' <= IssuedAt(b) + Slack
             /\ now' >= now
             /\ issued' = [issued EXCEPT ![b] = Append(@, now')]
             /\ lastRequestAt' = [lastRequestAt EXCEPT ![b] = IssuedAt(b)]
  <1> DEFINE b == BudgetOf[call.client]
  <1>1. b \in Budgets
    BY BudgetOfAClient DEF ThrottleTypeOK, Attempt
  <1>2. Wait(b) \in Nat /\ IssuedAt(b) \in Nat
    BY <1>1, IssuedAtKeepsTheInterval
  <1>3. PICK late \in 0..Slack : now' = now + Wait(b) + late
    BY DEF Attempt
  <1>4. issued' = [issued EXCEPT ![b] = Append(@, now')]
        /\ lastRequestAt' = [lastRequestAt EXCEPT ![b] = IssuedAt(b)]
    BY DEF Attempt
  <1>5. /\ now' \in Nat /\ now' >= now
        /\ now' >= IssuedAt(b) /\ now' <= IssuedAt(b) + Slack
    BY <1>2, <1>3, ThrottleAssumption DEF ThrottleTypeOK, IssuedAt
  <1> QED BY <1>1, <1>2, <1>4, <1>5

LEMMA DelaysAreNat ==
    ASSUME ThrottleTypeOK
    PROVE  /\ DefaultDelay \in Nat
           /\ \A r \in RetryAfter : Block(r) \in Nat
  BY ThrottleAssumption DEF ThrottleTypeOK, DefaultDelay, Block

(* What an answer that is not final does: the call ends, or backs off.     *)
LEMMA BackOffWaits ==
    ASSUME ThrottleTypeOK, NEW delay \in Nat, NEW until \in Nat,
           call.pc = "answer", BackOff(delay, until)
    PROVE  /\ now' \in Nat /\ now' >= now
           /\ call' = NoCall \/ /\ now' = now + delay
                                /\ call' = [call EXCEPT !.pc = "attempt",
                                                        !.attempt = @ + 1,
                                                        !.until = until]
           /\ call' \in [pc : {"idle", "attempt", "answer"}, client : Clients \cup {Unset},
                         attempt : Nat, until : Nat]
           /\ call'.pc # "idle" => call'.client \in Clients
  <1>1. CASE call.attempt <= Len(Delays)
    <2>1. /\ now' = now + delay
          /\ call' = [call EXCEPT !.pc = "attempt", !.attempt = @ + 1, !.until = until]
      BY <1>1 DEF BackOff
    <2>2. call' \in [pc : {"idle", "attempt", "answer"}, client : Clients \cup {Unset},
                    attempt : Nat, until : Nat]
      <3>1. call.attempt + 1 \in Nat /\ "attempt" \in {"idle", "attempt", "answer"}
        BY DEF ThrottleTypeOK
      <3> QED BY <2>1, <3>1 DEF ThrottleTypeOK
    <2>3. call'.client = call.client
      BY <2>1 DEF ThrottleTypeOK
    <2> QED BY <2>1, <2>2, <2>3 DEF ThrottleTypeOK
  <1>2. CASE ~(call.attempt <= Len(Delays))
    <2>1. call' = NoCall /\ now' = now
      BY <1>2 DEF BackOff
    <2> QED BY <2>1 DEF ThrottleTypeOK, NoCall
  <1> QED BY <1>1, <1>2
-----------------------------------------------------------------------------
LEMMA ThrottleTypeStep ==
    ThrottleTypeOK /\ [ThrottleNext]_throttleVars => ThrottleTypeOK'
  <1> SUFFICES ASSUME ThrottleTypeOK, [ThrottleNext]_throttleVars
               PROVE  ThrottleTypeOK'
    OBVIOUS
  <1>1. CASE Attempt
    <2>1. PICK b \in Budgets :
             /\ IssuedAt(b) \in Nat /\ now' \in Nat
             /\ issued' = [issued EXCEPT ![b] = Append(@, now')]
             /\ lastRequestAt' = [lastRequestAt EXCEPT ![b] = IssuedAt(b)]
      BY <1>1, AttemptSends
    <2>2. issued' \in [Budgets -> Seq(Nat)]
      BY <2>1 DEF ThrottleTypeOK
    <2>3. lastRequestAt' \in [Budgets -> Nat \cup {Unset}]
      BY <2>1 DEF ThrottleTypeOK
    <2>4. /\ call' = [call EXCEPT !.pc = "answer"] /\ blockedUntil' = blockedUntil
          /\ call.pc = "attempt"
      BY <1>1 DEF Attempt
    <2> QED BY <2>1, <2>2, <2>3, <2>4 DEF ThrottleTypeOK
  <1>2. CASE Return
    BY <1>2 DEF Return, ThrottleTypeOK, NoCall
  <1>3. CASE RetryableError
    <2>1. call.pc = "answer" /\ BackOff(DefaultDelay, call.until)
          /\ UNCHANGED <<lastRequestAt, issued, blockedUntil>>
      BY <1>3 DEF RetryableError
    <2>2. call.until \in Nat
      BY DEF ThrottleTypeOK
    <2> QED BY <2>1, <2>2, DelaysAreNat, BackOffWaits DEF ThrottleTypeOK
  <1>4. CASE TooManyRequests
    <2>1. PICK r \in RetryAfter :
             /\ BackOff(EdgarRetryDelay(r, DefaultDelay), now + Block(r))
             /\ blockedUntil' = [blockedUntil EXCEPT ![call.client] = now + Block(r)]
      BY <1>4 DEF TooManyRequests
    <2>2. /\ call.pc = "answer" /\ UNCHANGED <<lastRequestAt, issued>>
      BY <1>4 DEF TooManyRequests
    <2>3. Block(r) \in Nat /\ now + Block(r) \in Nat
      BY DelaysAreNat DEF ThrottleTypeOK
    <2>4. blockedUntil' \in [Clients -> Nat]
      BY <2>1, <2>3 DEF ThrottleTypeOK
    <2>5. EdgarRetryDelay(r, DefaultDelay) \in Nat
      BY <2>3 DEF EdgarRetryDelay
    <2> QED BY <2>1, <2>2, <2>3, <2>4, <2>5, BackOffWaits DEF ThrottleTypeOK
  <1>5. CASE Pass
    BY <1>5 DEF Pass, ThrottleTypeOK
  <1>6. ASSUME NEW c \in Clients, Call(c)
        PROVE  ThrottleTypeOK'
    BY <1>6 DEF Call, ThrottleTypeOK
  <1>7. CASE UNCHANGED throttleVars
    BY <1>7 DEF throttleVars, ThrottleTypeOK
  <1> QED BY <1>1, <1>2, <1>3, <1>4, <1>5, <1>6, <1>7 DEF ThrottleNext

(* The invariant's steps are about requests; every other step leaves the   *)
(* record and the history alone.                                           *)
LEMMA OnlyAttemptSends ==
    [ThrottleNext]_throttleVars /\ ~Attempt => UNCHANGED <<lastRequestAt, issued>>
  BY DEF ThrottleNext, throttleVars, Return, RetryableError, TooManyRequests, Pass, Call

(* A request one budget sends keeps the spacing of that budget.            *)
LEMMA AppendKeepsTheSpacing ==
    ASSUME NEW s \in Seq(Nat), NEW last \in Nat \cup {Unset}, NEW m \in Nat,
           NEW at \in Nat, NEW t \in Nat, t >= at, t <= at + Slack,
           s # <<>> => last \in Nat /\ at >= last + m,
           \A i \in DOMAIN s : s[i] - Slack <= last - (Len(s) - i) * m
    PROVE  /\ \A i \in DOMAIN Append(s, t) :
                /\ i = Len(Append(s, t)) => Append(s, t)[i] >= at
                /\ Append(s, t)[i] - Slack <= at - (Len(Append(s, t)) - i) * m
           /\ \A i \in DOMAIN s : t - s[i] >= (Len(s) + 1 - i) * m - Slack
  <1> DEFINE n == Len(s)
             u == Append(s, t)
  <1>1. /\ n \in Nat /\ DOMAIN s = 1..n /\ Slack \in Nat
        /\ Len(u) = n + 1 /\ DOMAIN u = 1..(n + 1) /\ u[n + 1] = t
        /\ \A i \in 1..n : u[i] = s[i] /\ s[i] \in Nat
    <2>1. n \in Nat /\ DOMAIN s = 1..n /\ \A i \in 1..n : s[i] \in Nat
      OBVIOUS
    <2>2. Slack \in Nat
      BY ThrottleAssumption
    <2>3. /\ Len(u) = n + 1 /\ u[n + 1] = t /\ u \in Seq(Nat)
          /\ \A i \in 1..n : u[i] = s[i]
      BY AppendProperties
    <2>4. DOMAIN u = 1..(n + 1)
      BY <2>3
    <2> QED BY <2>1, <2>2, <2>3, <2>4
  <1>2. ASSUME NEW i \in 1..n
        PROVE  s[i] - Slack <= at - (n + 1 - i) * m
    <2>1. last \in Nat /\ at >= last + m
      BY <1>1
    <2>2. s[i] - Slack <= last - (n - i) * m
      BY <1>1
    <2>3. (n + 1 - i) * m = (n - i) * m + m
      <3>1. n - i \in Int /\ m \in Int /\ n + 1 - i = (n - i) + 1
        BY <1>1
      <3> QED BY <3>1, OneMoreInterval
    <2>4. (n - i) * m \in Int
      BY <1>1
    <2> HIDE DEF n
    <2> QED BY <2>1, <2>2, <2>3, <2>4, <1>1
  <1>3. ASSUME NEW i \in DOMAIN u
        PROVE  /\ i = Len(u) => u[i] >= at
               /\ u[i] - Slack <= at - (Len(u) - i) * m
    <2>1. CASE i = n + 1
      <3>1. (Len(u) - i) * m = 0
        BY <1>1, <2>1
      <3> QED BY <1>1, <2>1, <3>1
    <2>2. CASE i \in 1..n
      <3>1. i # Len(u) /\ Len(u) = n + 1 /\ u[i] = s[i]
        BY <1>1, <2>2
      <3>2. s[i] - Slack <= at - (n + 1 - i) * m
        BY <1>2, <2>2
      <3>3. u[i] - Slack <= at - (Len(u) - i) * m
        BY ONLY <3>1, <3>2
      <3> QED BY ONLY <3>1, <3>3
    <2>3. i = n + 1 \/ i \in 1..n
      <3>1. n \in Nat /\ i \in 1..(n + 1)
        BY <1>1
      <3> HIDE DEF n, u
      <3> QED BY ONLY <3>1
    <2> QED BY ONLY <2>1, <2>2, <2>3
  <1>4. ASSUME NEW i \in 1..n
        PROVE  t - s[i] >= (n + 1 - i) * m - Slack
    <2>1. (n + 1 - i) * m \in Int
      BY <1>1
    <2> QED BY <1>1, <1>2, <2>1
  <1> QED BY <1>1, <1>3, <1>4

LEMMA SpacingStep ==
    /\ ThrottleTypeOK /\ RecordedInv /\ SpacingInv /\ RateIsKept
    /\ [ThrottleNext]_throttleVars
    => RecordedInv' /\ SpacingInv' /\ RateIsKept'
  <1> SUFFICES ASSUME ThrottleTypeOK, RecordedInv, SpacingInv, RateIsKept,
                      [ThrottleNext]_throttleVars
               PROVE  RecordedInv' /\ SpacingInv' /\ RateIsKept'
    OBVIOUS
  <1>1. CASE ~Attempt
    BY <1>1, OnlyAttemptSends DEF RecordedInv, SpacingInv, RateIsKept
  <1>2. CASE Attempt
    <2>1. PICK b \in Budgets :
             /\ IssuedAt(b) \in Nat
             /\ now' \in Nat /\ now' >= IssuedAt(b) /\ now' <= IssuedAt(b) + Slack
             /\ issued' = [issued EXCEPT ![b] = Append(@, now')]
             /\ lastRequestAt' = [lastRequestAt EXCEPT ![b] = IssuedAt(b)]
      BY <1>2, AttemptSends
    <2> DEFINE s == issued[b]
               u == Append(s, now')
               m == MinInterval[b]
    <2>2. /\ s \in Seq(Nat) /\ m \in Nat /\ lastRequestAt[b] \in Nat \cup {Unset}
          /\ lastRequestAt'[b] = IssuedAt(b) /\ issued'[b] = u
          /\ \A o \in Budgets \ {b} : /\ issued'[o] = issued[o]
                                      /\ lastRequestAt'[o] = lastRequestAt[o]
      BY <2>1, ThrottleAssumption DEF ThrottleTypeOK
    <2>3. s # <<>> => lastRequestAt[b] \in Nat /\ IssuedAt(b) >= lastRequestAt[b] + m
      BY IssuedAtKeepsTheInterval DEF RecordedInv, ThrottleTypeOK, Unset
    <2>4. \A i \in DOMAIN s : s[i] - Slack <= lastRequestAt[b] - (Len(s) - i) * m
      BY DEF SpacingInv
    <2>5. /\ \A i \in DOMAIN u :
                /\ i = Len(u) => u[i] >= IssuedAt(b)
                /\ u[i] - Slack <= IssuedAt(b) - (Len(u) - i) * m
          /\ \A i \in DOMAIN s : now' - s[i] >= (Len(s) + 1 - i) * m - Slack
      BY <2>1, <2>2, <2>3, <2>4, AppendKeepsTheSpacing
    <2>6. RecordedInv'
      <3>1. u # <<>> /\ IssuedAt(b) # Unset
        BY <2>1, <2>2 DEF Unset
      <3> QED BY <2>2, <3>1 DEF RecordedInv
    <2>7. SpacingInv'
      BY <2>2, <2>5 DEF SpacingInv
    <2>8. RateIsKept'
      <3>1. ASSUME NEW i \in DOMAIN u, NEW j \in DOMAIN u, i < j
            PROVE  u[j] - u[i] >= (j - i) * m - Slack
        <4>1. /\ Len(s) \in Nat /\ DOMAIN s = 1..Len(s) /\ u[Len(s) + 1] = now'
              /\ DOMAIN u = 1..(Len(s) + 1) /\ \A k \in 1..Len(s) : u[k] = s[k]
          BY <2>1, <2>2
        <4>2. CASE j = Len(s) + 1
          <5>1. i \in DOMAIN s
            BY <3>1, <4>1, <4>2
          <5> QED BY <2>5, <4>1, <4>2, <5>1
        <4>3. CASE j \in 1..Len(s)
          <5>1. i \in DOMAIN s /\ j \in DOMAIN s
            BY <3>1, <4>1, <4>3
          <5>2. s[j] - s[i] >= (j - i) * m - Slack
            BY <3>1, <5>1 DEF RateIsKept
          <5> QED BY <4>1, <5>1, <5>2
        <4> QED BY <4>1, <4>2, <4>3
      <3> QED BY <2>2, <3>1 DEF RateIsKept
    <2> QED BY <2>6, <2>7, <2>8
  <1> QED BY <1>1, <1>2

(* A call attempts again no earlier than the end of a block it has met.    *)
LEMMA BlockStep ==
    ThrottleTypeOK /\ BlockInv /\ [ThrottleNext]_throttleVars => BlockInv'
  <1> SUFFICES ASSUME ThrottleTypeOK, BlockInv, [ThrottleNext]_throttleVars
               PROVE  BlockInv'
    OBVIOUS
  <1> USE DEF BlockInv
  <1>1. CASE Attempt
    <2>1. now' \in Nat /\ now' >= now
      BY <1>1, AttemptSends
    <2>2. call'.until = call.until /\ call.until \in Nat
      BY <1>1 DEF Attempt, ThrottleTypeOK
    <2> QED BY <2>1, <2>2 DEF ThrottleTypeOK
  <1>2. CASE RetryableError
    <2>1. /\ call.pc = "answer" /\ BackOff(DefaultDelay, call.until)
          /\ DefaultDelay \in Nat /\ call.until \in Nat
      BY <1>2, DelaysAreNat DEF RetryableError, ThrottleTypeOK
    <2>2. /\ now' \in Nat /\ now' >= now
          /\ call' = NoCall \/ call' = [call EXCEPT !.pc = "attempt",
                                                    !.attempt = @ + 1,
                                                    !.until = call.until]
      BY <2>1, BackOffWaits
    <2>3. call'.until \in {0, call.until}
      <3>1. CASE call' = NoCall
        BY <3>1 DEF NoCall
      <3>2. CASE call' # NoCall
        BY <2>2, <3>2 DEF ThrottleTypeOK
      <3> QED BY <3>1, <3>2
    <2> QED BY <2>1, <2>2, <2>3 DEF ThrottleTypeOK
  <1>3. CASE TooManyRequests
    <2>1. PICK r \in RetryAfter :
             BackOff(EdgarRetryDelay(r, DefaultDelay), now + Block(r))
      BY <1>3 DEF TooManyRequests
    <2>2. /\ EdgarRetryDelay(r, DefaultDelay) = Block(r)
          /\ Block(r) \in Nat /\ now + Block(r) \in Nat /\ now \in Nat
      BY DelaysAreNat DEF EdgarRetryDelay, ThrottleTypeOK
    <2>3. call.pc = "answer"
      BY <1>3 DEF TooManyRequests
    <2>4. /\ now' \in Nat
          /\ call' = NoCall \/ /\ now' = now + Block(r)
                               /\ call' = [call EXCEPT !.pc = "attempt",
                                                       !.attempt = @ + 1,
                                                       !.until = now + Block(r)]
      BY <2>1, <2>2, <2>3, BackOffWaits
    <2>5. CASE call' = NoCall
      BY <2>4, <2>5 DEF NoCall
    <2>6. CASE call' # NoCall
      <3>1. call'.until = now'
        BY <2>4, <2>6 DEF ThrottleTypeOK
      <3> QED BY <2>4, <3>1
    <2> QED BY <2>5, <2>6
  <1>4. CASE Pass
    BY <1>4 DEF Pass, ThrottleTypeOK
  <1>5. CASE Return
    BY <1>5 DEF Return, ThrottleTypeOK, NoCall
  <1>6. ASSUME NEW c \in Clients, Call(c)
        PROVE  BlockInv'
    BY <1>6 DEF Call, ThrottleTypeOK
  <1>7. CASE UNCHANGED throttleVars
    BY <1>7 DEF throttleVars
  <1> QED BY <1>1, <1>2, <1>3, <1>4, <1>5, <1>6, <1>7 DEF ThrottleNext
-----------------------------------------------------------------------------
LEMMA ThrottleInvariant == ThrottleSpec => []ThrottleInv
  <1>1. ThrottleInit => ThrottleInv
    <2> SUFFICES ASSUME ThrottleInit
                 PROVE  ThrottleInv
      OBVIOUS
    <2>1. ThrottleTypeOK
      BY DEF ThrottleInit, ThrottleTypeOK, NoCall
    <2>2. RecordedInv /\ SpacingInv /\ RateIsKept /\ BlockInv
      BY DEF ThrottleInit, RecordedInv, SpacingInv, RateIsKept, BlockInv, NoCall
    <2> QED BY <2>1, <2>2 DEF ThrottleInv
  <1>2. ThrottleInv /\ [ThrottleNext]_throttleVars => ThrottleInv'
    BY ThrottleTypeStep, SpacingStep, BlockStep DEF ThrottleInv
  <1> QED BY <1>1, <1>2, PTL DEF ThrottleSpec

(* Any n+1 requests of one account span n of its intervals, but for one    *)
(* oversleep, however its clients interleave, fail, back off and wait:     *)
(* the lateness of single requests never adds up.                          *)
THEOREM RateIsAlwaysKept == ThrottleSpec => []RateIsKept
  BY ThrottleInvariant, PTL DEF ThrottleInv

(* No later attempt of a call leaves before the end of a block that one of *)
(* its own answers reported, whatever delays, throttle and clock are.      *)
THEOREM BlocksAreWaitedOut == ThrottleSpec => RetriesWaitOutTheBlock
  <1>1. ThrottleInv /\ [ThrottleNext]_throttleVars
        => [Attempt => now >= call.until]_throttleVars
    BY DEF ThrottleInv, BlockInv
  <1> QED BY <1>1, ThrottleInvariant, PTL DEF ThrottleSpec, RetriesWaitOutTheBlock

-----------------------------------------------------------------------------
(* TextCollection: what the marks of a stored text say.                    *)
Running == turn.mode \in {"daily", "freshness"}
Reading == Running /\ turn.part \in {"attachments", "exhibits", "sections"}

(* An item that says of its cuts what CutsAreMarked asks.                  *)
SaysItsCuts(r) ==
    r.kind = "filing" /\ FilingOf(r.id).form = "8-K" =>
        LET exhibits == FilingOf(r.id).exhibits
        IN  /\ ~ r.lost /\ Chars(r.kept) < Chars(exhibits) => r.marks # {}
            /\ r.kept # <<>> /\ Len(exhibits) > MaxExhibits => "omitted" \in r.marks
            /\ "cut" \in r.marks => Chars(r.kept) = ExhibitBudget

MarkedList(items) == \E S : items \in Seq(S) /\ \A r \in S : SaysItsCuts(r)

TurnFields == {"mode", "symbols", "asked", "newsSince", "filingsSince", "held", "part", "items",
               "failed", "filings", "batch", "kept", "room", "marks", "listed", "lost"}

Listed == Range(Listing)

(* A text is the exhibits read so far, whole, or the budget ended and the  *)
(* mark is set.                                                            *)
TextInv(t, filing) ==
    /\ t.kept \in Seq(Nat) /\ t.room \in Nat /\ t.marks \subseteq {"cut"}
    /\ Len(t.kept) <= Len(filing.exhibits)
    /\ Chars(t.kept) + t.room = ExhibitBudget
    /\ IF "cut" \in t.marks THEN t.room = 0
       ELSE \A i \in 1..Len(t.kept) : t.kept[i] = filing.exhibits[i]
    /\ t.kept # <<>> => t.listed = Len(filing.exhibits)
    /\ t.part = "attachments" => t.kept = <<>>
    /\ t.part = "exhibits" => t.listed = Len(filing.exhibits)
    /\ t.part = "sections" /\ filing.form = "8-K" /\ ~ t.lost =>
          /\ t.listed = Len(filing.exhibits)
          /\ "cut" \in t.marks \/ Len(t.kept) = Len(FirstOf(filing.exhibits, MaxExhibits))

TurnInv ==
    Running =>
        /\ turn = [f \in TurnFields |-> turn[f]]
        /\ turn.filings \in Seq(Listed)
        /\ MarkedList(turn.batch) /\ MarkedList(turn.items)
        /\ turn.part \in {"attachments", "exhibits", "sections"} =>
              turn.filings # <<>> /\ TextInv(turn, Filing)

TableInv == \A r \in table : SaysItsCuts(r)

CutsInv == TurnInv /\ TableInv
-----------------------------------------------------------------------------
(* The size of a text.                                                     *)
LEMMA CharsUnfold ==
    ASSUME NEW s \in Seq(Nat)
    PROVE  \E f \in [0..Len(s) -> Nat] :
              /\ f[0] = 0 /\ Chars(s) = f[Len(s)]
              /\ \A n \in 1..Len(s) : f[n] = f[n - 1] + s[n]
  <1> DEFINE N == Len(s)
             advance == [n \in 1..N |-> [x \in Nat |-> x + s[n]]]
             sum == CHOOSE f : f = [n \in 0..N |-> IF n = 0 THEN 0 ELSE f[n - 1] + s[n]]
  <1>1. N \in Nat /\ 0 \in Nat /\ \A n \in 1..N : s[n] \in Nat
    OBVIOUS
  <1>2. StaysIn(Nat, advance, N)
    <2>1. \A n \in 1..N, x \in Nat : advance[n][x] \in Nat
      BY <1>1
    <2> HIDE DEF advance, N
    <2> QED BY <2>1 DEF StaysIn
  <1>3. PICK f \in [0..N -> Nat] : Iterates(f, 0, advance, N)
    <2> HIDE DEF advance, N
    <2> QED BY <1>1, <1>2, RecursionExists
  <1>4. f[0] = 0 /\ \A n \in 1..N : f[n] = f[n - 1] + s[n]
    <2>1. f[0] = 0 /\ \A n \in 1..N : f[n] = advance[n][f[n - 1]]
      <3> HIDE DEF advance
      <3> QED BY <1>3 DEF Iterates
    <2>2. ASSUME NEW n \in 1..N PROVE f[n] = f[n - 1] + s[n]
      <3>1. n - 1 \in 0..N
        BY <1>1
      <3>2. f[n - 1] \in Nat
        <4> HIDE DEF N
        <4> QED BY <1>3, <3>1
      <3> DEFINE x == f[n - 1]
      <3> HIDE DEF x
      <3>3. advance[n][x] = x + s[n]
        BY <3>2 DEF x
      <3> QED BY <2>1, <3>3 DEF x
    <2> QED BY <2>1, <2>2
  <1>5. f = [n \in 0..N |-> IF n = 0 THEN 0 ELSE f[n - 1] + s[n]]
    <2>1. \A n \in 0..N : n = 0 \/ n \in 1..N
      BY <1>1
    <2> HIDE DEF N
    <2> QED BY <1>3, <1>4, <2>1
  <1>6. sum = [n \in 0..N |-> IF n = 0 THEN 0 ELSE sum[n - 1] + s[n]]
    BY <1>5
  <1>7. \A n \in 0..N : sum[n] = f[n]
    <2> DEFINE G == {n \in 0..N : sum[n] = f[n]}
    <2> HIDE DEF sum
    <2>1. 0 \in G
      BY <1>1, <1>4, <1>6
    <2>2. ASSUME NEW n \in 1..N, n - 1 \in G PROVE n \in G
      <3>1. n \in 0..N /\ n # 0 /\ sum[n - 1] = f[n - 1]
        BY <1>1, <2>2
      <3>2. sum[n] = sum[n - 1] + s[n]
        BY <1>6, <3>1
      <3>3. f[n] = f[n - 1] + s[n]
        BY <1>4
      <3> QED BY <3>1, <3>2, <3>3
    <2>3. \A n \in 0..N : n \in G
      <3> HIDE DEF G, N
      <3> QED BY <1>1, <2>1, <2>2, Induction
    <2> QED BY <2>3
  <1>8. Chars(s) = sum[N]
    BY DEF Chars
  <1>9. Chars(s) = f[N]
    <2> HIDE DEF sum
    <2> QED BY <1>1, <1>7, <1>8
  <1> QED BY <1>3, <1>4, <1>9

LEMMA CharsIsNat ==
    ASSUME NEW s \in Seq(Nat)
    PROVE  Chars(s) \in Nat
  <1>1. PICK f \in [0..Len(s) -> Nat] : Chars(s) = f[Len(s)]
    BY CharsUnfold
  <1>2. Len(s) \in 0..Len(s)
    OBVIOUS
  <1> QED BY <1>1, <1>2

LEMMA CharsOfNone == Chars(<<>>) = 0
  <1>1. <<>> \in Seq(Nat) /\ Len(<<>>) = 0
    OBVIOUS
  <1> QED BY <1>1, CharsUnfold

LEMMA CharsOfOneMore ==
    ASSUME NEW s \in Seq(Nat), NEW x \in Nat
    PROVE  Chars(Append(s, x)) = Chars(s) + x
  <1> DEFINE t == Append(s, x)
             N == Len(s)
  <1>1. /\ N \in Nat /\ t \in Seq(Nat) /\ Len(t) = N + 1 /\ t[N + 1] = x
        /\ \A n \in 1..N : t[n] = s[n]
    OBVIOUS
  <1>2. PICK f \in [0..N -> Nat] : /\ f[0] = 0 /\ Chars(s) = f[N]
                                   /\ \A n \in 1..N : f[n] = f[n - 1] + s[n]
    BY CharsUnfold
  <1>3. PICK g \in [0..(N + 1) -> Nat] : /\ g[0] = 0 /\ Chars(t) = g[N + 1]
                                         /\ \A n \in 1..(N + 1) : g[n] = g[n - 1] + t[n]
    <2> HIDE DEF t, N
    <2>1. \E g \in [0..Len(t) -> Nat] : /\ g[0] = 0 /\ Chars(t) = g[Len(t)]
                                       /\ \A n \in 1..Len(t) : g[n] = g[n - 1] + t[n]
      BY <1>1, CharsUnfold
    <2> QED BY <1>1, <2>1
  <1> HIDE DEF t, N
  <1>4. \A n \in 0..N : g[n] = f[n]
    <2> DEFINE G == {n \in 0..N : g[n] = f[n]}
    <2>1. 0 \in G
      BY <1>1, <1>2, <1>3
    <2>2. ASSUME NEW n \in 1..N, n - 1 \in G PROVE n \in G
      <3>1. n \in 0..N /\ n \in 1..(N + 1) /\ g[n - 1] = f[n - 1]
        BY <1>1, <2>2
      <3>2. g[n] = g[n - 1] + t[n] /\ f[n] = f[n - 1] + s[n] /\ t[n] = s[n]
        BY <1>1, <1>2, <1>3, <3>1
      <3> QED BY <3>1, <3>2
    <2>3. \A n \in 0..N : n \in G
      <3> HIDE DEF G
      <3> QED BY <1>1, <2>1, <2>2, Induction
    <2> QED BY <2>3
  <1>5. g[N] = f[N] /\ N + 1 \in 1..(N + 1) /\ (N + 1) - 1 = N
    BY <1>1, <1>4
  <1>6. g[N + 1] = g[N] + x
    BY <1>1, <1>3, <1>5
  <1>7. Chars(t) = Chars(s) + x
    BY <1>2, <1>3, <1>5, <1>6
  <1> QED BY <1>7 DEF t

-----------------------------------------------------------------------------
(* Lists of texts that say their cuts.                                     *)
LEMMA MarkedNone == MarkedList(<<>>)
  <1> DEFINE S == {}
  <1>1. <<>> \in Seq(S) /\ \A r \in S : SaysItsCuts(r)
    OBVIOUS
  <1> HIDE DEF S
  <1> QED BY <1>1 DEF MarkedList

LEMMA MarkedAppend ==
    ASSUME NEW s, MarkedList(s), NEW r, SaysItsCuts(r)
    PROVE  MarkedList(Append(s, r))
  <1>1. PICK S : s \in Seq(S) /\ \A q \in S : SaysItsCuts(q)
    BY DEF MarkedList
  <1> DEFINE T == S \cup {r}
  <1>2. \A q \in T : SaysItsCuts(q)
    BY <1>1
  <1>3. Append(s, r) \in Seq(T)
    <2>1. s \in Seq(T) /\ r \in T
      BY <1>1
    <2> HIDE DEF T
    <2> QED BY <2>1
  <1> HIDE DEF T
  <1> QED BY <1>2, <1>3 DEF MarkedList

LEMMA MarkedConcat ==
    ASSUME NEW s, MarkedList(s), NEW t, MarkedList(t)
    PROVE  MarkedList(s \o t)
  <1>1. PICK S : s \in Seq(S) /\ \A q \in S : SaysItsCuts(q)
    BY DEF MarkedList
  <1>2. PICK T : t \in Seq(T) /\ \A q \in T : SaysItsCuts(q)
    BY DEF MarkedList
  <1> DEFINE U == S \cup T
  <1>3. \A q \in U : SaysItsCuts(q)
    BY <1>1, <1>2
  <1>4. s \in Seq(U) /\ t \in Seq(U)
    BY <1>1, <1>2
  <1> HIDE DEF U
  <1>5. s \o t \in Seq(U)
    BY <1>4
  <1> QED BY <1>3, <1>5 DEF MarkedList

(* What is unique of a list: item by item, unless an earlier one has its id. *)
Repeats(items, n) == \E k \in 1..(n - 1) : items[k].id = items[n].id

UniqueBy(f, items) ==
    /\ f[0] = <<>> /\ Deduplicated(items) = f[Len(items)]
    /\ \A n \in 1..Len(items) :
          f[n] = IF Repeats(items, n) THEN f[n - 1] ELSE Append(f[n - 1], items[n])

LEMMA UniqueUnfold ==
    ASSUME NEW S, NEW items \in Seq(S)
    PROVE  \E f \in [0..Len(items) -> Seq(S)] : UniqueBy(f, items)
  <1> DEFINE N == Len(items)
             advance == [n \in 1..N |-> [u \in Seq(S) |->
                         IF Repeats(items, n) THEN u ELSE Append(u, items[n])]]
             unique == CHOOSE f : f = [n \in 0..N |->
                          IF n = 0 THEN <<>> ELSE IF Repeats(items, n) THEN f[n - 1]
                          ELSE Append(f[n - 1], items[n])]
  <1>2. N \in Nat /\ <<>> \in Seq(S) /\ \A n \in 1..N : items[n] \in S
    OBVIOUS
  <1>3. StaysIn(Seq(S), advance, N)
    <2>1. \A n \in 1..N, u \in Seq(S) : advance[n][u] \in Seq(S)
      BY <1>2
    <2> HIDE DEF advance, N
    <2> QED BY <2>1 DEF StaysIn
  <1>4. PICK f \in [0..N -> Seq(S)] : Iterates(f, <<>>, advance, N)
    <2> HIDE DEF advance, N
    <2> QED BY <1>2, <1>3, RecursionExists
  <1>5. f[0] = <<>> /\ \A n \in 1..N : f[n] = IF Repeats(items, n) THEN f[n - 1]
                                             ELSE Append(f[n - 1], items[n])
    <2>1. f[0] = <<>> /\ \A n \in 1..N : f[n] = advance[n][f[n - 1]]
      <3> HIDE DEF advance
      <3> QED BY <1>4 DEF Iterates
    <2>2. ASSUME NEW n \in 1..N
          PROVE  f[n] = IF Repeats(items, n) THEN f[n - 1] ELSE Append(f[n - 1], items[n])
      <3>1. n - 1 \in 0..N
        BY <1>2
      <3> DEFINE x == f[n - 1]
      <3>2. x \in Seq(S) /\ f[n] = advance[n][x]
        <4> HIDE DEF N, advance
        <4> QED BY <1>4, <2>1, <3>1
      <3> HIDE DEF x
      <3>3. advance[n][x] = IF Repeats(items, n) THEN x ELSE Append(x, items[n])
        BY <3>2
      <3>4. f[n] = IF Repeats(items, n) THEN x ELSE Append(x, items[n])
        BY <3>2, <3>3
      <3> QED BY <3>4 DEF x
    <2> HIDE DEF advance
    <2> QED BY <2>1, <2>2
  <1>6. f = [n \in 0..N |-> IF n = 0 THEN <<>> ELSE IF Repeats(items, n) THEN f[n - 1]
                            ELSE Append(f[n - 1], items[n])]
    <2>1. \A n \in 0..N : n = 0 \/ n \in 1..N
      BY <1>2
    <2> HIDE DEF N
    <2> QED BY <1>4, <1>5, <2>1
  <1>7. unique = [n \in 0..N |-> IF n = 0 THEN <<>> ELSE IF Repeats(items, n) THEN unique[n - 1]
                                 ELSE Append(unique[n - 1], items[n])]
    BY <1>6
  <1>8. \A n \in 0..N : unique[n] = f[n]
    <2> DEFINE G == {n \in 0..N : unique[n] = f[n]}
    <2> HIDE DEF unique
    <2>1. 0 \in G
      BY <1>2, <1>5, <1>7
    <2>2. ASSUME NEW n \in 1..N, n - 1 \in G PROVE n \in G
      <3> DEFINE u == unique[n - 1]
                 r == items[n]
      <3>1. n \in 0..N /\ n # 0 /\ f[n - 1] = u
        BY <1>2, <2>2
      <3>2. unique[n] = IF Repeats(items, n) THEN u ELSE Append(u, r)
        <4> HIDE DEF N
        <4> QED BY <1>7, <3>1
      <3> HIDE DEF u, r
      <3>3. f[n] = IF Repeats(items, n) THEN u ELSE Append(u, r)
        BY <1>5, <3>1 DEF r
      <3>4. unique[n] = f[n]
        BY <3>2, <3>3
      <3> QED BY <3>1, <3>4
    <2>3. \A n \in 0..N : n \in G
      <3> HIDE DEF G, N
      <3> QED BY <1>2, <2>1, <2>2, Induction
    <2> QED BY <2>3
  <1>9. Deduplicated(items) = unique[N]
    BY DEF Deduplicated, Repeats
  <1>10. Deduplicated(items) = f[N]
    <2> HIDE DEF unique
    <2> QED BY <1>2, <1>8, <1>9
  <1> HIDE DEF unique, advance
  <1>11. UniqueBy(f, items)
    BY <1>5, <1>10 DEF UniqueBy
  <1> QED BY <1>4, <1>11

LEMMA UniqueIsOf ==
    ASSUME NEW S, NEW items \in Seq(S)
    PROVE  Deduplicated(items) \in Seq(S)
  <1>1. PICK f \in [0..Len(items) -> Seq(S)] : UniqueBy(f, items)
    BY UniqueUnfold
  <1>2. Len(items) \in 0..Len(items)
    OBVIOUS
  <1> QED BY <1>1, <1>2 DEF UniqueBy

LEMMA MarkedUnique ==
    ASSUME NEW items, MarkedList(items)
    PROVE  MarkedList(Deduplicated(items))
  BY UniqueIsOf DEF MarkedList

(* Of the items with one id the first is kept.                             *)
LEMMA FirstIsKept ==
    ASSUME NEW S, NEW items \in Seq(S), NEW k \in 1..Len(items)
    PROVE  \E j \in 1..k : items[j].id = items[k].id /\ items[j] \in Range(Deduplicated(items))
  <1> DEFINE N == Len(items)
  <1>1. PICK f \in [0..N -> Seq(S)] : UniqueBy(f, items)
    BY UniqueUnfold
  <1>2. /\ f[0] = <<>> /\ Deduplicated(items) = f[N] /\ N \in Nat
        /\ \A n \in 1..N : f[n] = IF Repeats(items, n) THEN f[n - 1] ELSE Append(f[n - 1], items[n])
        /\ \A n \in 1..N : items[n] \in S
    BY <1>1 DEF UniqueBy
  <1> DEFINE Keeps(n) == \A j \in 1..n : Repeats(items, j) \/
                                         \E i \in 1..Len(f[n]) : f[n][i] = items[j]
             G == {n \in 0..N : Keeps(n)}
  <1>3. \A n \in 0..N : n \in G
    <2>1. 0 \in G
      BY <1>2
    <2>2. ASSUME NEW n \in 1..N, n - 1 \in G PROVE n \in G
      <3> DEFINE u == f[n - 1]
                 r == items[n]
      <3>1. /\ n \in 0..N /\ n - 1 \in 0..N /\ u \in Seq(S) /\ r \in S
            /\ \A j \in 1..n : j = n \/ j \in 1..(n - 1)
            /\ \A j \in 1..(n - 1) : Repeats(items, j) \/ \E i \in 1..Len(u) : u[i] = items[j]
        <4>1. n - 1 \in 0..N /\ \A j \in 1..n : j = n \/ j \in 1..(n - 1)
          BY <1>2
        <4>2. u \in Seq(S)
          <5> HIDE DEF N
          <5> QED BY <1>1, <4>1
        <4> QED BY <1>2, <2>2, <4>1, <4>2
      <3>2. f[n] = IF Repeats(items, n) THEN u ELSE Append(u, r)
        BY <1>2
      <3> HIDE DEF u
      <3>3. CASE Repeats(items, n)
        BY <3>1, <3>2, <3>3
      <3>4. CASE ~ Repeats(items, n)
        <4> DEFINE v == Append(u, r)
        <4>1. f[n] = v
          BY <3>2, <3>4
        <4>2. /\ Len(v) = Len(u) + 1 /\ Len(u) \in Nat /\ v[Len(u) + 1] = items[n]
              /\ \A i \in 1..Len(u) : v[i] = u[i]
          BY <3>1
        <4>3. /\ \A i \in 1..Len(u) : i \in 1..Len(v)
              /\ Len(u) + 1 \in 1..Len(v)
          BY <4>2
        <4> HIDE DEF v
        <4> QED BY <3>1, <4>1, <4>2, <4>3
      <3> QED BY <3>3, <3>4
    <2>3. \A n \in 0..N : n \in G
      <3> HIDE DEF G, N
      <3> QED BY <1>2, <2>1, <2>2, Induction
    <2> QED BY <2>3
  <1>4. PICK j \in 1..k : items[j].id = items[k].id /\ ~ Repeats(items, j)
    <2> DEFINE same == {j \in 1..k : items[j].id = items[k].id}
    <2>1. same \in SUBSET Nat /\ same # {}
      OBVIOUS
    <2> DEFINE j == Min(same)
    <2>2. j \in same /\ \A i \in same : j <= i
      <3> HIDE DEF same
      <3> QED BY <2>1, LeastNatural
    <2> HIDE DEF j
    <2>3. ~ Repeats(items, j)
      <3> SUFFICES ASSUME NEW i \in 1..(j - 1), items[i].id = items[j].id PROVE FALSE
        BY DEF Repeats
      <3>1. i \in same /\ ~(j <= i)
        BY <2>2
      <3> QED BY <2>2, <3>1
    <2> QED BY <2>2, <2>3
  <1>5. N \in G /\ j \in 1..N
    <2>1. N \in 0..N /\ j \in 1..N
      BY <1>2
    <2> HIDE DEF G, N
    <2> QED BY <1>3, <2>1
  <1>6. PICK i \in 1..Len(f[N]) : f[N][i] = items[j]
    BY <1>4, <1>5
  <1>7. f[N] \in Seq(S)
    <2> HIDE DEF N
    <2> QED BY <1>1, <1>2
  <1>8. items[j] \in Range(Deduplicated(items))
    BY <1>2, <1>6, <1>7 DEF Range
  <1> QED BY <1>4, <1>8

(* What is stored of a list is its own, or was there before.               *)
LEMMA UpsertIsMarked ==
    ASSUME NEW items, MarkedList(items), TableInv
    PROVE  \A r \in Upserted(items) : SaysItsCuts(r)
  <1>1. PICK S : items \in Seq(S) /\ \A q \in S : SaysItsCuts(q)
    BY DEF MarkedList
  <1>2. \A k \in DOMAIN items : items[k] \in S
    BY <1>1
  <1>3. \A r \in Range(items) : r \in S
    BY <1>2 DEF Range
  <1>4. \A r \in Upserted(items) : r \in table \/ r \in Range(items)
    BY DEF Upserted
  <1> QED BY <1>1, <1>3, <1>4 DEF TableInv

(* News and the calendar have nothing to say.                              *)
LEMMA NewsIsMarked ==
    ASSUME NEW S \in SUBSET Articles, NEW x
    PROVE  LET news == SetToSeq(S) IN MarkedList([k \in DOMAIN news |-> NewsItem(news[k], x)])
  <1> DEFINE news == SetToSeq(S)
             items == [k \in DOMAIN news |-> NewsItem(news[k], x)]
             R == {items[k] : k \in DOMAIN items}
  <1>1. PICK f \in [1..Cardinality(S) -> S] : IsInjective(f)
    <2>1. IsFiniteSet(S)
      BY TextInputs, FS_Subset
    <2>2. ExistsBijection(1..Cardinality(S), S)
      BY <2>1, FS_CardinalityType
    <2> QED BY <2>2 DEF ExistsBijection, Bijection, Injection
  <1>2. news \in [1..Cardinality(S) -> S] /\ Cardinality(S) \in Nat
    <2>1. IsFiniteSet(S)
      BY TextInputs, FS_Subset
    <2> QED BY <1>1, <2>1, FS_CardinalityType DEF SetToSeq
  <1>3. items \in Seq(R)
    <2>1. DOMAIN items = 1..Cardinality(S) /\ items = [k \in 1..Cardinality(S) |-> items[k]]
      BY <1>2
    <2>2. \A k \in 1..Cardinality(S) : items[k] \in R
      BY <2>1
    <2> HIDE DEF items, R
    <2> QED BY <1>2, <2>1, <2>2
  <1>4. \A r \in R : SaysItsCuts(r)
    <2>1. \A k \in DOMAIN items : items[k].kind = "news"
      BY DEF NewsItem
    <2> QED BY <2>1 DEF SaysItsCuts
  <1> HIDE DEF items, R
  <1>5. MarkedList(items)
    BY <1>3, <1>4 DEF MarkedList
  <1> QED BY <1>5 DEF items

LEMMA CalendarIsMarked == SaysItsCuts(CalendarItem)
  BY DEF SaysItsCuts, CalendarItem

(* The filings of a window are of the listing.                             *)
LEMMA ListedIsRecords ==
    /\ Listing \in Seq(Listed) /\ Listed \subseteq FilingRecords
    /\ \A f \in Listed : FilingOf(f.id) = f
  <1>1. Listing \in Seq(FilingRecords)
    BY TextInputs
  <1>2. Listing \in Seq(Listed)
    BY <1>1 DEF Listed, Range
  <1>3. Listed \subseteq FilingRecords
    BY <1>1 DEF Listed, Range
  <1>4. \A f, g \in Listed : f.id = g.id => f = g
    BY TextInputs DEF Listed, Range
  <1> QED BY <1>2, <1>3, <1>4 DEF FilingOf, Listed

LEMMA ByDateIsListed ==
    ASSUME NEW s \in Seq(Listed), NEW f \in Listed
    PROVE  ByDate(s, f) \in Seq(Listed)
  <1> DEFINE newer == {i \in DOMAIN s : s[i].filed >= f.filed}
             at == 1 + Cardinality(newer)
  <1>1. Cardinality(newer) \in Nat /\ Cardinality(newer) <= Len(s)
    <2>1. DOMAIN s = 1..Len(s) /\ Len(s) \in Nat
      OBVIOUS
    <2>2. IsFiniteSet(1..Len(s)) /\ Cardinality(1..Len(s)) = Len(s)
      BY <2>1, FS_Interval
    <2>3. newer \subseteq 1..Len(s)
      BY <2>1
    <2> HIDE DEF newer
    <2> QED BY <2>2, <2>3, FS_Subset, FS_CardinalityType
  <1>2. ByDate(s, f) = SubSeq(s, 1, at - 1) \o <<f>> \o SubSeq(s, at, Len(s))
    BY DEF ByDate, InsertAt
  <1>3. at \in Int /\ at >= 1 /\ at - 1 <= Len(s) /\ at - 1 \in Int /\ Len(s) \in Int
    BY <1>1
  <1> HIDE DEF at
  <1>4. (\A i \in 1..(at - 1) : s[i] \in Listed) /\ (\A i \in at..Len(s) : s[i] \in Listed)
    BY <1>3
  <1>5. SubSeq(s, 1, at - 1) \in Seq(Listed)
    BY <1>3, <1>4, SubSeqProperties
  <1>6. SubSeq(s, at, Len(s)) \in Seq(Listed)
    BY <1>3, <1>4, SubSeqProperties
  <1> QED BY <1>2, <1>5, <1>6

LEMMA FirstAreOf ==
    ASSUME NEW S, NEW s \in Seq(S), NEW n \in Nat
    PROVE  /\ FirstOf(s, n) \in Seq(S)
           /\ Len(FirstOf(s, n)) = IF Len(s) < n THEN Len(s) ELSE n
           /\ \A i \in 1..Len(FirstOf(s, n)) : FirstOf(s, n)[i] = s[i]
  <1> DEFINE m == IF Len(s) < n THEN Len(s) ELSE n
  <1>1. m \in Nat /\ m <= Len(s) /\ \A i \in 1..m : s[i] \in S
    OBVIOUS
  <1>2. FirstOf(s, n) = SubSeq(s, 1, m)
    BY DEF FirstOf
  <1> HIDE DEF m
  <1>3. /\ SubSeq(s, 1, m) \in Seq(S)
        /\ Len(SubSeq(s, 1, m)) = IF 1 <= m THEN m - 1 + 1 ELSE 0
        /\ \A i \in 1..(m - 1 + 1) : SubSeq(s, 1, m)[i] = s[1 + i - 1]
    BY <1>1, SubSeqProperties
  <1>4. Len(SubSeq(s, 1, m)) = m /\ \A i \in 1..m : SubSeq(s, 1, m)[i] = s[i]
    BY <1>1, <1>3
  <1>5. /\ FirstOf(s, n) \in Seq(S) /\ Len(FirstOf(s, n)) = m
        /\ \A i \in 1..m : FirstOf(s, n)[i] = s[i]
    BY <1>2, <1>3, <1>4
  <1> QED BY <1>5 DEF m

(* The window's filings, sorted by insertion: a list with every filing of  *)
(* a set once, the most recent first.                                      *)
SortedList(s, S) ==
    /\ s \in Seq(Listed)
    /\ \A i, j \in 1..Len(s) : i < j => s[i].filed >= s[j].filed
    /\ \A i, j \in 1..Len(s) : s[i] = s[j] => i = j
    /\ \A i \in 1..Len(s) : s[i] \in S
    /\ \A f \in S : \E i \in 1..Len(s) : s[i] = f

(* What holds of a number holds of all below it: the first so many.        *)
LEMMA FirstSoMany ==
    ASSUME NEW N \in Nat, NEW D \in SUBSET (1..N),
           \A i, j \in 1..N : i < j /\ j \in D => i \in D
    PROVE  Cardinality(D) \in 0..N /\ D = 1..Cardinality(D)
  <1>1. CASE D = {}
    <2>1. Cardinality(D) = 0
      BY <1>1, FS_EmptySet
    <2> QED BY <1>1, <2>1
  <1>2. CASE D # {}
    <2>1. Max(D) \in D /\ \A i \in D : i <= Max(D)
      <3>1. D \in SUBSET Nat /\ \A i \in D : i <= N
        OBVIOUS
      <3> QED BY <1>2, <3>1, GreatestNatural
    <2> DEFINE m == Max(D)
    <2> HIDE DEF m
    <2>2. m \in 1..N /\ m \in D /\ \A i \in D : i <= m
      BY <2>1 DEF m
    <2>3. D = 1..m
      <3>1. \A x \in D : x \in 1..m
        BY <2>2
      <3>2. \A x \in 1..m : x = m \/ (x \in 1..N /\ x < m)
        BY <2>2
      <3>3. \A x \in 1..m : x \in D
        BY <2>2, <3>2
      <3> QED BY <3>1, <3>3
    <2>4. Cardinality(1..m) = m
      BY <2>2, FS_Interval
    <2> QED BY <2>2, <2>3, <2>4
  <1> QED BY <1>1, <1>2

(* The filing goes behind those that are as recent.                        *)
InsertedIn(s, f, t) ==
    \E c \in 0..Len(s) :
        /\ \A i \in 1..Len(s) : s[i].filed >= f.filed <=> i <= c
        /\ t \in Seq(Listed) /\ Len(t) = Len(s) + 1
        /\ \A i \in 1..c : t[i] = s[i]
        /\ t[c + 1] = f
        /\ \A i \in (c + 2)..(Len(s) + 1) : t[i] = s[i - 1]

LEMMA ByDateInserts ==
    ASSUME NEW S, NEW s, SortedList(s, S), NEW f \in Listed
    PROVE  InsertedIn(s, f, ByDate(s, f))
  <1> DEFINE N == Len(s)
             newer == {i \in DOMAIN s : s[i].filed >= f.filed}
             c == Cardinality(newer)
  <1>1. /\ s \in Seq(Listed) /\ N \in Nat /\ DOMAIN s = 1..N
        /\ \A i, j \in 1..N : i < j => s[i].filed >= s[j].filed
        /\ f.filed \in Nat /\ \A i \in 1..N : s[i] \in Listed /\ s[i].filed \in Nat
    <2>1. s \in Seq(Listed) /\ \A i, j \in 1..N : i < j => s[i].filed >= s[j].filed
      BY DEF SortedList
    <2>2. \A g \in Listed : g.filed \in Nat
      BY ListedIsRecords DEF FilingRecords
    <2> QED BY <2>1, <2>2
  <1>2. c \in 0..N /\ newer = 1..c
    <2>1. newer \in SUBSET (1..N)
      BY <1>1
    <2>2. \A i, j \in 1..N : i < j /\ j \in newer => i \in newer
      BY <1>1
    <2> HIDE DEF newer, N
    <2> QED BY <1>1, <2>1, <2>2, FirstSoMany
  <1>3. \A i \in 1..N : s[i].filed >= f.filed <=> i <= c
    <2>1. \A i \in 1..N : s[i].filed >= f.filed <=> i \in newer
      BY <1>1
    <2> HIDE DEF newer, c
    <2> QED BY <1>2, <2>1
  <1> DEFINE at == 1 + c
             before == SubSeq(s, 1, at - 1)
             after == SubSeq(s, at, N)
  <1>4. ByDate(s, f) = before \o <<f>> \o after
    BY DEF ByDate, InsertAt
  <1> HIDE DEF newer, c, N
  <1>5. at \in 1..(N + 1) /\ at - 1 = c /\ c \in Int /\ N \in Int
    BY <1>1, <1>2
  <1>6. before \in Seq(Listed) /\ Len(before) = c /\ \A i \in 1..c : before[i] = s[i]
    <2>1. \A i \in 1..c : s[i] \in Listed
      BY <1>1, <1>2
    <2>2. /\ SubSeq(s, 1, c) \in Seq(Listed)
          /\ Len(SubSeq(s, 1, c)) = IF 1 <= c THEN c - 1 + 1 ELSE 0
          /\ \A i \in 1..(c - 1 + 1) : SubSeq(s, 1, c)[i] = s[1 + i - 1]
      BY <1>1, <1>5, <2>1, SubSeqProperties
    <2>3. before = SubSeq(s, 1, c)
      BY <1>5
    <2> HIDE DEF before
    <2> QED BY <1>2, <1>5, <2>2, <2>3
  <1>7. /\ after \in Seq(Listed) /\ Len(after) = N - c
        /\ \A i \in 1..(N - c) : after[i] = s[c + i]
    <2>1. \A i \in at..N : s[i] \in Listed
      BY <1>1, <1>5
    <2>2. /\ SubSeq(s, at, N) \in Seq(Listed)
          /\ Len(SubSeq(s, at, N)) = IF at <= N THEN N - at + 1 ELSE 0
          /\ \A i \in 1..(N - at + 1) : SubSeq(s, at, N)[i] = s[at + i - 1]
      BY <1>1, <1>5, <2>1, SubSeqProperties
    <2> HIDE DEF at
    <2>3. \A i \in 1..(N - c) : at + i - 1 = c + i /\ N - at + 1 = N - c
      BY <1>1, <1>2, <1>5
    <2>4. Len(SubSeq(s, at, N)) = N - c
      BY <1>1, <1>2, <1>5, <2>2
    <2> QED BY <2>2, <2>3, <2>4
  <1> HIDE DEF before, after, at
  <1> DEFINE front == before \o <<f>>
             t == front \o after
  <1>8. <<f>> \in Seq(Listed) /\ Len(<<f>>) = 1 /\ <<f>>[1] = f
    OBVIOUS
  <1>9. /\ front \in Seq(Listed) /\ Len(front) = c + 1
        /\ \A i \in 1..(c + 1) : front[i] = IF i <= c THEN s[i] ELSE f
    <2>1. /\ front \in Seq(Listed) /\ Len(front) = Len(before) + 1
          /\ \A i \in 1..(Len(before) + 1) :
                front[i] = IF i <= Len(before) THEN before[i] ELSE <<f>>[i - Len(before)]
      BY <1>6, <1>8, ConcatProperties
    <2> HIDE DEF front
    <2>2. \A i \in 1..(c + 1) : ~(i <= c) => i - c = 1
      BY <1>5
    <2> QED BY <1>5, <1>6, <1>8, <2>1, <2>2
  <1> HIDE DEF front
  <1>10. /\ t \in Seq(Listed) /\ Len(t) = N + 1
         /\ \A i \in 1..(N + 1) : t[i] = IF i <= c + 1 THEN front[i] ELSE after[i - (c + 1)]
    <2>1. /\ t \in Seq(Listed) /\ Len(t) = Len(front) + Len(after)
          /\ \A i \in 1..(Len(front) + Len(after)) :
                t[i] = IF i <= Len(front) THEN front[i] ELSE after[i - Len(front)]
      BY <1>7, <1>9, ConcatProperties
    <2> HIDE DEF t
    <2>2. Len(front) + Len(after) = N + 1
      BY <1>1, <1>2, <1>7, <1>9
    <2> QED BY <1>9, <2>1, <2>2
  <1> HIDE DEF t
  <1>11. \A i \in 1..c : t[i] = s[i]
    BY <1>1, <1>2, <1>9, <1>10
  <1>12. t[c + 1] = f
    <2> DEFINE k == c + 1
    <2>1. k \in 1..(N + 1) /\ k \in 1..(c + 1) /\ ~(k <= c) /\ k <= c + 1
      BY <1>1, <1>2
    <2> HIDE DEF k
    <2>2. t[k] = f
      BY <1>9, <1>10, <2>1
    <2> QED BY <2>2 DEF k
  <1>13. \A i \in (c + 2)..(N + 1) : t[i] = s[i - 1]
    <2> SUFFICES ASSUME NEW i \in (c + 2)..(N + 1) PROVE t[i] = s[i - 1]
      OBVIOUS
    <2> DEFINE k == i - (c + 1)
    <2>1. i \in 1..(N + 1) /\ ~(i <= c + 1) /\ k \in 1..(N - c) /\ c + k = i - 1
      BY <1>1, <1>2
    <2> HIDE DEF k
    <2>2. after[k] = s[c + k]
      BY <1>7, <2>1
    <2> QED BY <1>10, <2>1, <2>2 DEF k
  <1>14. ByDate(s, f) = t
    BY <1>4 DEF t, front
  <1> QED BY <1>2, <1>3, <1>10, <1>11, <1>12, <1>13, <1>14 DEF N, InsertedIn

LEMMA ByDateSorts ==
    ASSUME NEW S, NEW s, SortedList(s, S), NEW f \in Listed, f \notin S
    PROVE  SortedList(ByDate(s, f), S \cup {f})
  <1> DEFINE N == Len(s)
             t == ByDate(s, f)
  <1>1. /\ s \in Seq(Listed) /\ N \in Nat
        /\ \A i, j \in 1..N : i < j => s[i].filed >= s[j].filed
        /\ \A i, j \in 1..N : s[i] = s[j] => i = j
        /\ \A i \in 1..N : s[i] \in S
        /\ \A g \in S : \E i \in 1..N : s[i] = g
        /\ f.filed \in Nat /\ \A i \in 1..N : s[i].filed \in Nat
    <2>1. \A g \in Listed : g.filed \in Nat
      BY ListedIsRecords DEF FilingRecords
    <2> QED BY <2>1 DEF SortedList
  <1>2. PICK c \in 0..N :
              /\ \A i \in 1..N : s[i].filed >= f.filed <=> i <= c
              /\ t \in Seq(Listed) /\ Len(t) = N + 1
              /\ \A i \in 1..c : t[i] = s[i]
              /\ t[c + 1] = f
              /\ \A i \in (c + 2)..(N + 1) : t[i] = s[i - 1]
    <2>1. InsertedIn(s, f, ByDate(s, f))
      BY ByDateInserts
    <2> QED BY <2>1 DEF InsertedIn
  <1> HIDE DEF N, t
  <1> DEFINE from(i) == IF i <= c THEN i ELSE i - 1
  <1>3. \A i \in 1..(N + 1) : i = c + 1 \/ (from(i) \in 1..N /\ t[i] = s[from(i)])
    <2> SUFFICES ASSUME NEW i \in 1..(N + 1), i # c + 1
                 PROVE  from(i) \in 1..N /\ t[i] = s[from(i)]
      OBVIOUS
    <2>1. CASE i <= c
      BY <1>1, <1>2, <2>1
    <2>2. CASE ~(i <= c)
      <3>1. i \in (c + 2)..(N + 1) /\ i - 1 \in 1..N
        BY <1>1, <1>2, <2>2
      <3> QED BY <1>2, <2>2, <3>1
    <2> QED BY <2>1, <2>2
  <1>4. ASSUME NEW i \in 1..(N + 1), NEW j \in 1..(N + 1), i < j
        PROVE  t[i].filed >= t[j].filed /\ t[i] # t[j]
    <2>1. CASE i = c + 1
      <3>1. from(j) \in 1..N /\ t[j] = s[from(j)] /\ ~(from(j) <= c)
        BY <1>1, <1>2, <1>3, <1>4, <2>1
      <3>2. ~(s[from(j)].filed >= f.filed) /\ s[from(j)] \in S /\ s[from(j)].filed \in Nat
        BY <1>1, <1>2, <3>1
      <3> HIDE DEF from
      <3> QED BY <1>1, <1>2, <2>1, <3>1, <3>2
    <2>2. CASE j = c + 1
      <3>1. from(i) \in 1..N /\ t[i] = s[from(i)] /\ from(i) <= c
        BY <1>1, <1>2, <1>3, <1>4, <2>2
      <3>2. s[from(i)].filed >= f.filed /\ s[from(i)] \in S
        BY <1>1, <1>2, <3>1
      <3> HIDE DEF from
      <3> QED BY <1>1, <1>2, <2>2, <3>1, <3>2
    <2>3. CASE i # c + 1 /\ j # c + 1
      <3>1. /\ from(i) \in 1..N /\ t[i] = s[from(i)]
            /\ from(j) \in 1..N /\ t[j] = s[from(j)]
        BY <1>3, <2>3
      <3>2. from(i) < from(j)
        BY <1>1, <1>2, <1>4, <2>3
      <3> HIDE DEF from
      <3>3. from(i) # from(j)
        BY <3>1, <3>2
      <3> QED BY <1>1, <3>1, <3>2, <3>3
    <2> QED BY <2>1, <2>2, <2>3
  <1>5. \A i, j \in 1..(N + 1) : i < j => t[i].filed >= t[j].filed
    BY <1>4
  <1>6. \A i, j \in 1..(N + 1) : t[i] = t[j] => i = j
    <2> SUFFICES ASSUME NEW i \in 1..(N + 1), NEW j \in 1..(N + 1), i # j PROVE t[i] # t[j]
      OBVIOUS
    <2>1. i < j \/ j < i
      BY <1>1
    <2> QED BY <1>4, <2>1
  <1>7. \A i \in 1..(N + 1) : t[i] \in S \cup {f}
    BY <1>1, <1>2, <1>3
  <1>8. ASSUME NEW g \in S \cup {f} PROVE \E i \in 1..(N + 1) : t[i] = g
    <2>1. c + 1 \in 1..(N + 1)
      BY <1>1, <1>2
    <2>2. CASE g = f
      BY <1>2, <2>1, <2>2
    <2>3. CASE g \in S
      <3>1. PICK k \in 1..N : s[k] = g
        BY <1>1, <2>3
      <3>2. CASE k <= c
        <4>1. k \in 1..c /\ k \in 1..(N + 1)
          BY <1>1, <1>2, <3>2
        <4> QED BY <1>2, <3>1, <4>1
      <3>3. CASE ~(k <= c)
        <4> DEFINE i == k + 1
        <4>1. i \in (c + 2)..(N + 1) /\ i \in 1..(N + 1) /\ i - 1 = k
          BY <1>1, <1>2, <3>3
        <4> HIDE DEF i
        <4> QED BY <1>2, <3>1, <4>1
      <3> QED BY <3>2, <3>3
    <2> QED BY <2>2, <2>3
  <1>9. Len(t) = N + 1 /\ t \in Seq(Listed)
    BY <1>2
  <1>10. SortedList(t, S \cup {f})
    BY <1>5, <1>6, <1>7, <1>8, <1>9 DEF SortedList
  <1> QED BY <1>10 DEF t

(* Filing by filing of the listing, the list of those in the window.       *)
Recent(x, since, asOf) == {f \in Listed : InWindow(f, x, since, asOf)}

LEMMA RecentAreSorted ==
    ASSUME NEW x, NEW since, NEW asOf
    PROVE  \E s : /\ SortedList(s, Recent(x, since, asOf))
                  /\ RecentFilings(x, since, asOf) = FirstOf(s, FilingLimit)
  <1> DEFINE N == Len(Listing)
             within(n) == InWindow(Listing[n], x, since, asOf)
             advance == [n \in 1..N |-> [u \in Seq(Listed) |->
                         IF within(n) THEN ByDate(u, Listing[n]) ELSE u]]
             newest == CHOOSE f : f = [n \in 0..N |->
                          IF n = 0 THEN <<>> ELSE IF within(n) THEN ByDate(f[n - 1], Listing[n])
                          ELSE f[n - 1]]
  <1>1. N \in Nat /\ <<>> \in Seq(Listed) /\ \A n \in 1..N : Listing[n] \in Listed
    BY ListedIsRecords
  <1> HIDE DEF within
  <1>2. StaysIn(Seq(Listed), advance, N)
    <2>1. ASSUME NEW n \in 1..N, NEW u \in Seq(Listed) PROVE advance[n][u] \in Seq(Listed)
      <3>1. ByDate(u, Listing[n]) \in Seq(Listed)
        BY <1>1, ByDateIsListed
      <3> QED BY <3>1
    <2> HIDE DEF advance, N
    <2> QED BY <2>1 DEF StaysIn
  <1>3. PICK f \in [0..N -> Seq(Listed)] : Iterates(f, <<>>, advance, N)
    <2> HIDE DEF advance, N
    <2> QED BY <1>1, <1>2, RecursionExists
  <1>4. f[0] = <<>> /\ \A n \in 1..N : f[n] = IF within(n) THEN ByDate(f[n - 1], Listing[n])
                                             ELSE f[n - 1]
    <2>1. f[0] = <<>> /\ \A n \in 1..N : f[n] = advance[n][f[n - 1]]
      <3> HIDE DEF advance
      <3> QED BY <1>3 DEF Iterates
    <2>2. ASSUME NEW n \in 1..N
          PROVE  f[n] = IF within(n) THEN ByDate(f[n - 1], Listing[n]) ELSE f[n - 1]
      <3>1. n - 1 \in 0..N
        BY <1>1
      <3> DEFINE u == f[n - 1]
      <3>2. u \in Seq(Listed) /\ f[n] = advance[n][u]
        <4> HIDE DEF N, advance
        <4> QED BY <1>3, <2>1, <3>1
      <3> HIDE DEF u
      <3>3. advance[n][u] = IF within(n) THEN ByDate(u, Listing[n]) ELSE u
        BY <3>2
      <3>4. f[n] = IF within(n) THEN ByDate(u, Listing[n]) ELSE u
        BY <3>2, <3>3
      <3> QED BY <3>4 DEF u
    <2> HIDE DEF advance
    <2> QED BY <2>1, <2>2
  <1>5. f = [n \in 0..N |-> IF n = 0 THEN <<>> ELSE IF within(n) THEN ByDate(f[n - 1], Listing[n])
                            ELSE f[n - 1]]
    <2>1. \A n \in 0..N : n = 0 \/ n \in 1..N
      BY <1>1
    <2> HIDE DEF N
    <2> QED BY <1>3, <1>4, <2>1
  <1>6. newest = [n \in 0..N |-> IF n = 0 THEN <<>>
                                 ELSE IF within(n) THEN ByDate(newest[n - 1], Listing[n])
                                 ELSE newest[n - 1]]
    BY <1>5
  <1> DEFINE T(n) == {Listing[k] : k \in {j \in 1..n : within(j)}}
  <1>7. \A n \in 0..N : SortedList(newest[n], T(n))
    <2> DEFINE G == {n \in 0..N : SortedList(newest[n], T(n))}
    <2> HIDE DEF newest
    <2>1. 0 \in G
      <3>1. T(0) = {}
        OBVIOUS
      <3>2. newest[0] = <<>> /\ 0 \in 0..N
        BY <1>1, <1>6
      <3>3. SortedList(<<>>, {})
        BY DEF SortedList
      <3> HIDE DEF T
      <3> QED BY <3>1, <3>2, <3>3
    <2>2. ASSUME NEW n \in 1..N, n - 1 \in G PROVE n \in G
      <3> DEFINE u == newest[n - 1]
                 e == Listing[n]
      <3>1. n \in 0..N /\ n # 0 /\ SortedList(u, T(n - 1)) /\ e \in Listed
        <4> HIDE DEF T
        <4> QED BY <1>1, <2>2
      <3>2. newest[n] = IF within(n) THEN ByDate(u, e) ELSE u
        <4> HIDE DEF N, T
        <4> QED BY <1>6, <3>1
      <3>3. \A j : j \in 1..n <=> j \in 1..(n - 1) \/ j = n
        BY <1>1
      <3>4. T(n) = IF within(n) THEN T(n - 1) \cup {e} ELSE T(n - 1)
        BY <3>3
      <3>5. e \notin T(n - 1)
        <4>1. \A j \in 1..(n - 1) : j \in DOMAIN Listing /\ n \in DOMAIN Listing /\ j # n
          BY <1>1, ListedIsRecords
        <4> QED BY <4>1, TextInputs
      <3> HIDE DEF u, e, T
      <3>6. SortedList(newest[n], T(n))
        BY <3>1, <3>2, <3>4, <3>5, ByDateSorts
      <3> QED BY <3>1, <3>6
    <2>3. \A n \in 0..N : n \in G
      <3> HIDE DEF G, N
      <3> QED BY <1>1, <2>1, <2>2, Induction
    <2> QED BY <2>3
  <1>8. RecentFilings(x, since, asOf) = FirstOf(newest[N], FilingLimit)
    BY DEF RecentFilings, within
  <1>9. T(N) = Recent(x, since, asOf)
    <2>1. \A e : e \in Listed <=> \E k \in 1..N : e = Listing[k]
      BY ListedIsRecords DEF Listed, Range
    <2> QED BY <1>1, <2>1 DEF Recent, within
  <1>10. SortedList(newest[N], T(N))
    <2> HIDE DEF newest, T
    <2> QED BY <1>1, <1>7
  <1> HIDE DEF newest, T
  <1> QED BY <1>8, <1>9, <1>10

LEMMA RecentAreListed ==
    ASSUME NEW x, NEW since, NEW asOf
    PROVE  RecentFilings(x, since, asOf) \in Seq(Listed)
  <1>1. PICK s : s \in Seq(Listed) /\ RecentFilings(x, since, asOf) = FirstOf(s, FilingLimit)
    BY RecentAreSorted DEF SortedList
  <1>2. FilingLimit \in Nat
    BY TextInputs
  <1> QED BY <1>1, <1>2, FirstAreOf

LEMMA ListedIsFinite == IsFiniteSet(Listed)
  <1>1. Listing \in Seq(Listed)
    BY ListedIsRecords
  <1>2. Listing \in Surjection(1..Len(Listing), Listed) /\ IsFiniteSet(1..Len(Listing))
    <2>1. \A f \in Listed : \E k \in 1..Len(Listing) : Listing[k] = f
      BY <1>1 DEF Listed, Range
    <2>2. Len(Listing) \in Nat /\ Listing \in [1..Len(Listing) -> Listed]
      BY <1>1
    <2> QED BY <2>1, <2>2, FS_Interval DEF Surjection
  <1> QED BY <1>2, FS_Surjection

(* The newest of a window: as many as the limit are at least as recent.     *)
Newest(x, since, asOf) ==
    {f \in Recent(x, since, asOf) :
        Cardinality({g \in Recent(x, since, asOf) : g.filed >= f.filed}) <= FilingLimit}

LEMMA NewestAreAsked ==
    ASSUME NEW x, NEW since, NEW asOf, NEW f \in Newest(x, since, asOf)
    PROVE  \E i \in 1..Len(RecentFilings(x, since, asOf)) : RecentFilings(x, since, asOf)[i] = f
  <1> DEFINE S == Recent(x, since, asOf)
             as == {g \in S : g.filed >= f.filed}
             r == RecentFilings(x, since, asOf)
  <1>1. f \in S /\ Cardinality(as) <= FilingLimit
    BY DEF Newest
  <1>2. PICK s : SortedList(s, S) /\ r = FirstOf(s, FilingLimit)
    BY RecentAreSorted
  <1>3. PICK i \in 1..Len(s) : s[i] = f
    BY <1>1, <1>2 DEF SortedList
  <1>4. s \in Seq(Listed) /\ FilingLimit \in Nat /\ Len(s) \in Nat
    BY <1>2, TextInputs DEF SortedList
  <1>5. IsFiniteSet(as)
    <2>1. as \subseteq Listed
      BY DEF Recent
    <2> HIDE DEF as
    <2> QED BY <2>1, ListedIsFinite, FS_Subset
  <1>6. i <= Cardinality(as)
    <2> DEFINE h == [j \in 1..i |-> s[j]]
    <2>1. \A j \in 1..i : j \in 1..Len(s) /\ s[j] \in as
      <3>1. \A j \in 1..i : j \in 1..Len(s) /\ (j < i \/ j = i)
        BY <1>3, <1>4
      <3>2. \A j \in 1..i : s[j] \in S /\ s[j].filed >= s[i].filed
        <4>1. \A j \in 1..Len(s) : s[j] \in S /\ s[j].filed \in Nat
          BY <1>2, <1>4, ListedIsRecords DEF SortedList, FilingRecords
        <4>2. \A j \in 1..i : j < i => s[j].filed >= s[i].filed
          <5> HIDE DEF S
          <5> QED BY <1>2, <1>3, <3>1 DEF SortedList
        <4> HIDE DEF S
        <4> QED BY <1>3, <3>1, <4>1, <4>2
      <3> QED BY <1>3, <3>1, <3>2
    <2>2. h \in Injection(1..i, as)
      <3>1. \A j, k \in 1..i : s[j] = s[k] => j = k
        <4> HIDE DEF S, as
        <4> QED BY <1>2, <2>1 DEF SortedList
      <3> HIDE DEF as
      <3> QED BY <2>1, <3>1 DEF Injection, IsInjective
    <2>3. Cardinality(1..i) <= Cardinality(as)
      <3> HIDE DEF h, as
      <3> QED BY <1>5, <2>2, FS_Injection
    <2>4. Cardinality(1..i) = i
      BY <1>3, <1>4, FS_Interval
    <2> HIDE DEF as
    <2> QED BY <2>3, <2>4
  <1>7. i <= FilingLimit
    <2>1. Cardinality(as) \in Nat
      <3> HIDE DEF as
      <3> QED BY <1>5, FS_CardinalityType
    <2> DEFINE n == Cardinality(as)
    <2>2. n \in Nat /\ i <= n /\ n <= FilingLimit /\ i \in Int /\ FilingLimit \in Nat
      BY <1>1, <1>3, <1>4, <1>6, <2>1
    <2> HIDE DEF n
    <2> QED BY <2>2
  <1> HIDE DEF r, S, as
  <1>8. /\ Len(r) = IF Len(s) < FilingLimit THEN Len(s) ELSE FilingLimit
        /\ \A k \in 1..Len(r) : r[k] = s[k]
    BY <1>2, <1>4, FirstAreOf
  <1>9. i \in 1..Len(r)
    BY <1>3, <1>4, <1>7, <1>8
  <1> QED BY <1>3, <1>8, <1>9 DEF r
-----------------------------------------------------------------------------
(* A text under way: what each step does to it.                            *)
LEMMA ExhibitsAreNumbers ==
    ASSUME NEW f \in Listed
    PROVE  /\ f.exhibits \in Seq(Nat) /\ MaxExhibits \in Nat \ {0} /\ ExhibitBudget \in Nat
           /\ FirstOf(f.exhibits, MaxExhibits) \in Seq(Nat)
           /\ Len(FirstOf(f.exhibits, MaxExhibits)) <= Len(f.exhibits)
           /\ \A i \in 1..Len(FirstOf(f.exhibits, MaxExhibits)) :
                 FirstOf(f.exhibits, MaxExhibits)[i] = f.exhibits[i]
           /\ Len(f.exhibits) <= MaxExhibits =>
                 Len(FirstOf(f.exhibits, MaxExhibits)) = Len(f.exhibits)
  <1>1. f.exhibits \in Seq(Nat)
    BY ListedIsRecords DEF FilingRecords
  <1>2. MaxExhibits \in Nat \ {0} /\ ExhibitBudget \in Nat
    BY TextInputs
  <1> DEFINE e == f.exhibits
             first == FirstOf(e, MaxExhibits)
  <1>3. /\ first \in Seq(Nat) /\ Len(first) = IF Len(e) < MaxExhibits THEN Len(e) ELSE MaxExhibits
        /\ \A i \in 1..Len(first) : first[i] = e[i]
    <2> HIDE DEF first
    <2> QED BY <1>1, <1>2, FirstAreOf DEF first
  <1> HIDE DEF first, e
  <1>4. Len(e) \in Nat
    BY <1>1 DEF e
  <1>5. Len(first) <= Len(e) /\ (Len(e) <= MaxExhibits => Len(first) = Len(e))
    BY <1>2, <1>3, <1>4
  <1> QED BY <1>1, <1>2, <1>3, <1>5 DEF first, e

(* One more exhibit is whole, or it took the rest of the budget.           *)
LEMMA OneMoreExhibit ==
    ASSUME NEW t, NEW f \in Listed, TextInv(t, f), t.part = "exhibits",
           Len(t.kept) < Len(FirstOf(f.exhibits, MaxExhibits)), t.room > 0,
           NEW size, size = FirstOf(f.exhibits, MaxExhibits)[Len(t.kept) + 1],
           NEW kept, kept = IF size < t.room THEN size ELSE t.room,
           NEW u, u.part = "exhibits", u.listed = t.listed,
           u.kept = Append(t.kept, kept), u.room = t.room - kept,
           u.marks = IF kept < size THEN t.marks \cup {"cut"} ELSE t.marks
    PROVE  TextInv(u, f)
  <1> DEFINE e == f.exhibits
             first == FirstOf(e, MaxExhibits)
             n == Len(t.kept)
  <1>0. /\ e \in Seq(Nat) /\ first \in Seq(Nat) /\ Len(first) <= Len(e)
        /\ \A i \in 1..Len(first) : first[i] = e[i]
    BY ExhibitsAreNumbers
  <1>1. /\ t.kept \in Seq(Nat) /\ t.room \in Nat /\ t.marks \subseteq {"cut"}
        /\ Chars(t.kept) + t.room = ExhibitBudget /\ t.listed = Len(e)
        /\ "cut" \notin t.marks /\ \A i \in 1..n : t.kept[i] = e[i]
    BY DEF TextInv
  <1>2. n \in Nat /\ n < Len(first) /\ size = first[n + 1]
    BY <1>1
  <1> HIDE DEF e, first
  <1>3. size = e[n + 1] /\ size \in Nat /\ n + 1 <= Len(e)
    <2>1. n + 1 \in 1..Len(first) /\ n + 1 <= Len(e)
      BY <1>0, <1>2
    <2>a. \A i \in 1..Len(first) : first[i] = e[i] /\ first[i] \in Nat
      BY <1>0
    <2> DEFINE i == n + 1
    <2>b. i \in 1..Len(first)
      BY <2>1
    <2> HIDE DEF i
    <2>2. first[i] = e[i] /\ first[i] \in Nat
      BY <2>a, <2>b
    <2> QED BY <1>2, <2>1, <2>2 DEF i
  <1>4. kept \in Nat /\ kept <= t.room /\ (kept < size => kept = t.room) /\ (~(kept < size) => kept = size)
    BY <1>1, <1>3
  <1>5. /\ u.kept \in Seq(Nat) /\ Len(u.kept) = n + 1 /\ u.room \in Nat
        /\ u.kept[n + 1] = kept /\ \A i \in 1..n : u.kept[i] = t.kept[i]
    BY <1>1, <1>4
  <1>6. Chars(u.kept) + u.room = ExhibitBudget
    <2>1. Chars(u.kept) = Chars(t.kept) + kept
      BY <1>1, <1>4, CharsOfOneMore
    <2>2. Chars(t.kept) \in Nat
      BY <1>1, CharsIsNat
    <2> QED BY <1>1, <1>4, <2>1, <2>2
  <1>7. u.marks \subseteq {"cut"}
    BY <1>1
  <1>8. CASE kept < size
    <2>1. u.room = 0 /\ "cut" \in u.marks
      BY <1>1, <1>4, <1>8
    <2> QED BY <1>1, <1>3, <1>5, <1>6, <1>7, <2>1 DEF TextInv, e
  <1>9. CASE ~(kept < size)
    <2>1. "cut" \notin u.marks
      BY <1>1, <1>9
    <2>2. \A i \in 1..(n + 1) : u.kept[i] = e[i]
      <3>1. \A i \in 1..(n + 1) : i \in 1..n \/ i = n + 1
        BY <1>2
      <3> QED BY <1>1, <1>3, <1>4, <1>5, <1>9, <3>1
    <2> QED BY <1>1, <1>3, <1>5, <1>6, <1>7, <2>1, <2>2 DEF TextInv, e
  <1> QED BY <1>8, <1>9

(* A text that is read says its cuts.                                      *)
LEMMA TextSaysItsCuts ==
    ASSUME NEW t, NEW f \in Listed, TextInv(t, f), t.part = "sections",
           NEW r, r.id = f.id, r.kept = t.kept, r.marks = t.marks \cup OmissionMark(t), r.lost = t.lost
    PROVE  SaysItsCuts(r)
  <1> DEFINE e == f.exhibits
             first == FirstOf(e, MaxExhibits)
  <1>0. /\ e \in Seq(Nat) /\ (Len(e) <= MaxExhibits => Len(first) = Len(e)) /\ MaxExhibits \in Nat
    BY ExhibitsAreNumbers
  <1>1. FilingOf(r.id) = f
    BY ListedIsRecords
  <1> SUFFICES ASSUME f.form = "8-K"
               PROVE  /\ ~ r.lost /\ Chars(r.kept) < Chars(e) => r.marks # {}
                      /\ r.kept # <<>> /\ Len(e) > MaxExhibits => "omitted" \in r.marks
                      /\ "cut" \in r.marks => Chars(r.kept) = ExhibitBudget
    BY <1>1 DEF SaysItsCuts
  <1>2. /\ t.kept \in Seq(Nat) /\ t.room \in Nat /\ t.marks \subseteq {"cut"}
        /\ Chars(t.kept) + t.room = ExhibitBudget
        /\ IF "cut" \in t.marks THEN t.room = 0 ELSE \A i \in 1..Len(t.kept) : t.kept[i] = e[i]
        /\ t.kept # <<>> => t.listed = Len(e)
        /\ ~ t.lost => t.listed = Len(e) /\ ("cut" \in t.marks \/ Len(t.kept) = Len(first))
    BY DEF TextInv
  <1> HIDE DEF e, first
  <1>3. ~ r.lost /\ Chars(r.kept) < Chars(e) => r.marks # {}
    <2> SUFFICES ASSUME ~ r.lost, r.marks = {} PROVE ~(Chars(r.kept) < Chars(e))
      OBVIOUS
    <2>1. "cut" \notin t.marks /\ ~(t.listed > MaxExhibits) /\ t.listed = Len(e)
      BY <1>2 DEF OmissionMark
    <2>2. Len(e) \in Nat
      BY <1>0
    <2>3. Len(t.kept) = Len(e)
      BY <1>0, <1>2, <2>1, <2>2
    <2>4. t.kept = e
      <3>1. \A i \in 1..Len(t.kept) : t.kept[i] = e[i]
        BY <1>2, <2>1
      <3>2. t.kept \in Seq(Nat) /\ e \in Seq(Nat)
        BY <1>0, <1>2
      <3> DEFINE k == t.kept
      <3> HIDE DEF k
      <3>3. k = e
        BY <2>3, <3>1, <3>2, SeqEqual DEF k
      <3> QED BY <3>3 DEF k
    <2>5. Chars(e) \in Nat
      BY <1>0, CharsIsNat
    <2> QED BY <2>4, <2>5
  <1>4. r.kept # <<>> /\ Len(e) > MaxExhibits => "omitted" \in r.marks
    BY <1>2 DEF OmissionMark
  <1>5. "cut" \in r.marks => Chars(r.kept) = ExhibitBudget
    <2> SUFFICES ASSUME "cut" \in r.marks PROVE Chars(t.kept) = ExhibitBudget
      OBVIOUS
    <2>1. "cut" \in t.marks
      BY DEF OmissionMark
    <2>2. Chars(t.kept) \in Nat
      BY <1>2, CharsIsNat
    <2> QED BY <1>2, <2>1, <2>2
  <1> QED BY <1>3, <1>4, <1>5

-----------------------------------------------------------------------------
(* Every step keeps the invariant.                                         *)
LEMMA CutsStart == TextInit => CutsInv
  BY DEF TextInit, CutsInv, TurnInv, TableInv, Running, NoTurn

LEMMA RestIsFine ==
    ASSUME turn'.mode \notin {"daily", "freshness"}
    PROVE  TurnInv'
  BY DEF TurnInv, Running

(* The first symbol's news is asked for.                                   *)
LEMMA BeginIsFine ==
    ASSUME NEW mode \in {"daily", "freshness"}, NEW symbols, NEW newsSince, NEW filingsSince, NEW held,
           turn' = BeginTurn(mode, symbols, newsSince, filingsSince, held)
    PROVE  TurnInv'
  <1>1. turn' = [f \in TurnFields |-> turn'[f]]
    BY DEF BeginTurn, TurnFields
  <1>2. /\ turn'.filings = <<>> /\ turn'.batch = <<>> /\ turn'.items = <<>>
        /\ turn'.part \in {"calendar", "news"}
    BY DEF BeginTurn
  <1>3. <<>> \in Seq(Listed)
    OBVIOUS
  <1> QED BY <1>1, <1>2, <1>3, MarkedNone DEF TurnInv

(* A step of a turn that reads no text.                                    *)
LEMMA BetweenTexts ==
    ASSUME turn' = [f \in TurnFields |-> turn'[f]],
           turn'.part \notin {"attachments", "exhibits", "sections"},
           turn'.filings \in Seq(Listed), MarkedList(turn'.batch), MarkedList(turn'.items)
    PROVE  TurnInv'
  BY DEF TurnInv

(* A step of a turn inside one text.                                       *)
LEMMA InsideAText ==
    ASSUME TurnInv, Running, turn.filings # <<>>,
           turn' = [f \in TurnFields |-> turn'[f]],
           turn'.filings = turn.filings, turn'.batch = turn.batch, turn'.items = turn.items,
           TextInv(turn', Filing)
    PROVE  TurnInv'
  <1>1. Filing' = Filing
    BY DEF Filing
  <1>2. TextInv(turn, Filing)' <=> TextInv(turn', Filing')
    BY DEF TextInv
  <1> QED BY <1>1, <1>2 DEF TurnInv

LEMMA CutsStep == CutsInv /\ [TextNext]_textVars => CutsInv'
  <1> SUFFICES ASSUME CutsInv, [TextNext]_textVars PROVE CutsInv'
    OBVIOUS
  <1>0. TurnInv /\ TableInv
    BY DEF CutsInv
  <1>t. table' = table => TableInv'
    BY <1>0 DEF TableInv
  <1>r. ASSUME Running
        PROVE  /\ turn = [f \in TurnFields |-> turn[f]]
               /\ turn.filings \in Seq(Listed) /\ MarkedList(turn.batch) /\ MarkedList(turn.items)
               /\ turn.part \in {"attachments", "exhibits", "sections"} =>
                     turn.filings # <<>> /\ TextInv(turn, Filing)
               /\ turn.filings # <<>> => Filing \in Listed /\ Tail(turn.filings) \in Seq(Listed)
    <2>1. /\ turn = [f \in TurnFields |-> turn[f]]
          /\ turn.filings \in Seq(Listed) /\ MarkedList(turn.batch) /\ MarkedList(turn.items)
          /\ turn.part \in {"attachments", "exhibits", "sections"} =>
                turn.filings # <<>> /\ TextInv(turn, Filing)
      BY <1>0, <1>r DEF TurnInv
    <2> QED BY <2>1, HeadTailProperties DEF Filing
  <1>a. \A part : At(part) => Running /\ turn.part = part
    BY DEF At, Running
  <1>1. CASE NextTextDay
    BY <1>1, <1>t, RestIsFine DEF NextTextDay, NoTurn, CutsInv
  <1>2. CASE BeginDaily
    <2>1. table' = table
      BY <1>2 DEF BeginDaily
    <2>2. \E symbols, a, b, held : turn' = BeginTurn("daily", symbols, a, b, held)
      BY <1>2 DEF BeginDaily
    <2> QED BY <1>t, <2>1, <2>2, BeginIsFine DEF CutsInv
  <1>3. CASE BeginFreshness
    <2>1. table' = table
      BY <1>3 DEF BeginFreshness
    <2>2. \E symbols, a, b, held : turn' = BeginTurn("freshness", symbols, a, b, held)
      BY <1>3 DEF BeginFreshness
    <2> QED BY <1>t, <2>1, <2>2, BeginIsFine DEF CutsInv
  <1>4. CASE NewsAnswers
    <2> DEFINE S == News(Symbol, turn.newsSince, textDay)
               more == LET news == SetToSeq(S) IN [k \in DOMAIN news |-> NewsItem(news[k], Symbol)]
    <2>1. Running /\ table' = table
      BY <1>4, <1>a DEF NewsAnswers
    <2>2. turn' = [turn EXCEPT !.part = "listing", !.items = turn.items \o more]
      BY <1>4 DEF NewsAnswers
    <2>3. MarkedList(more)
      <3>1. S \in SUBSET Articles
        BY DEF News
      <3> HIDE DEF S
      <3> QED BY <3>1, NewsIsMarked
    <2> HIDE DEF more
    <2>4. MarkedList(turn.items \o more)
      BY <1>r, <2>1, <2>3, MarkedConcat
    <2>5. /\ turn' = [f \in TurnFields |-> turn'[f]] /\ turn'.part = "listing"
          /\ turn'.items = turn.items \o more /\ turn'.filings = turn.filings /\ turn'.batch = turn.batch
      BY <1>r, <2>1, <2>2 DEF TurnFields
    <2> QED BY <1>r, <1>t, <2>1, <2>4, <2>5, BetweenTexts DEF CutsInv
  <1>5. CASE NewsFails
    <2>1. Running /\ table' = table
      BY <1>5, <1>a DEF NewsFails
    <2>2. /\ turn' = [f \in TurnFields |-> turn'[f]] /\ turn'.part = "listing"
          /\ turn'.items = turn.items /\ turn'.filings = turn.filings /\ turn'.batch = turn.batch
      BY <1>5, <1>r, <2>1 DEF NewsFails, TurnFields
    <2> QED BY <1>r, <1>t, <2>1, <2>2, BetweenTexts DEF CutsInv
  <1>6. CASE FilingsListed
    <2>1. Running /\ table' = table
      BY <1>6, <1>a DEF FilingsListed
    <2>2. /\ turn' = [f \in TurnFields |-> turn'[f]] /\ turn'.part = "filing" /\ turn'.batch = <<>>
          /\ turn'.filings = RecentFilings(Symbol, turn.filingsSince, textDay)
          /\ turn'.items = turn.items
      BY <1>6, <1>r, <2>1 DEF FilingsListed, TurnFields
    <2> QED BY <1>r, <1>t, <2>1, <2>2, BetweenTexts, RecentAreListed, MarkedNone DEF CutsInv
  <1>n. NextPart \in {"news", "calendar", "bundle"}
    BY DEF NextPart
  <1>s. <<>> \in Seq(Listed)
    OBVIOUS
  <1>7. CASE FilingsFail
    <2>1. Running /\ table' = table
      BY <1>7, <1>a DEF FilingsFail
    <2>2. /\ turn' = [f \in TurnFields |-> turn'[f]] /\ turn'.part = NextPart
          /\ turn'.batch = <<>> /\ turn'.filings = <<>> /\ turn'.items = turn.items
      BY <1>7, <1>r, <2>1 DEF FilingsFail, TurnFields
    <2> QED BY <1>n, <1>r, <1>s, <1>t, <2>1, <2>2, BetweenTexts, MarkedNone DEF CutsInv
  <1>8. CASE FilingsDone
    <2>1. Running /\ table' = table /\ turn.filings = <<>>
      BY <1>8, <1>a DEF FilingsDone
    <2>2. /\ turn' = [f \in TurnFields |-> turn'[f]] /\ turn'.part = NextPart
          /\ turn'.batch = <<>> /\ turn'.filings = turn.filings
          /\ turn'.items = turn.items \o turn.batch
      BY <1>8, <1>r, <2>1 DEF FilingsDone, TurnFields
    <2>3. MarkedList(turn.items \o turn.batch)
      BY <1>r, <2>1, MarkedConcat
    <2> QED BY <1>n, <1>r, <1>t, <2>1, <2>2, <2>3, BetweenTexts, MarkedNone DEF CutsInv
  <1>9. CASE NoticeRead
    <2>1. Running /\ table' = table /\ turn.filings # <<>> /\ Filing \in Listed
      BY <1>9, <1>a, <1>r DEF NoticeRead
    <2>2. /\ turn' = [f \in TurnFields |-> turn'[f]]
          /\ turn'.part = IF Filing.form = "8-K" THEN "attachments" ELSE "sections"
          /\ turn'.kept = <<>> /\ turn'.room = ExhibitBudget /\ turn'.marks = {}
          /\ turn'.filings = turn.filings /\ turn'.batch = turn.batch /\ turn'.items = turn.items
      BY <1>9, <1>r, <2>1 DEF NoticeRead, TurnFields
    <2>3. TextInv(turn', Filing)
      <3>1. <<>> \in Seq(Nat) /\ Len(<<>>) = 0 /\ 1..0 = {} /\ 0 <= Len(Filing.exhibits)
            /\ ExhibitBudget \in Nat
        BY <2>1, ExhibitsAreNumbers
      <3> HIDE DEF Filing
      <3> QED BY <2>2, <3>1, CharsOfNone DEF TextInv
    <2> QED BY <1>0, <1>t, <2>1, <2>2, <2>3, InsideAText DEF CutsInv
  <1>10. CASE AttachmentsListed
    <2>1. /\ Running /\ table' = table /\ turn.filings # <<>> /\ Filing \in Listed
          /\ TextInv(turn, Filing) /\ turn.part = "attachments"
      BY <1>10, <1>a, <1>r DEF AttachmentsListed
    <2>2. /\ turn' = [f \in TurnFields |-> turn'[f]]
          /\ turn'.part = "exhibits" /\ turn'.listed = Len(Filing.exhibits)
          /\ turn'.kept = turn.kept /\ turn'.room = turn.room /\ turn'.marks = turn.marks
          /\ turn'.filings = turn.filings /\ turn'.batch = turn.batch /\ turn'.items = turn.items
      BY <1>10, <1>r, <2>1 DEF AttachmentsListed, TurnFields
    <2>3. TextInv(turn', Filing)
      <3> HIDE DEF Filing
      <3> QED BY <2>1, <2>2 DEF TextInv
    <2> QED BY <1>0, <1>t, <2>1, <2>2, <2>3, InsideAText DEF CutsInv
  <1>11. CASE ExhibitRead
    <2> DEFINE size == ExhibitText(Len(turn.kept) + 1)
               kept == IF size < turn.room THEN size ELSE turn.room
    <2>1. /\ Running /\ table' = table /\ turn.filings # <<>> /\ Filing \in Listed
          /\ TextInv(turn, Filing) /\ turn.part = "exhibits"
          /\ Len(turn.kept) < Len(Fetchable) /\ turn.room > 0
      BY <1>11, <1>a, <1>r DEF ExhibitRead
    <2>2. turn' = [turn EXCEPT !.kept = Append(turn.kept, kept), !.room = turn.room - kept,
                     !.marks = IF kept < size THEN turn.marks \cup {"cut"} ELSE turn.marks]
      BY <1>11 DEF ExhibitRead
    <2>3. size = FirstOf(Filing.exhibits, MaxExhibits)[Len(turn.kept) + 1]
      BY DEF ExhibitText, Fetchable
    <2>4. kept = IF size < turn.room THEN size ELSE turn.room
      OBVIOUS
    <2> HIDE DEF size, kept
    <2>5. /\ turn' = [f \in TurnFields |-> turn'[f]]
          /\ turn'.part = "exhibits" /\ turn'.listed = turn.listed
          /\ turn'.kept = Append(turn.kept, kept) /\ turn'.room = turn.room - kept
          /\ turn'.marks = IF kept < size THEN turn.marks \cup {"cut"} ELSE turn.marks
          /\ turn'.filings = turn.filings /\ turn'.batch = turn.batch /\ turn'.items = turn.items
      BY <1>r, <2>1, <2>2 DEF TurnFields
    <2>6. TextInv(turn', Filing)
      <3> DEFINE f == Filing
      <3>1. /\ f \in Listed /\ TextInv(turn, f) /\ Len(turn.kept) < Len(FirstOf(f.exhibits, MaxExhibits))
            /\ size = FirstOf(f.exhibits, MaxExhibits)[Len(turn.kept) + 1]
        BY <2>1, <2>3 DEF Fetchable
      <3> HIDE DEF f
      <3>2. TextInv(turn', f)
        BY <2>1, <2>4, <2>5, <3>1, OneMoreExhibit
      <3> QED BY <3>2 DEF f
    <2> QED BY <1>0, <1>t, <2>1, <2>5, <2>6, InsideAText DEF CutsInv
  <1>12. CASE BudgetSpent
    <2>1. /\ Running /\ table' = table /\ turn.filings # <<>> /\ Filing \in Listed
          /\ TextInv(turn, Filing) /\ turn.part = "exhibits" /\ turn.room = 0
      BY <1>12, <1>a, <1>r DEF BudgetSpent
    <2>2. /\ turn' = [f \in TurnFields |-> turn'[f]]
          /\ turn'.part = "sections" /\ turn'.listed = turn.listed
          /\ turn'.kept = turn.kept /\ turn'.room = turn.room /\ turn'.marks = turn.marks \cup {"cut"}
          /\ turn'.filings = turn.filings /\ turn'.batch = turn.batch /\ turn'.items = turn.items
      BY <1>12, <1>r, <2>1 DEF BudgetSpent, SpentMark, TurnFields
    <2>3. TextInv(turn', Filing)
      <3> HIDE DEF Filing
      <3> QED BY <2>1, <2>2 DEF TextInv
    <2> QED BY <1>0, <1>t, <2>1, <2>2, <2>3, InsideAText DEF CutsInv
  <1>13. CASE ExhibitsDone
    <2>1. /\ Running /\ table' = table /\ turn.filings # <<>> /\ Filing \in Listed
          /\ TextInv(turn, Filing) /\ turn.part = "exhibits" /\ Len(turn.kept) = Len(Fetchable)
      BY <1>13, <1>a, <1>r DEF ExhibitsDone
    <2>2. /\ turn' = [f \in TurnFields |-> turn'[f]]
          /\ turn'.part = "sections" /\ turn'.listed = turn.listed
          /\ turn'.kept = turn.kept /\ turn'.room = turn.room /\ turn'.marks = turn.marks
          /\ turn'.filings = turn.filings /\ turn'.batch = turn.batch /\ turn'.items = turn.items
      BY <1>13, <1>r, <2>1 DEF ExhibitsDone, TurnFields
    <2>3. TextInv(turn', Filing)
      <3>1. Len(turn.kept) = Len(FirstOf(Filing.exhibits, MaxExhibits))
        BY <2>1 DEF Fetchable
      <3> HIDE DEF Filing
      <3> QED BY <2>1, <2>2, <3>1 DEF TextInv
    <2> QED BY <1>0, <1>t, <2>1, <2>2, <2>3, InsideAText DEF CutsInv
  <1>14. CASE ExhibitFails
    <2>1. /\ Running /\ table' = table /\ turn.filings # <<>> /\ Filing \in Listed
          /\ TextInv(turn, Filing) /\ turn.part \in {"attachments", "exhibits"}
      BY <1>14, <1>a, <1>r DEF ExhibitFails
    <2>2. /\ turn' = [f \in TurnFields |-> turn'[f]]
          /\ turn'.part = "sections" /\ turn'.listed = turn.listed /\ turn'.lost = TRUE
          /\ turn'.kept = turn.kept /\ turn'.room = turn.room /\ turn'.marks = turn.marks
          /\ turn'.filings = turn.filings /\ turn'.batch = turn.batch /\ turn'.items = turn.items
      BY <1>14, <1>r, <2>1 DEF ExhibitFails, TurnFields
    <2>3. TextInv(turn', Filing)
      <3> HIDE DEF Filing
      <3> QED BY <2>1, <2>2 DEF TextInv
    <2> QED BY <1>0, <1>t, <2>1, <2>2, <2>3, InsideAText DEF CutsInv
  <1>15. CASE FilingRead
    <2>1. /\ Running /\ table' = table /\ turn.filings # <<>> /\ Filing \in Listed
          /\ Tail(turn.filings) \in Seq(Listed)
          /\ TextInv(turn, Filing) /\ turn.part = "sections"
      BY <1>15, <1>a, <1>r DEF FilingRead
    <2>2. PICK found : turn' = [turn EXCEPT !.part = "filing", !.filings = Tail(turn.filings),
                         !.batch = Append(turn.batch,
                            [id |-> Filing.id, owner |-> Symbol, kind |-> "filing",
                             day |-> Filing.filed, kept |-> turn.kept,
                             marks |-> turn.marks \cup OmissionMark(turn),
                             lost |-> turn.lost, sections |-> found])]
      BY <1>15 DEF FilingRead
    <2> DEFINE r == [id |-> Filing.id, owner |-> Symbol, kind |-> "filing",
                     day |-> Filing.filed, kept |-> turn.kept,
                     marks |-> turn.marks \cup OmissionMark(turn),
                     lost |-> turn.lost, sections |-> found]
    <2>3. /\ r.id = Filing.id /\ r.kept = turn.kept /\ r.lost = turn.lost
          /\ r.marks = turn.marks \cup OmissionMark(turn)
      BY DEF OmissionMark
    <2>4. turn' = [turn EXCEPT !.part = "filing", !.filings = Tail(turn.filings),
                     !.batch = Append(turn.batch, r)]
      BY <2>2
    <2> HIDE DEF r
    <2>5. SaysItsCuts(r)
      <3> DEFINE f == Filing
      <3>1. f \in Listed /\ TextInv(turn, f) /\ r.id = f.id
        BY <2>1, <2>3
      <3> HIDE DEF f
      <3> QED BY <2>1, <2>3, <3>1, TextSaysItsCuts
    <2>6. MarkedList(Append(turn.batch, r))
      BY <1>r, <2>1, <2>5, MarkedAppend
    <2>7. /\ turn' = [f \in TurnFields |-> turn'[f]] /\ turn'.part = "filing"
          /\ turn'.batch = Append(turn.batch, r) /\ turn'.filings = Tail(turn.filings)
          /\ turn'.items = turn.items
      BY <1>r, <2>1, <2>4 DEF TurnFields
    <2> QED BY <1>r, <1>t, <2>1, <2>6, <2>7, BetweenTexts DEF CutsInv
  <1>16. CASE CalendarAndRecord
    <2>1. PICK answered \in BOOLEAN :
             /\ table' = Upserted(Deduplicated(IF answered THEN Append(turn.items, CalendarItem)
                                                          ELSE turn.items))
             /\ turn'.mode = "stored"
      BY <1>16 DEF CalendarAndRecord
    <2>2. Running
      BY <1>16, <1>a DEF CalendarAndRecord
    <2> DEFINE all == IF answered THEN Append(turn.items, CalendarItem) ELSE turn.items
    <2>3. MarkedList(all)
      BY <1>r, <2>2, MarkedAppend, CalendarIsMarked
    <2> HIDE DEF all
    <2>4. MarkedList(Deduplicated(all)) /\ table' = Upserted(Deduplicated(all))
      BY <2>1, <2>3, MarkedUnique DEF all
    <2>5. TableInv'
      <3> DEFINE items == Deduplicated(all)
      <3> HIDE DEF items
      <3>1. \A r \in table' : SaysItsCuts(r)
        BY <1>0, <2>4, UpsertIsMarked DEF items
      <3> QED BY <3>1 DEF TableInv
    <2> QED BY <2>1, <2>5, RestIsFine DEF CutsInv
  <1>17. CASE Bundle
    BY <1>17, <1>t, RestIsFine DEF Bundle, CutsInv
  <1>18. CASE UNCHANGED textVars
    <2>1. turn' = turn /\ table' = table
      BY <1>18 DEF textVars
    <2>2. Filing' = Filing
      BY <2>1 DEF Filing
    <2>3. TurnInv'
      BY <1>0, <2>1, <2>2 DEF TurnInv, Running, TextInv
    <2> QED BY <1>t, <2>1, <2>3 DEF CutsInv
  <1> QED
    BY <1>1, <1>2, <1>3, <1>4, <1>5, <1>6, <1>7, <1>8, <1>9, <1>10, <1>11, <1>12, <1>13, <1>14,
       <1>15, <1>16, <1>17, <1>18 DEF TextNext

(* A cut is always marked, whatever the listing, the caps, the portfolios  *)
(* and the failures: an unmarked text of which no exhibit was lost holds   *)
(* every exhibit whole, and a text that is cut uses its budget up          *)
(* (fetch_filing_texts and _exhibit_text, ingestion/edgar_client.py).      *)
THEOREM CutsAreAlwaysMarked == TextSpec => []CutsAreMarked
  <1>1. CutsInv => CutsAreMarked
    BY DEF CutsInv, TableInv, SaysItsCuts, CutsAreMarked
  <1> QED BY <1>1, CutsStart, CutsStep, PTL DEF TextSpec
-----------------------------------------------------------------------------
(* TextCollection: who is asked, and what a run that asked has in the end.  *)
LEMMA ByNameIsOf ==
    ASSUME NEW S \in SUBSET Nat, IsFiniteSet(S)
    PROVE  ByName(S) \in Seq(S)
  <1> DEFINE N == Cardinality(S)
             below(x) == {y \in S : y < x}
             R == 0..(N - 1)
             rank == [x \in S |-> Cardinality(below(x))]
  <1>1. N \in Nat
    BY FS_CardinalityType
  <1>2. \A x \in S : IsFiniteSet(below(x)) /\ Cardinality(below(x)) \in R
    <2> SUFFICES ASSUME NEW x \in S PROVE IsFiniteSet(below(x)) /\ Cardinality(below(x)) \in R
      OBVIOUS
    <2> DEFINE B == below(x)
    <2>1. IsFiniteSet(S \ {x}) /\ Cardinality(S \ {x}) = N - 1
      BY FS_RemoveElement
    <2>2. B \subseteq S \ {x}
      OBVIOUS
    <2> HIDE DEF B
    <2>3. IsFiniteSet(B) /\ Cardinality(B) <= N - 1
      BY <2>1, <2>2, FS_Subset
    <2>4. Cardinality(B) \in Nat
      BY <2>3, FS_CardinalityType
    <2>5. IsFiniteSet(B) /\ Cardinality(B) \in R
      BY <1>1, <2>3, <2>4
    <2> QED BY <2>5 DEF B
  <1>3. \A x, y \in S : x < y => Cardinality(below(x)) # Cardinality(below(y))
    <2> SUFFICES ASSUME NEW x \in S, NEW y \in S, x < y
                 PROVE  Cardinality(below(x)) # Cardinality(below(y))
      OBVIOUS
    <2> DEFINE B == below(x)
               C == below(y)
    <2>1. B \subseteq C /\ B # C
      <3>1. x \in C /\ x \notin B /\ \A z \in B : z \in C
        OBVIOUS
      <3> HIDE DEF B, C
      <3> QED BY <3>1
    <2>2. IsFiniteSet(C)
      BY <1>2
    <2>3. Cardinality(B) # Cardinality(C)
      <3> HIDE DEF B, C
      <3> QED BY <2>1, <2>2, FS_Subset
    <2> QED BY <2>3
  <1>4. rank \in Injection(S, R)
    <2>1. rank \in [S -> R]
      <3> HIDE DEF below, R
      <3> QED BY <1>2
    <2>2. \A x, y \in S : rank[x] = rank[y] => x = y
      <3> SUFFICES ASSUME NEW x \in S, NEW y \in S, x # y PROVE rank[x] # rank[y]
        OBVIOUS
      <3>1. x < y \/ y < x
        OBVIOUS
      <3> HIDE DEF below
      <3> QED BY <1>3, <3>1
    <2> HIDE DEF rank, R
    <2> QED BY <2>1, <2>2 DEF Injection, IsInjective
  <1>5. IsFiniteSet(R) /\ Cardinality(R) = N
    <2> DEFINE m == N - 1
    <2>1. m \in Int /\ 0 \in Int
      BY <1>1
    <2>2. R = 0..m
      OBVIOUS
    <2> HIDE DEF R, m
    <2>3. IsFiniteSet(0..m) /\ Cardinality(0..m) = IF 0 > m THEN 0 ELSE m - 0 + 1
      BY <2>1, FS_Interval
    <2> HIDE DEF N
    <2>4. (IF 0 > m THEN 0 ELSE m - 0 + 1) = N
      BY <1>1 DEF m
    <2> QED BY <2>2, <2>3, <2>4
  <1>6. rank \in Surjection(S, R)
    <2> HIDE DEF rank, R
    <2> QED BY <1>4, <1>5, FS_Injection
  <1>7. \A i \in 1..N : \E x \in S : Cardinality(below(x)) = i - 1
    <2>1. \A n \in R : \E x \in S : rank[x] = n
      <3> HIDE DEF rank, R
      <3> QED BY <1>6 DEF Surjection
    <2>2. \A i \in 1..N : i - 1 \in R
      BY <1>1
    <2> HIDE DEF below, R
    <2> QED BY <2>1, <2>2
  <1>8. \A i \in 1..N : (CHOOSE x \in S : Cardinality(below(x)) = i - 1) \in S
    <2> HIDE DEF below, N
    <2> QED BY <1>7
  <1>9. ByName(S) = [i \in 1..N |-> CHOOSE x \in S : Cardinality(below(x)) = i - 1]
    BY DEF ByName
  <1> DEFINE name(i) == CHOOSE x \in S : Cardinality(below(x)) = i - 1
  <1>10. ByName(S) = [i \in 1..N |-> name(i)] /\ \A i \in 1..N : name(i) \in S
    BY <1>8, <1>9
  <1> HIDE DEF name, N
  <1> QED BY <1>1, <1>10

(* Nobody that is not held comes before one that is.                       *)
HeldFirst(owners, held) ==
    \A i, j \in DOMAIN owners : i < j /\ owners[j] \in held => owners[i] \in held

LEMMA TargetsHeldFirst ==
    ASSUME NEW p \in Portfolios
    PROVE  TextTargetSymbols(p) \in Seq(Tickers) /\ HeldFirst(TextTargetSymbols(p), p.held)
  <1> DEFINE H == p.held
             C == p.candidates \ p.held
             h == ByName(H)
             c == ByName(C)
  <1>1. /\ H \in SUBSET Nat /\ IsFiniteSet(H) /\ C \in SUBSET Nat /\ IsFiniteSet(C)
        /\ H \subseteq Tickers /\ C \subseteq Tickers /\ \A x \in C : x \notin H
    BY TextInputs, FS_Subset
  <1>2. h \in Seq(H) /\ c \in Seq(C)
    <2> HIDE DEF H, C
    <2> QED BY <1>1, ByNameIsOf
  <1>3. TextTargetSymbols(p) = FirstOf(h \o c, SymbolLimit) /\ SymbolLimit \in Nat
    BY TextInputs DEF TextTargetSymbols
  <1> HIDE DEF C, h, c
  <1> DEFINE s == h \o c
             t == FirstOf(s, SymbolLimit)
  <1>4. /\ s \in Seq(Tickers) /\ Len(s) = Len(h) + Len(c)
        /\ \A i \in 1..(Len(h) + Len(c)) : s[i] = IF i <= Len(h) THEN h[i] ELSE c[i - Len(h)]
    <2>1. h \in Seq(Tickers) /\ c \in Seq(Tickers)
      <3>1. H \subseteq Tickers /\ C \subseteq Tickers
        BY <1>1
      <3> HIDE DEF H
      <3>2. /\ Len(h) \in Nat /\ h \in [1..Len(h) -> Tickers]
            /\ Len(c) \in Nat /\ c \in [1..Len(c) -> Tickers]
        BY <1>2, <3>1
      <3> QED BY <3>2
    <2> QED BY <2>1, ConcatProperties
  <1>5. /\ t \in Seq(Tickers) /\ Len(t) = IF Len(s) < SymbolLimit THEN Len(s) ELSE SymbolLimit
        /\ \A i \in 1..Len(t) : t[i] = s[i]
    <2> HIDE DEF s, t
    <2> QED BY <1>3, <1>4, FirstAreOf DEF t
  <1> HIDE DEF s, t
  <1>6. \A i \in 1..Len(t) : i \in 1..(Len(h) + Len(c)) /\ t[i] = s[i]
    BY <1>2, <1>3, <1>4, <1>5
  <1>7. \A i \in 1..Len(t) : t[i] \in H <=> i <= Len(h)
    <2> SUFFICES ASSUME NEW i \in 1..Len(t) PROVE t[i] \in H <=> i <= Len(h)
      OBVIOUS
    <2>1. CASE i <= Len(h)
      <3>1. i \in 1..Len(h) /\ t[i] = h[i]
        BY <1>2, <1>4, <1>6, <2>1
      <3> HIDE DEF H
      <3> QED BY <1>2, <2>1, <3>1
    <2>2. CASE ~(i <= Len(h))
      <3> DEFINE k == i - Len(h)
      <3>1. k \in 1..Len(c) /\ t[i] = c[k]
        BY <1>2, <1>4, <1>6, <2>2
      <3> HIDE DEF k, H
      <3>2. c[k] \in C
        BY <1>2, <3>1
      <3> QED BY <1>1, <2>2, <3>1, <3>2
    <2> QED BY <2>1, <2>2
  <1>8. Len(h) \in Nat /\ DOMAIN t = 1..Len(t) /\ Len(t) \in Nat
    BY <1>2, <1>5
  <1>9. HeldFirst(t, H)
    <2> HIDE DEF H
    <2> QED BY <1>7, <1>8 DEF HeldFirst
  <1> QED BY <1>3, <1>5, <1>9 DEF s, t
-----------------------------------------------------------------------------
(* What is gathered, of each symbol: it answered for all that came before   *)
(* the one that is asked now, and of that one as far as the turn is.        *)
Ids(items)    == {items[k].id : k \in DOMAIN items}
Owners(items) == [k \in DOMAIN items |-> items[k].owner]
IsList(items) == \E S : items \in Seq(S)

HasNews(x, items, since, asOf) ==
    \A a \in News(x, since, asOf) : \E k \in DOMAIN items : items[k].id = a.id /\ items[k].owner = x
HasFilings(x, ids, since, asOf) == \A f \in Newest(x, since, asOf) : f.id \in ids

Asking(t) == t.part \notin {"calendar", "bundle"}
OfHeld(items, held) == \A k \in DOMAIN items : items[k].owner \in held

GatherInv(t, asOf) ==
    /\ t.symbols \in Seq(Tickers) /\ (Asking(t) <=> t.symbols # <<>>)
    /\ HeldFirst(t.symbols, t.held) /\ HeldFirst(Owners(t.items), t.held)
    /\ Asking(t) /\ Head(t.symbols) \in t.held => OfHeld(t.items, t.held)
    /\ t.batch = <<>> \/ (Asking(t) /\ \A k \in DOMAIN t.batch : t.batch[k].owner = Head(t.symbols))
    /\ \A x \in t.asked \ (t.failed \cup Range(t.symbols)) :
          /\ HasNews(x, t.items, t.newsSince, asOf)
          /\ HasFilings(x, Ids(t.items), t.filingsSince, asOf)
    /\ Asking(t) /\ t.part # "news" /\ Head(t.symbols) \notin t.failed =>
          HasNews(Head(t.symbols), t.items, t.newsSince, asOf)
    /\ Asking(t) /\ t.part \notin {"news", "listing"} =>
          HasFilings(Head(t.symbols), Ids(t.filings) \cup Ids(t.batch), t.filingsSince, asOf)

CollectInv == CutsInv /\ (Running => GatherInv(turn, textDay)) /\ AnsweredTargetsAreCollected
-----------------------------------------------------------------------------
(* Lists one after the other.                                              *)
LEMMA ConcatLists ==
    ASSUME NEW s, NEW t, IsList(s), IsList(t)
    PROVE  /\ IsList(s \o t) /\ Ids(s \o t) = Ids(s) \cup Ids(t)
           /\ \A x, since, asOf : HasNews(x, s, since, asOf) \/ HasNews(x, t, since, asOf)
                                     => HasNews(x, s \o t, since, asOf)
           /\ \A held : OfHeld(s, held) /\ OfHeld(t, held) => OfHeld(s \o t, held)
           /\ \A held : /\ HeldFirst(Owners(s), held)
                        /\ OfHeld(s, held) \/ \A k \in DOMAIN t : t[k].owner \notin held
                        /\ OfHeld(t, held) \/ \A k \in DOMAIN t : t[k].owner \notin held
                        => HeldFirst(Owners(s \o t), held)
  <1> DEFINE u == s \o t
             M == Len(s)
             N == Len(t)
  <1>1. PICK S, T : s \in Seq(S) /\ t \in Seq(T)
    BY DEF IsList
  <1> DEFINE U == S \cup T
  <1>2. s \in Seq(U) /\ t \in Seq(U)
    BY <1>1
  <1> HIDE DEF U
  <1>3. /\ u \in Seq(U) /\ M \in Nat /\ N \in Nat /\ DOMAIN u = 1..(M + N)
        /\ DOMAIN s = 1..M /\ DOMAIN t = 1..N
        /\ \A i \in 1..(M + N) : u[i] = IF i <= M THEN s[i] ELSE t[i - M]
    BY <1>2, ConcatProperties
  <1> HIDE DEF u, M, N
  <1>4. \A i \in 1..M : i \in 1..(M + N) /\ u[i] = s[i]
    BY <1>3
  <1>5. \A i \in 1..N : M + i \in 1..(M + N) /\ u[M + i] = t[i]
    <2> SUFFICES ASSUME NEW i \in 1..N PROVE M + i \in 1..(M + N) /\ u[M + i] = t[i]
      OBVIOUS
    <2> DEFINE k == M + i
    <2>1. k \in 1..(M + N) /\ ~(k <= M) /\ k - M = i
      BY <1>3
    <2> HIDE DEF k
    <2>2. k \in 1..(M + N) /\ u[k] = t[i]
      BY <1>3, <2>1
    <2> QED BY <2>2 DEF k
  <1>6. \A i \in 1..(M + N) : \/ i \in 1..M /\ u[i] = s[i]
                              \/ i \notin 1..M /\ i - M \in 1..N /\ u[i] = t[i - M]
    BY <1>3
  <1>7. IsList(u)
    BY <1>3 DEF IsList
  <1>8. Ids(u) = Ids(s) \cup Ids(t)
    <2>1. ASSUME NEW k \in 1..(M + N) PROVE u[k].id \in Ids(s) \cup Ids(t)
      BY <1>3, <1>6 DEF Ids
    <2>2. ASSUME NEW k \in 1..M PROVE s[k].id \in Ids(u)
      BY <1>3, <1>4 DEF Ids
    <2>3. ASSUME NEW k \in 1..N PROVE t[k].id \in Ids(u)
      BY <1>3, <1>5 DEF Ids
    <2>4. Ids(u) \subseteq Ids(s) \cup Ids(t)
      BY <1>3, <2>1 DEF Ids
    <2>5. Ids(s) \subseteq Ids(u) /\ Ids(t) \subseteq Ids(u)
      BY <1>3, <2>2, <2>3 DEF Ids
    <2> QED BY <2>4, <2>5
  <1>9. ASSUME NEW x, NEW since, NEW asOf, HasNews(x, s, since, asOf) \/ HasNews(x, t, since, asOf)
        PROVE  HasNews(x, u, since, asOf)
    <2> SUFFICES ASSUME NEW a \in News(x, since, asOf)
                 PROVE  \E k \in DOMAIN u : u[k].id = a.id /\ u[k].owner = x
      BY DEF HasNews
    <2>1. \/ \E k \in 1..M : s[k].id = a.id /\ s[k].owner = x
          \/ \E k \in 1..N : t[k].id = a.id /\ t[k].owner = x
      BY <1>3, <1>9 DEF HasNews
    <2>2. \A k \in 1..M : k \in DOMAIN u /\ u[k] = s[k]
      BY <1>3, <1>4
    <2>3. \A k \in 1..N : M + k \in DOMAIN u /\ u[M + k] = t[k]
      BY <1>3, <1>5
    <2> QED BY <2>1, <2>2, <2>3
  <1>10. ASSUME NEW held, OfHeld(s, held), OfHeld(t, held)
         PROVE  OfHeld(u, held)
    BY <1>3, <1>6, <1>10 DEF OfHeld
  <1>11. ASSUME NEW held, HeldFirst(Owners(s), held),
                OfHeld(s, held) \/ \A k \in DOMAIN t : t[k].owner \notin held,
                OfHeld(t, held) \/ \A k \in DOMAIN t : t[k].owner \notin held
         PROVE  HeldFirst(Owners(u), held)
    <2> SUFFICES ASSUME NEW i \in 1..(M + N), NEW j \in 1..(M + N), i < j, u[j].owner \in held
                 PROVE  u[i].owner \in held
      BY <1>3 DEF HeldFirst, Owners
    <2>1. CASE j \in 1..M
      <3>1. i \in 1..M /\ u[i] = s[i] /\ u[j] = s[j]
        BY <1>3, <1>4, <2>1
      <3> QED BY <1>3, <1>11, <2>1, <3>1 DEF HeldFirst, Owners
    <2>2. CASE j \notin 1..M
      <3>1. j - M \in 1..N /\ t[j - M].owner \in held
        BY <1>6, <2>2
      <3>2. OfHeld(s, held) /\ OfHeld(t, held)
        BY <1>3, <1>11, <3>1
      <3> QED BY <1>3, <1>10, <3>2 DEF OfHeld
    <2> QED BY <2>1, <2>2
  <1> QED BY <1>7, <1>8, <1>9, <1>10, <1>11 DEF u

(* One symbol's items: its news, each article once.                        *)
LEMMA NewsAreListed ==
    ASSUME NEW x, NEW since, NEW asOf
    PROVE  LET news == SetToSeq(News(x, since, asOf))
               items == [k \in DOMAIN news |-> NewsItem(news[k], x)]
           IN  /\ IsList(items) /\ \A k \in DOMAIN items : items[k].owner = x
               /\ HasNews(x, items, since, asOf)
  <1> DEFINE S == News(x, since, asOf)
             N == Cardinality(S)
             news == SetToSeq(S)
             items == [k \in DOMAIN news |-> NewsItem(news[k], x)]
  <1>1. IsFiniteSet(S)
    <2>1. S \subseteq Articles
      BY DEF News
    <2> HIDE DEF S
    <2> QED BY <2>1, TextInputs, FS_Subset
  <1>2. PICK f \in [1..N -> S] : IsInjective(f)
    <2> HIDE DEF S
    <2> QED BY <1>1, FS_CardinalityType DEF ExistsBijection, Bijection, Injection
  <1>3. news \in [1..N -> S] /\ IsInjective(news) /\ N \in Nat
    <2> HIDE DEF S
    <2> QED BY <1>1, <1>2, FS_CardinalityType DEF SetToSeq
  <1>4. news \in Surjection(1..N, S)
    <2>1. news \in Injection(1..N, S)
      <3> HIDE DEF news, S, N
      <3> QED BY <1>3 DEF Injection
    <2>2. Cardinality(1..N) = N
      <3> HIDE DEF N
      <3>1. Cardinality(1..N) = IF 1 > N THEN 0 ELSE N - 1 + 1
        BY <1>3, FS_Interval
      <3> QED BY <1>3, <3>1
    <2> HIDE DEF news, S
    <2> QED BY <1>1, <2>1, <2>2, FS_Injection
  <1> HIDE DEF news, S, N
  <1>5. DOMAIN items = 1..N /\ \A k \in 1..N : items[k].owner = x /\ items[k].id = news[k].id
    BY <1>3 DEF NewsItem
  <1>6. IsList(items)
    <2> DEFINE R == {items[k] : k \in 1..N}
    <2>1. items = [k \in 1..N |-> items[k]]
      BY <1>5
    <2>2. \A k \in 1..N : items[k] \in R
      OBVIOUS
    <2> HIDE DEF items, R
    <2>3. items \in Seq(R)
      BY <1>3, <2>1, <2>2
    <2> QED BY <2>3 DEF IsList
  <1>7. HasNews(x, items, since, asOf)
    <2> SUFFICES ASSUME NEW a \in S PROVE \E k \in 1..N : items[k].id = a.id /\ items[k].owner = x
      BY <1>5 DEF HasNews, S
    <2>1. PICK k \in 1..N : news[k] = a
      BY <1>4 DEF Surjection
    <2> QED BY <1>5, <2>1
  <1> QED BY <1>5, <1>6, <1>7 DEF news, S
-----------------------------------------------------------------------------
(* The steps of a turn, of a record t that becomes u.                      *)
SameTurn(t, u) ==
    /\ u.asked = t.asked /\ u.held = t.held
    /\ u.newsSince = t.newsSince /\ u.filingsSince = t.filingsSince

LEMMA BeginGathers ==
    ASSUME NEW u, NEW asOf, u.symbols \in Seq(Tickers), u.asked = Range(u.symbols),
           HeldFirst(u.symbols, u.held), u.items = <<>>, u.batch = <<>>,
           u.part = IF u.symbols = <<>> THEN "calendar" ELSE "news"
    PROVE  GatherInv(u, asOf)
  <1>1. Asking(u) <=> u.symbols # <<>>
    BY DEF Asking
  <1>2. DOMAIN <<>> = {}
    OBVIOUS
  <1>3. HeldFirst(Owners(u.items), u.held) /\ OfHeld(u.items, u.held)
    BY <1>2 DEF HeldFirst, Owners, OfHeld
  <1>4. Asking(u) => u.part = "news"
    BY DEF Asking
  <1> QED BY <1>1, <1>3, <1>4 DEF GatherInv

(* The news is there, or it failed; then the filings are asked for.        *)
LEMMA NewsGathers ==
    ASSUME NEW t, NEW u, NEW asOf, GatherInv(t, asOf), SameTurn(t, u), Asking(t),
           IsList(t.items), NEW more, u.items = t.items \o more, IsList(more),
           \A k \in DOMAIN more : more[k].owner = Head(t.symbols),
           \/ HasNews(Head(t.symbols), more, t.newsSince, asOf)
           \/ Head(t.symbols) \in u.failed,
           t.failed \subseteq u.failed, u.part = "listing",
           u.symbols = t.symbols, u.batch = t.batch
    PROVE  GatherInv(u, asOf)
  <1> DEFINE x == Head(t.symbols)
  <1>1. /\ t.symbols \in Seq(Tickers) /\ t.symbols # <<>>
        /\ HeldFirst(t.symbols, t.held) /\ HeldFirst(Owners(t.items), t.held)
        /\ x \in t.held => OfHeld(t.items, t.held)
        /\ t.batch = <<>> \/ \A k \in DOMAIN t.batch : t.batch[k].owner = x
        /\ \A y \in t.asked \ (t.failed \cup Range(t.symbols)) :
              /\ HasNews(y, t.items, t.newsSince, asOf)
              /\ HasFilings(y, Ids(t.items), t.filingsSince, asOf)
    BY DEF GatherInv
  <1>2. Asking(u)
    BY DEF Asking
  <1>3. /\ x \in t.held => OfHeld(more, t.held)
        /\ x \notin t.held => \A k \in DOMAIN more : more[k].owner \notin t.held
    BY DEF OfHeld
  <1> HIDE DEF x
  <1>4. /\ Ids(u.items) = Ids(t.items) \cup Ids(more)
        /\ \A y : HasNews(y, t.items, t.newsSince, asOf) \/ HasNews(y, more, t.newsSince, asOf)
                     => HasNews(y, u.items, t.newsSince, asOf)
        /\ HeldFirst(Owners(u.items), t.held)
        /\ x \in t.held => OfHeld(u.items, t.held)
    BY <1>1, <1>3, ConcatLists
  <1>5. \A y \in u.asked \ (u.failed \cup Range(u.symbols)) :
           /\ HasNews(y, u.items, u.newsSince, asOf)
           /\ HasFilings(y, Ids(u.items), u.filingsSince, asOf)
    BY <1>1, <1>4 DEF SameTurn, HasFilings
  <1>6. x \notin u.failed => HasNews(x, u.items, u.newsSince, asOf)
    BY <1>4 DEF SameTurn, x
  <1> QED BY <1>1, <1>2, <1>4, <1>5, <1>6 DEF GatherInv, SameTurn, x

(* The listing answers: the newest filings are to be read.                 *)
LEMMA ListingGathers ==
    ASSUME NEW t, NEW u, NEW asOf, GatherInv(t, asOf), SameTurn(t, u), t.part = "listing",
           u.part = "filing", u.batch = <<>>, u.symbols = t.symbols, u.items = t.items,
           u.failed = t.failed,
           u.filings = RecentFilings(Head(t.symbols), t.filingsSince, asOf)
    PROVE  GatherInv(u, asOf)
  <1> DEFINE x == Head(t.symbols)
  <1>1. Asking(t) /\ Asking(u) /\ t.part # "news"
    BY DEF Asking
  <1>2. HasFilings(x, Ids(u.filings) \cup Ids(u.batch), u.filingsSince, asOf)
    <2> SUFFICES ASSUME NEW f \in Newest(x, t.filingsSince, asOf) PROVE f.id \in Ids(u.filings)
      BY DEF HasFilings, SameTurn
    <2>1. PICK i \in 1..Len(u.filings) : u.filings[i] = f
      BY NewestAreAsked
    <2>2. DOMAIN u.filings = 1..Len(u.filings)
      BY RecentAreListed
    <2> QED BY <2>1, <2>2 DEF Ids
  <1> QED BY <1>1, <1>2 DEF GatherInv, SameTurn

(* A step inside a filing.                                                 *)
LEMMA ReadingGathers ==
    ASSUME NEW t, NEW u, NEW asOf, GatherInv(t, asOf), SameTurn(t, u),
           Asking(t), t.part \notin {"news", "listing"}, Asking(u),
           u.symbols = t.symbols, u.items = t.items, u.failed = t.failed,
           Ids(t.filings) \cup Ids(t.batch) \subseteq Ids(u.filings) \cup Ids(u.batch),
           \A k \in DOMAIN u.batch : (k \in DOMAIN t.batch /\ u.batch[k] = t.batch[k])
                                     \/ u.batch[k].owner = Head(t.symbols)
    PROVE  GatherInv(u, asOf)
  <1>1. HasFilings(Head(u.symbols), Ids(u.filings) \cup Ids(u.batch), u.filingsSince, asOf)
    <2>1. HasFilings(Head(t.symbols), Ids(t.filings) \cup Ids(t.batch), t.filingsSince, asOf)
      BY DEF GatherInv
    <2> QED BY <2>1 DEF HasFilings, SameTurn
  <1>2. t.part # "news" /\ DOMAIN <<>> = {}
    OBVIOUS
  <1>3. \A k \in DOMAIN u.batch : u.batch[k].owner = Head(u.symbols)
    BY <1>2 DEF GatherInv
  <1> QED BY <1>1, <1>2, <1>3 DEF GatherInv, SameTurn

(* The next symbol, when the filings of this one are read or failed.       *)
LEMMA NextSymbolGathers ==
    ASSUME NEW t, NEW u, NEW asOf, GatherInv(t, asOf), SameTurn(t, u), Asking(t), IsList(t.items),
           u.symbols = Tail(t.symbols), u.batch = <<>>,
           u.part = IF Len(t.symbols) > 1 THEN "news" ELSE u.part, u.part \in {"news", "calendar", "bundle"},
           Len(t.symbols) > 1 \/ u.part # "news",
           \/ u.items = t.items /\ u.failed = t.failed \cup {Head(t.symbols)}
           \/ /\ u.items = t.items \o t.batch /\ IsList(t.batch) /\ u.failed = t.failed
              /\ t.part \notin {"news", "listing"} /\ t.filings = <<>>
    PROVE  GatherInv(u, asOf)
  <1> DEFINE x == Head(t.symbols)
             s == t.symbols
             n == Len(s)
  <1>1. /\ s \in Seq(Tickers) /\ s # <<>>
        /\ HeldFirst(s, t.held) /\ HeldFirst(Owners(t.items), t.held)
        /\ x \in t.held => OfHeld(t.items, t.held)
        /\ t.batch = <<>> \/ \A k \in DOMAIN t.batch : t.batch[k].owner = x
        /\ \A y \in t.asked \ (t.failed \cup Range(s)) :
              /\ HasNews(y, t.items, t.newsSince, asOf)
              /\ HasFilings(y, Ids(t.items), t.filingsSince, asOf)
        /\ t.part # "news" /\ x \notin t.failed => HasNews(x, t.items, t.newsSince, asOf)
        /\ t.part \notin {"news", "listing"} =>
              HasFilings(x, Ids(t.filings) \cup Ids(t.batch), t.filingsSince, asOf)
    BY DEF GatherInv
  <1>2. /\ Tail(s) \in Seq(Tickers) /\ Len(Tail(s)) = n - 1 /\ n \in Nat /\ n >= 1
        /\ \A i \in 1..(n - 1) : Tail(s)[i] = s[i + 1]
        /\ x = s[1] /\ DOMAIN s = 1..n /\ DOMAIN Tail(s) = 1..(n - 1)
        /\ Tail(s) # <<>> <=> n > 1
    <2>1. /\ Tail(s) \in Seq(Tickers) /\ Len(Tail(s)) = n - 1
          /\ \A i \in 1..Len(Tail(s)) : Tail(s)[i] = s[i + 1]
      BY <1>1, HeadTailProperties
    <2>2. n \in Nat /\ n >= 1 /\ x = s[1] /\ DOMAIN s = 1..n
      BY <1>1
    <2>3. DOMAIN Tail(s) = 1..(n - 1)
      <3> DEFINE r == Tail(s)
      <3>1. r \in Seq(Tickers) /\ Len(r) = n - 1
        BY <2>1
      <3> HIDE DEF r
      <3>2. DOMAIN r = 1..(n - 1)
        BY <3>1
      <3> QED BY <3>2 DEF r
    <2>4. Tail(s) # <<>> <=> n > 1
      <3> DEFINE r == Tail(s)
      <3>1. r \in Seq(Tickers) /\ Len(r) = n - 1
        BY <2>1
      <3> HIDE DEF r
      <3>2. r # <<>> <=> n > 1
        BY <2>2, <3>1
      <3> QED BY <3>2 DEF r
    <2> QED BY <2>1, <2>2, <2>3, <2>4
  <1>3. \A y \in Range(s) : y = x \/ y \in Range(Tail(s))
    <2> SUFFICES ASSUME NEW k \in 1..n, s[k] # x PROVE s[k] \in Range(Tail(s))
      BY <1>2 DEF Range
    <2> DEFINE i == k - 1
    <2>1. i \in 1..(n - 1) /\ i + 1 = k
      BY <1>2
    <2> HIDE DEF i, n, s, x
    <2>2. Tail(s)[i] = s[k]
      BY <1>2, <2>1
    <2> QED BY <1>2, <2>1, <2>2 DEF Range
  <1>4. HeldFirst(Tail(s), t.held)
    <2> HIDE DEF n, s, x
    <2> SUFFICES ASSUME NEW i \in 1..(n - 1), NEW j \in 1..(n - 1), i < j, Tail(s)[j] \in t.held
                 PROVE  Tail(s)[i] \in t.held
      BY <1>2 DEF HeldFirst
    <2> DEFINE a == i + 1
               b == j + 1
    <2>1. a \in 1..n /\ b \in 1..n /\ a < b /\ Tail(s)[i] = s[a] /\ Tail(s)[j] = s[b]
      BY <1>2
    <2> HIDE DEF a, b
    <2> QED BY <1>1, <1>2, <2>1 DEF HeldFirst
  <1>5. n > 1 /\ Head(Tail(s)) \in t.held => x \in t.held
    <2> SUFFICES ASSUME n > 1, Head(Tail(s)) \in t.held PROVE x \in t.held
      OBVIOUS
    <2>1. Head(Tail(s)) = Tail(s)[1] /\ 1 \in 1..(n - 1) /\ 1 \in 1..n /\ 2 \in 1..n /\ 1 + 1 = 2
      <3>1. Head(Tail(s)) = Tail(s)[1]
        OBVIOUS
      <3> HIDE DEF n, s
      <3> QED BY <1>2, <3>1
    <2> HIDE DEF n, s, x
    <2>2. Tail(s)[1] = s[2]
      BY <1>2, <2>1
    <2> QED BY <1>1, <1>2, <2>1, <2>2 DEF HeldFirst
  <1>6. Asking(u) <=> n > 1
    BY DEF Asking
  <1> HIDE DEF n, s, x
  <1>7. /\ HeldFirst(Owners(u.items), t.held)
        /\ x \in t.held => OfHeld(u.items, t.held)
        /\ \A y \in t.asked \ (u.failed \cup Range(Tail(s))) :
              /\ HasNews(y, u.items, t.newsSince, asOf)
              /\ HasFilings(y, Ids(u.items), t.filingsSince, asOf)
    <2>1. CASE u.items = t.items /\ u.failed = t.failed \cup {x}
      <3>1. \A y \in t.asked \ (u.failed \cup Range(Tail(s))) : y \in t.asked \ (t.failed \cup Range(s))
        BY <1>3, <2>1
      <3> QED BY <1>1, <2>1, <3>1
    <2>2. CASE /\ u.items = t.items \o t.batch /\ IsList(t.batch) /\ u.failed = t.failed
               /\ t.part \notin {"news", "listing"} /\ t.filings = <<>>
      <3>0. DOMAIN <<>> = {} /\ Ids(<<>>) = {}
        BY DEF Ids
      <3>1. /\ x \in t.held => OfHeld(t.batch, t.held)
            /\ x \notin t.held => \A k \in DOMAIN t.batch : t.batch[k].owner \notin t.held
        BY <1>1, <3>0 DEF OfHeld
      <3>2. /\ Ids(u.items) = Ids(t.items) \cup Ids(t.batch)
            /\ \A y : HasNews(y, t.items, t.newsSince, asOf) => HasNews(y, u.items, t.newsSince, asOf)
            /\ HeldFirst(Owners(u.items), t.held)
            /\ x \in t.held => OfHeld(u.items, t.held)
        BY <1>1, <2>2, <3>1, ConcatLists
      <3>3. ASSUME NEW y \in t.asked \ (u.failed \cup Range(Tail(s)))
            PROVE  /\ HasNews(y, u.items, t.newsSince, asOf)
                   /\ HasFilings(y, Ids(u.items), t.filingsSince, asOf)
        <4>1. CASE y = x
          <5>1. HasNews(x, t.items, t.newsSince, asOf) /\ HasFilings(x, Ids(t.batch), t.filingsSince, asOf)
            <6>1. t.part # "news" /\ x \notin t.failed
              BY <2>2, <4>1
            <6>2. Ids(t.filings) \cup Ids(t.batch) = Ids(t.batch)
              BY <2>2, <3>0
            <6> QED BY <1>1, <2>2, <6>1, <6>2
          <5> QED BY <3>2, <4>1, <5>1 DEF HasFilings
        <4>2. CASE y # x
          <5>1. y \in t.asked \ (t.failed \cup Range(s))
            BY <1>3, <2>2, <4>2
          <5> QED BY <1>1, <3>2, <5>1 DEF HasFilings
        <4> QED BY <4>1, <4>2
      <3> QED BY <3>2, <3>3
    <2> QED BY <2>1, <2>2 DEF x
  <1>8. Asking(u) => u.part = "news"
    BY DEF Asking
  <1>9. u.symbols = Tail(s) /\ u.batch = <<>>
    BY DEF s
  <1>10. u.symbols \in Seq(Tickers) /\ (Asking(u) <=> u.symbols # <<>>)
    BY <1>2, <1>6, <1>9
  <1>11. HeldFirst(u.symbols, u.held) /\ HeldFirst(Owners(u.items), u.held)
    BY <1>4, <1>7, <1>9 DEF SameTurn
  <1>12. Asking(u) /\ Head(u.symbols) \in u.held => OfHeld(u.items, u.held)
    BY <1>5, <1>6, <1>7, <1>9 DEF SameTurn
  <1>13. \A y \in u.asked \ (u.failed \cup Range(u.symbols)) :
            /\ HasNews(y, u.items, u.newsSince, asOf)
            /\ HasFilings(y, Ids(u.items), u.filingsSince, asOf)
    BY <1>7, <1>9 DEF SameTurn
  <1> QED BY <1>8, <1>9, <1>10, <1>11, <1>12, <1>13 DEF GatherInv
-----------------------------------------------------------------------------
(* What is stored in the end is of the first symbol that gathered it.      *)
LEMMA StoredOnceKept ==
    ASSUME NEW items, IsList(items),
           NEW all, all = items \/ all = Append(items, CalendarItem),
           NEW k \in DOMAIN items
    PROVE  \E j \in DOMAIN items :
              /\ j <= k /\ items[j].id = items[k].id
              /\ items[j] \in Upserted(Deduplicated(all))
  <1>1. PICK S : items \in Seq(S)
    BY DEF IsList
  <1> DEFINE T == S \cup {CalendarItem}
  <1>2. items \in Seq(T) /\ CalendarItem \in T
    BY <1>1
  <1> HIDE DEF T
  <1>3. all \in Seq(T) /\ Len(all) >= Len(items) /\ \A i \in 1..Len(items) : all[i] = items[i]
    <2>1. CASE all = items
      BY <1>2, <2>1
    <2>2. CASE all = Append(items, CalendarItem)
      BY <1>2, <2>2
    <2> QED BY <2>1, <2>2
  <1>4. k \in 1..Len(items) /\ k \in 1..Len(all) /\ DOMAIN items = 1..Len(items) /\ Len(items) \in Nat
    BY <1>2, <1>3
  <1>5. PICK j \in 1..k : all[j].id = all[k].id /\ all[j] \in Range(Deduplicated(all))
    BY <1>3, <1>4, FirstIsKept
  <1>6. j \in 1..Len(items) /\ j <= k
    BY <1>4
  <1>7. items[j] \in Upserted(Deduplicated(all))
    BY <1>3, <1>5, <1>6 DEF Upserted
  <1> QED BY <1>3, <1>4, <1>5, <1>6, <1>7

LEMMA RecordCollects ==
    ASSUME GatherInv(turn, textDay), ~ Asking(turn), IsList(turn.items), SameTurn(turn, turn'),
           NEW all, all = turn.items \/ all = Append(turn.items, CalendarItem),
           table' = Upserted(Deduplicated(all)),
           turn'.failed = turn.failed, textDay' = textDay
    PROVE  AnsweredTargetsAreCollected'
  <1>1. turn.symbols = <<>> /\ HeldFirst(Owners(turn.items), turn.held)
    BY DEF GatherInv
  <1>2. Range(turn.symbols) = {}
    <2>1. DOMAIN <<>> = {}
      OBVIOUS
    <2> QED BY <1>1, <2>1 DEF Range
  <1> SUFFICES ASSUME NEW x \in turn.asked \ turn.failed
               PROVE  /\ \A a \in News(x, turn.newsSince, textDay) :
                            /\ a.id \in {r.id : r \in table'}
                            /\ x \in turn.held => \E r \in table' : r.id = a.id /\ r.owner \in turn.held
                      /\ \A f \in Newest(x, turn.filingsSince, textDay) : f.id \in {r.id : r \in table'}
    BY DEF AnsweredTargetsAreCollected, SameTurn, Newest, Recent, InWindow, Listed, News
  <1>3. /\ HasNews(x, turn.items, turn.newsSince, textDay)
        /\ HasFilings(x, Ids(turn.items), turn.filingsSince, textDay)
    BY <1>2 DEF GatherInv
  <1> DEFINE items == turn.items
  <1>4. \A k \in DOMAIN items : \E j \in DOMAIN items :
           j <= k /\ items[j].id = items[k].id /\ items[j] \in table'
    BY StoredOnceKept
  <1>5. \A j, k \in DOMAIN items : j <= k /\ items[k].owner \in turn.held => items[j].owner \in turn.held
    <2>1. \A j, k \in DOMAIN items : j <= k => j < k \/ j = k
      <3>1. PICK S : items \in Seq(S)
        BY DEF IsList
      <3>2. DOMAIN items = 1..Len(items) /\ Len(items) \in Nat
        BY <3>1
      <3> QED BY <3>2
    <2> QED BY <1>1, <2>1 DEF HeldFirst, Owners
  <1>6. ASSUME NEW a \in News(x, turn.newsSince, textDay)
        PROVE  /\ a.id \in {r.id : r \in table'}
               /\ x \in turn.held => \E r \in table' : r.id = a.id /\ r.owner \in turn.held
    <2>1. PICK k \in DOMAIN items : items[k].id = a.id /\ items[k].owner = x
      BY <1>3 DEF HasNews
    <2>2. PICK j \in DOMAIN items : j <= k /\ items[j].id = items[k].id /\ items[j] \in table'
      BY <1>4
    <2>3. x \in turn.held => items[j].owner \in turn.held
      BY <1>5, <2>1, <2>2
    <2> QED BY <2>1, <2>2, <2>3
  <1>7. ASSUME NEW f \in Newest(x, turn.filingsSince, textDay)
        PROVE  f.id \in {r.id : r \in table'}
    <2>1. PICK k \in DOMAIN items : items[k].id = f.id
      BY <1>3 DEF HasFilings, Ids
    <2>2. PICK j \in DOMAIN items : j <= k /\ items[j].id = items[k].id /\ items[j] \in table'
      BY <1>4
    <2> QED BY <2>1, <2>2
  <1> QED BY <1>6, <1>7
-----------------------------------------------------------------------------
LEMMA CollectStart == TextInit => CollectInv
  BY CutsStart DEF TextInit, CollectInv, Running, NoTurn, AnsweredTargetsAreCollected

(* A running turn goes on.                                                 *)
LEMMA GoesOn ==
    ASSUME CutsInv', GatherInv(turn', textDay'), turn'.mode # "stored"
    PROVE  CollectInv'
  BY DEF CollectInv, GatherInv, AnsweredTargetsAreCollected

(* A turn ends without a record.                                           *)
LEMMA EndsUnstored ==
    ASSUME CutsInv', turn'.mode \notin {"daily", "freshness", "stored"}
    PROVE  CollectInv'
  BY DEF CollectInv, Running, AnsweredTargetsAreCollected

LEMMA CollectStep == CollectInv /\ [TextNext]_textVars => CollectInv'
  <1> SUFFICES ASSUME CollectInv, [TextNext]_textVars PROVE CollectInv'
    OBVIOUS
  <1>c. CutsInv'
    BY CutsStep DEF CollectInv
  <1>g. Running => GatherInv(turn, textDay)
    BY DEF CollectInv
  <1>a. \A part : At(part) => Running /\ turn.part = part
    BY DEF At, Running
  <1>r. ASSUME Running
        PROVE  /\ turn = [f \in TurnFields |-> turn[f]] /\ turn.filings \in Seq(Listed)
               /\ IsList(turn.items) /\ IsList(turn.batch)
               /\ turn.mode # "stored"
               /\ turn.part \in {"attachments", "exhibits", "sections"} => turn.filings # <<>>
    <2>1. TurnInv
      BY DEF CollectInv, CutsInv
    <2> QED BY <1>r, <2>1 DEF TurnInv, MarkedList, IsList, Running
  <1>1. CASE NextTextDay
    BY <1>1, <1>c, EndsUnstored DEF NextTextDay, NoTurn
  <1>2. CASE BeginDaily
    <2>1. PICK p \in Portfolios :
             turn' = BeginTurn("daily", TextTargetSymbols(p), textDay - NewsLookback,
                               textDay - FilingLookback, p.held)
      BY <1>2 DEF BeginDaily
    <2>2. TextTargetSymbols(p) \in Seq(Tickers) /\ HeldFirst(TextTargetSymbols(p), p.held)
      BY TargetsHeldFirst
    <2>3. /\ turn'.symbols = TextTargetSymbols(p) /\ turn'.asked = Range(turn'.symbols)
          /\ turn'.held = p.held /\ turn'.items = <<>> /\ turn'.batch = <<>> /\ turn'.mode # "stored"
          /\ turn'.part = IF turn'.symbols = <<>> THEN "calendar" ELSE "news"
      BY <2>1 DEF BeginTurn
    <2>4. GatherInv(turn', textDay')
      BY <2>2, <2>3, BeginGathers
    <2> QED BY <1>c, <2>3, <2>4, GoesOn
  <1>3. CASE BeginFreshness
    <2>1. PICK x \in Tickers, reviewed \in 1..textDay :
             turn' = BeginTurn("freshness", <<x>>, reviewed, reviewed, {})
      BY <1>3 DEF BeginFreshness
    <2>2. <<x>> \in Seq(Tickers) /\ HeldFirst(<<x>>, {})
      BY DEF HeldFirst
    <2>3. /\ turn'.symbols = <<x>> /\ turn'.asked = Range(turn'.symbols)
          /\ turn'.held = {} /\ turn'.items = <<>> /\ turn'.batch = <<>> /\ turn'.mode # "stored"
          /\ turn'.part = IF turn'.symbols = <<>> THEN "calendar" ELSE "news"
      BY <2>1 DEF BeginTurn
    <2>4. GatherInv(turn', textDay')
      BY <2>2, <2>3, BeginGathers
    <2> QED BY <1>c, <2>3, <2>4, GoesOn
  <1>4. CASE NewsAnswers
    <2> DEFINE S == News(Symbol, turn.newsSince, textDay)
               more == LET news == SetToSeq(S) IN [k \in DOMAIN news |-> NewsItem(news[k], Symbol)]
    <2>1. Running /\ turn.part = "news" /\ textDay' = textDay
      BY <1>4, <1>a DEF NewsAnswers
    <2>2. turn' = [turn EXCEPT !.part = "listing", !.items = turn.items \o more]
      BY <1>4 DEF NewsAnswers
    <2>3. /\ IsList(more) /\ \A k \in DOMAIN more : more[k].owner = Head(turn.symbols)
          /\ HasNews(Head(turn.symbols), more, turn.newsSince, textDay)
      BY NewsAreListed DEF Symbol
    <2> HIDE DEF more
    <2>4. /\ SameTurn(turn, turn') /\ turn'.mode = turn.mode /\ turn'.part = "listing"
          /\ turn'.items = turn.items \o more /\ turn'.failed = turn.failed
          /\ turn'.symbols = turn.symbols /\ turn'.batch = turn.batch
      BY <1>r, <2>1, <2>2 DEF TurnFields, SameTurn
    <2>5. Asking(turn)
      BY <2>1 DEF Asking
    <2>6. GatherInv(turn', textDay')
      BY <1>g, <1>r, <2>1, <2>3, <2>4, <2>5, NewsGathers
    <2> QED BY <1>c, <1>r, <2>1, <2>4, <2>6, GoesOn
  <1>5. CASE NewsFails
    <2>1. Running /\ turn.part = "news" /\ textDay' = textDay
      BY <1>5, <1>a DEF NewsFails
    <2>2. /\ SameTurn(turn, turn') /\ turn'.mode = turn.mode /\ turn'.part = "listing"
          /\ turn'.items = turn.items /\ turn'.failed = turn.failed \cup {Symbol}
          /\ turn'.symbols = turn.symbols /\ turn'.batch = turn.batch
      BY <1>5, <1>r, <2>1 DEF NewsFails, TurnFields, SameTurn
    <2>3. Asking(turn)
      BY <2>1 DEF Asking
    <2>4. IsList(<<>>) /\ \A k \in DOMAIN <<>> : <<>>[k].owner = Head(turn.symbols)
      <3>1. <<>> \in Seq({}) /\ DOMAIN <<>> = {}
        OBVIOUS
      <3> QED BY <3>1 DEF IsList
    <2>5. turn'.items = turn.items \o <<>>
      <3>1. PICK R : turn.items \in Seq(R)
        BY <1>r, <2>1 DEF IsList
      <3> QED BY <2>2, <3>1, ConcatEmptySeq
    <2>6. Head(turn.symbols) \in turn'.failed /\ turn.failed \subseteq turn'.failed
      BY <2>2 DEF Symbol
    <2>7. GatherInv(turn', textDay')
      BY <1>g, <1>r, <2>1, <2>2, <2>3, <2>4, <2>5, <2>6, NewsGathers
    <2> QED BY <1>c, <1>r, <2>1, <2>2, <2>7, GoesOn
  <1>6. CASE FilingsListed
    <2>1. Running /\ turn.part = "listing" /\ textDay' = textDay
      BY <1>6, <1>a DEF FilingsListed
    <2>2. /\ SameTurn(turn, turn') /\ turn'.mode = turn.mode /\ turn'.part = "filing"
          /\ turn'.items = turn.items /\ turn'.failed = turn.failed
          /\ turn'.symbols = turn.symbols /\ turn'.batch = <<>>
          /\ turn'.filings = RecentFilings(Symbol, turn.filingsSince, textDay)
      BY <1>6, <1>r, <2>1 DEF FilingsListed, TurnFields, SameTurn
    <2>3. GatherInv(turn', textDay')
      BY <1>g, <2>1, <2>2, ListingGathers DEF Symbol
    <2> QED BY <1>c, <1>r, <2>1, <2>2, <2>3, GoesOn
  <1>n. /\ NextPart = IF Len(turn.symbols) > 1 THEN "news" ELSE NextPart
        /\ NextPart \in {"news", "calendar", "bundle"}
        /\ Len(turn.symbols) > 1 \/ NextPart # "news"
    BY DEF NextPart
  <1>7. CASE FilingsFail
    <2>1. Running /\ turn.part \in {"listing", "filing"} /\ textDay' = textDay
      BY <1>7, <1>a DEF FilingsFail
    <2>2. /\ SameTurn(turn, turn') /\ turn'.mode = turn.mode /\ turn'.part = NextPart
          /\ turn'.items = turn.items /\ turn'.failed = turn.failed \cup {Head(turn.symbols)}
          /\ turn'.symbols = Tail(turn.symbols) /\ turn'.batch = <<>>
      BY <1>7, <1>r, <2>1 DEF FilingsFail, TurnFields, SameTurn, Symbol
    <2>3. Asking(turn)
      BY <2>1 DEF Asking
    <2>4. GatherInv(turn', textDay')
      BY <1>g, <1>n, <1>r, <2>1, <2>2, <2>3, NextSymbolGathers
    <2> QED BY <1>c, <1>r, <2>1, <2>2, <2>4, GoesOn
  <1>8. CASE FilingsDone
    <2>1. Running /\ turn.part = "filing" /\ turn.filings = <<>> /\ textDay' = textDay
      BY <1>8, <1>a DEF FilingsDone
    <2>2. /\ SameTurn(turn, turn') /\ turn'.mode = turn.mode /\ turn'.part = NextPart
          /\ turn'.items = turn.items \o turn.batch /\ turn'.failed = turn.failed
          /\ turn'.symbols = Tail(turn.symbols) /\ turn'.batch = <<>>
      BY <1>8, <1>r, <2>1 DEF FilingsDone, TurnFields, SameTurn
    <2>3. Asking(turn)
      BY <2>1 DEF Asking
    <2>4. GatherInv(turn', textDay')
      BY <1>g, <1>n, <1>r, <2>1, <2>2, <2>3, NextSymbolGathers
    <2> QED BY <1>c, <1>r, <2>1, <2>2, <2>4, GoesOn
  <1>9. ASSUME Running, turn.part \in {"filing", "attachments", "exhibits", "sections"},
               turn'.part \in {"filing", "attachments", "exhibits", "sections"},
               SameTurn(turn, turn'), turn'.mode = turn.mode, textDay' = textDay,
               turn'.symbols = turn.symbols, turn'.items = turn.items, turn'.failed = turn.failed,
               turn'.filings = turn.filings, turn'.batch = turn.batch
        PROVE  CollectInv'
    <2>1. Asking(turn) /\ Asking(turn') /\ turn.part \notin {"news", "listing"}
      BY <1>9 DEF Asking
    <2>2. /\ Ids(turn.filings) \cup Ids(turn.batch) \subseteq Ids(turn'.filings) \cup Ids(turn'.batch)
          /\ \A k \in DOMAIN turn'.batch : k \in DOMAIN turn.batch /\ turn'.batch[k] = turn.batch[k]
      BY <1>9
    <2>3. GatherInv(turn', textDay')
      BY <1>9, <1>g, <2>1, <2>2, ReadingGathers
    <2> QED BY <1>9, <1>c, <1>r, <2>3, GoesOn
  <1>10. CASE \/ NoticeRead \/ AttachmentsListed \/ ExhibitRead \/ BudgetSpent \/ ExhibitsDone
              \/ ExhibitFails
    <2> DEFINE parts == {"filing", "attachments", "exhibits", "sections"}
               Kept == /\ turn'.part \in parts /\ SameTurn(turn, turn') /\ turn'.mode = turn.mode
                       /\ turn'.symbols = turn.symbols /\ turn'.items = turn.items
                       /\ turn'.failed = turn.failed
                       /\ turn'.filings = turn.filings /\ turn'.batch = turn.batch
    <2>1. Running /\ turn.part \in parts /\ textDay' = textDay
      BY <1>10, <1>a DEF NoticeRead, AttachmentsListed, ExhibitRead, BudgetSpent, ExhibitsDone, ExhibitFails
    <2>2. turn = [f \in TurnFields |-> turn[f]]
      BY <1>r, <2>1
    <2>3. NoticeRead => Kept
      BY <2>2 DEF NoticeRead, TurnFields, SameTurn
    <2>4. AttachmentsListed => Kept
      BY <2>2 DEF AttachmentsListed, TurnFields, SameTurn
    <2>5. ExhibitRead => Kept
      <3> SUFFICES ASSUME ExhibitRead PROVE Kept
        OBVIOUS
      <3>1. \E a, b, c : turn' = [turn EXCEPT !.kept = a, !.room = b, !.marks = c]
        BY DEF ExhibitRead
      <3>2. turn.part \in parts
        BY <2>1
      <3> QED BY <2>2, <3>1, <3>2 DEF TurnFields, SameTurn
    <2>6. BudgetSpent => Kept
      BY <2>2 DEF BudgetSpent, TurnFields, SameTurn
    <2>7. ExhibitsDone => Kept
      BY <2>2 DEF ExhibitsDone, TurnFields, SameTurn
    <2>8. ExhibitFails => Kept
      BY <2>2 DEF ExhibitFails, TurnFields, SameTurn
    <2>9. Kept
      BY <1>10, <2>3, <2>4, <2>5, <2>6, <2>7, <2>8
    <2> QED BY <1>9, <2>1, <2>9
  <1>11. CASE FilingRead
    <2>1. /\ Running /\ turn.part = "sections" /\ textDay' = textDay
          /\ turn.filings \in Seq(Listed) /\ turn.filings # <<>>
      BY <1>11, <1>a, <1>r DEF FilingRead
    <2>2. PICK r : /\ r.id = Filing.id /\ r.owner = Symbol
                   /\ turn' = [turn EXCEPT !.part = "filing", !.filings = Tail(turn.filings),
                                           !.batch = Append(turn.batch, r)]
      <3>1. PICK found : turn' = [turn EXCEPT !.part = "filing", !.filings = Tail(turn.filings),
                         !.batch = Append(turn.batch,
                            [id |-> Filing.id, owner |-> Symbol, kind |-> "filing",
                             day |-> Filing.filed, kept |-> turn.kept,
                             marks |-> turn.marks \cup OmissionMark(turn),
                             lost |-> turn.lost, sections |-> found])]
        BY <1>11 DEF FilingRead
      <3> DEFINE r == [id |-> Filing.id, owner |-> Symbol, kind |-> "filing",
                       day |-> Filing.filed, kept |-> turn.kept,
                       marks |-> turn.marks \cup OmissionMark(turn),
                       lost |-> turn.lost, sections |-> found]
      <3>2. r.id = Filing.id /\ r.owner = Symbol
        OBVIOUS
      <3>3. turn' = [turn EXCEPT !.part = "filing", !.filings = Tail(turn.filings),
                                 !.batch = Append(turn.batch, r)]
        BY <3>1
      <3> HIDE DEF r
      <3> QED BY <3>2, <3>3
    <2>3. /\ SameTurn(turn, turn') /\ turn'.mode = turn.mode /\ turn'.part = "filing"
          /\ turn'.items = turn.items /\ turn'.failed = turn.failed
          /\ turn'.symbols = turn.symbols /\ turn'.batch = Append(turn.batch, r)
          /\ turn'.filings = Tail(turn.filings)
      BY <1>r, <2>1, <2>2 DEF TurnFields, SameTurn
    <2>4. Asking(turn) /\ Asking(turn') /\ turn.part \notin {"news", "listing"}
      BY <2>1, <2>3 DEF Asking
    <2> DEFINE s == turn.filings
               b == turn.batch
    <2>5. PICK R : b \in Seq(R)
      BY <1>r, <2>1 DEF IsList
    <2>6. /\ \A k \in DOMAIN b : k \in DOMAIN turn'.batch /\ turn'.batch[k] = b[k]
          /\ Len(b) + 1 \in DOMAIN turn'.batch /\ turn'.batch[Len(b) + 1] = r
          /\ \A k \in DOMAIN turn'.batch : k \in DOMAIN b \/ k = Len(b) + 1
      <3> DEFINE Q == R \cup {r}
                 c == Append(b, r)
      <3>1. b \in Seq(Q) /\ r \in Q
        BY <2>5
      <3> HIDE DEF Q, b
      <3>2. /\ DOMAIN b = 1..Len(b) /\ Len(b) \in Nat /\ DOMAIN c = 1..(Len(b) + 1)
            /\ \A k \in 1..Len(b) : c[k] = b[k]
        BY <3>1
      <3>3. c[Len(b) + 1] = r
        BY <3>1
      <3>4. turn'.batch = c
        BY <2>3 DEF b
      <3> HIDE DEF c
      <3> QED BY <3>2, <3>3, <3>4
    <2>7. \A k \in DOMAIN s : s[k] = Filing \/ \E i \in DOMAIN Tail(s) : Tail(s)[i] = s[k]
      <3>1. /\ Len(s) \in Nat /\ DOMAIN s = 1..Len(s) /\ Filing = s[1]
            /\ Tail(s) \in Seq(Listed) /\ Len(Tail(s)) = Len(s) - 1
            /\ \A i \in 1..Len(Tail(s)) : Tail(s)[i] = s[i + 1]
        BY <2>1, HeadTailProperties DEF Filing
      <3> DEFINE u == Tail(s)
      <3>2. u \in Seq(Listed)
        BY <3>1
      <3>3. DOMAIN u = 1..Len(u)
        <4> HIDE DEF u
        <4> QED BY <3>2
      <3> HIDE DEF u
      <3> SUFFICES ASSUME NEW k \in DOMAIN s, k # 1
                   PROVE  \E i \in DOMAIN u : u[i] = s[k]
        BY <3>1 DEF u
      <3> DEFINE i == k - 1
      <3>4. i \in 1..Len(u) /\ i + 1 = k
        BY <3>1 DEF u
      <3> HIDE DEF i, s
      <3>5. u[i] = s[k]
        BY <3>1, <3>4 DEF u
      <3> QED BY <3>3, <3>4, <3>5
    <2>8. Ids(turn.filings) \cup Ids(turn.batch) \subseteq Ids(turn'.filings) \cup Ids(turn'.batch)
      <3>1. \A k \in DOMAIN b : b[k].id \in Ids(turn'.batch)
        BY <2>6 DEF Ids
      <3>2. \A k \in DOMAIN s : s[k].id \in Ids(turn'.filings) \cup Ids(turn'.batch)
        BY <2>2, <2>3, <2>6, <2>7 DEF Ids
      <3> QED BY <3>1, <3>2 DEF Ids
    <2>9. \A k \in DOMAIN turn'.batch : (k \in DOMAIN turn.batch /\ turn'.batch[k] = turn.batch[k])
                                       \/ turn'.batch[k].owner = Head(turn.symbols)
      BY <2>2, <2>6 DEF Symbol
    <2>10. GatherInv(turn', textDay')
      BY <1>g, <2>1, <2>3, <2>4, <2>8, <2>9, ReadingGathers
    <2> QED BY <1>c, <1>r, <2>1, <2>3, <2>10, GoesOn
  <1>12. CASE CalendarAndRecord
    <2>1. Running /\ ~ Asking(turn) /\ textDay' = textDay
      BY <1>12, <1>a DEF CalendarAndRecord, Asking
    <2>2. PICK answered \in BOOLEAN :
             /\ table' = Upserted(Deduplicated(IF answered THEN Append(turn.items, CalendarItem)
                                                          ELSE turn.items))
             /\ turn'.mode = "stored" /\ turn'.failed = turn.failed /\ SameTurn(turn, turn')
      BY <1>12 DEF CalendarAndRecord, SameTurn
    <2> DEFINE all == IF answered THEN Append(turn.items, CalendarItem) ELSE turn.items
    <2>3. all = turn.items \/ all = Append(turn.items, CalendarItem)
      OBVIOUS
    <2> HIDE DEF all
    <2>4. table' = Upserted(Deduplicated(all))
      BY <2>2 DEF all
    <2>5. AnsweredTargetsAreCollected'
      BY <1>g, <1>r, <2>1, <2>2, <2>3, <2>4, RecordCollects
    <2> QED BY <1>c, <2>2, <2>5 DEF CollectInv, Running
  <1>13. CASE Bundle
    BY <1>13, <1>c, EndsUnstored DEF Bundle
  <1>14. CASE UNCHANGED textVars
    <2>1. turn' = turn /\ table' = table /\ textDay' = textDay
      BY <1>14 DEF textVars
    <2>2. AnsweredTargetsAreCollected
      BY DEF CollectInv
    <2>3. AnsweredTargetsAreCollected'
      BY <2>1, <2>2 DEF AnsweredTargetsAreCollected, News
    <2> QED BY <1>c, <1>g, <2>1, <2>3 DEF CollectInv, Running
  <1> QED
    BY <1>1, <1>2, <1>3, <1>4, <1>5, <1>6, <1>7, <1>8, <1>10, <1>11, <1>12, <1>13, <1>14
       DEF TextNext

(* Whatever fails, a run leaves in the table what the answering targets'    *)
(* sources gave: every article of the window and the newest filings, and a  *)
(* text that several targets share under a held one (_run_step_text and      *)
(* _deduplicate_text_items, pipeline/daily.py).                             *)
THEOREM AnswersAreCollected == TextSpec => []AnsweredTargetsAreCollected
  <1>1. CollectInv => AnsweredTargetsAreCollected
    BY DEF CollectInv
  <1> QED BY <1>1, CollectStart, CollectStep, PTL DEF TextSpec
=============================================================================
