-------------------------- MODULE MarketBarsProofs --------------------------
(***************************************************************************)
(* Theorems about the bars: MarketBars, which keeps them, for any symbols, *)
(* histories, answers, years, crashes and bounds, and Screening, which     *)
(* reads them, for any universe, thresholds, sessions and filings.         *)
(***************************************************************************)
EXTENDS MarketBars, Screening, SequenceTheorems, OrderFacts

Steps == {"idle", "record", "open", "gate", "load", "publish"}

(***************************************************************************)
(* The marker.  It is never removed, so it is enough that it is there from *)
(* the moment a command has opened the store.                              *)
(***************************************************************************)
MarkedInv ==
    /\ pc \in [Writers -> Steps]
    /\ marker \in BOOLEAN
    /\ \A w \in Writers : pc[w] \in {"gate", "load", "publish"} => marker

LEMMA InitMarkedInv == Init => MarkedInv
  BY DEF Init, MarkedInv, Steps

(* A writer that moves on in a store that is marked, or stays marked, and  *)
(* not to a step that needs the marker, keeps the invariant.               *)
LEMMA MoveKeepsMarked ==
    ASSUME MarkedInv, NEW w \in Writers, NEW step \in Steps, Goto(w, step),
           marker' \in BOOLEAN, marker => marker',
           step \in {"gate", "load", "publish"} => marker'
    PROVE  MarkedInv'
  BY DEF MarkedInv, Goto

LEMMA NextMarkedInv == MarkedInv /\ [Next]_vars => MarkedInv'
  <1> SUFFICES ASSUME MarkedInv, [Next]_vars PROVE MarkedInv'
    OBVIOUS
  <1>1. CASE UNCHANGED <<pc, marker>>
    BY <1>1 DEF MarkedInv
  <1>2. ASSUME NEW w \in Writers, DailyPrices(w) \/ Backfill(w) \/ Rebuild(w)
        PROVE  MarkedInv'
    <2>1. Goto(w, "record") /\ marker' = marker
      BY <1>2 DEF DailyPrices, Backfill, Rebuild, Fetch, store
    <2> QED  BY <2>1, MoveKeepsMarked DEF MarkedInv, Steps
  <1>3. ASSUME NEW w \in Writers, RecordActions(w) PROVE MarkedInv'
    BY <1>3, MoveKeepsMarked DEF RecordActions, MarkedInv, Steps
  <1>4. ASSUME NEW w \in Writers, OpenForWrite(w) PROVE MarkedInv'
    <2>1. marker' = TRUE
      BY <1>4 DEF OpenForWrite, FormatIsValid, MarkedInv
    <2> QED  BY <1>4, <2>1, MoveKeepsMarked DEF OpenForWrite, Steps
  <1>5. ASSUME NEW w \in Writers, OpenForRebuild(w) PROVE MarkedInv'
    BY <1>5, MoveKeepsMarked DEF OpenForRebuild, Steps
  <1>6. ASSUME NEW w \in Writers, FormatRefused(w) \/ Crash(w) PROVE MarkedInv'
    <2>1. Goto(w, "idle") /\ marker' = marker
      BY <1>6 DEF FormatRefused, Crash, Finish, store
    <2> QED  BY <2>1, MoveKeepsMarked DEF MarkedInv, Steps
  <1>7. ASSUME NEW w \in Writers, Gate(w) \/ LoadPartition(w) \/ PublishPartition(w)
        PROVE  MarkedInv'
    <2>1. marker' = marker /\ marker
      BY <1>7 DEF Gate, LoadPartition, PublishPartition, At, store, MarkedInv
    <2>2. \E step \in Steps : Goto(w, step)
      BY <1>7 DEF Gate, LoadPartition, PublishPartition, Finish, Steps
    <2> QED  BY <2>1, <2>2, MoveKeepsMarked DEF MarkedInv
  <1> QED
    BY <1>1, <1>2, <1>3, <1>4, <1>5, <1>6, <1>7 DEF Next, NextDay, store, vars

LEMMA OnlyPublishWrites ==
    ASSUME Next, rows' # rows PROVE \E w \in Writers : PublishPartition(w)
  <1>1. NextDay => rows' = rows
    BY DEF NextDay, store
  <1>2. ASSUME NEW w \in Writers, DailyPrices(w) \/ Backfill(w) \/ Rebuild(w)
        PROVE  rows' = rows
    <2>1. \E kind, symbols, window : Fetch(w, kind, symbols, window)
      BY <1>2, Zenon DEF DailyPrices, Backfill, Rebuild
    <2>2. UNCHANGED store
      BY <2>1, Zenon DEF Fetch
    <2> QED  BY <2>2 DEF store
  <1>3. ASSUME NEW w \in Writers, RecordActions(w) \/ OpenForWrite(w) \/ OpenForRebuild(w)
        PROVE  rows' = rows
    BY <1>3 DEF RecordActions, OpenForWrite, OpenForRebuild
  <1>4. ASSUME NEW w \in Writers, FormatRefused(w) \/ Gate(w) \/ LoadPartition(w) \/ Crash(w)
        PROVE  rows' = rows
    BY <1>4 DEF FormatRefused, Gate, LoadPartition, Crash, store
  <1> QED  BY <1>1, <1>2, <1>3, <1>4 DEF Next

(* Whatever dies or overlaps, no file is published into a root that is not *)
(* marked: rows of an unknown basis never share a root with as-traded ones *)
(* that an ordinary write added.                                           *)
THEOREM NoUnmarkedPublish == Spec => PublishedIsMarked
  <1>1. MarkedInv /\ [Next]_vars => [rows' # rows => marker]_vars
    <2> SUFFICES ASSUME MarkedInv, Next, rows' # rows PROVE marker
      BY DEF vars, store
    <2>1. PICK w \in Writers : PublishPartition(w)
      BY OnlyPublishWrites
    <2> QED  BY <2>1 DEF PublishPartition, At, MarkedInv
  <1> QED
    BY <1>1, InitMarkedInv, NextMarkedInv, PTL DEF Spec, PublishedIsMarked

-----------------------------------------------------------------------------
(***************************************************************************)
(* Stored history.  While one command runs at a time, what it loaded is    *)
(* still what is stored, and what passed the gate still agrees with it.    *)
(***************************************************************************)
Shape(j) == j = [kind |-> j.kind, bars |-> j.bars, splits |-> j.splits,
                 plausible |-> j.plausible, symbols |-> j.symbols,
                 todo |-> j.todo, base |-> j.base]

AgreesInv ==
    \A w \in Writers : pc[w] \in {"load", "publish"} /\ job[w].kind # "rebuild" =>
        \A s \in Symbols \cap job[w].symbols : ~Contradicts(job[w].bars[s], rows[s])

LoadedInv ==
    \A w \in Writers : pc[w] = "publish" =>
        \A s \in Symbols : job[w].base[s] = InYear(rows[s], CurrentYear(w))

HistoryInv ==
    /\ pc \in [Writers -> Steps]
    /\ job = [w \in Writers |-> job[w]] /\ \A w \in Writers : Shape(job[w])
    /\ AgreesInv
    /\ LoadedInv

(* What a step may do to the stored series. *)
KeepsHistory ==
    \A s \in Symbols :
        (\E d \in DOMAIN rows[s] : d \notin DOMAIN rows'[s] \/ rows'[s][d] # rows[s][d])
            => \E w \in Writers : job[w].kind = "rebuild" /\ s \in job[w].symbols

LEMMA InitHistoryInv == Init => HistoryInv
  <1> SUFFICES ASSUME Init PROVE HistoryInv
    OBVIOUS
  <1>1. pc = [w \in Writers |-> "idle"] /\ job = [w \in Writers |-> NoJob]
    BY DEF Init
  <1>2. Shape(NoJob)
    BY DEF Shape, NoJob
  <1> QED  BY <1>1, <1>2 DEF HistoryInv, AgreesInv, LoadedInv, Steps

(* A command that is not about to publish has nothing to keep. *)
LEMMA AloneOffPublish ==
    ASSUME NEW w, Writers = {w}, HistoryInv, NEW step \in {"idle", "record", "open", "gate"},
           Goto(w, step), NEW j, Shape(j), job' = [job EXCEPT ![w] = j]
    PROVE  HistoryInv'
  <1>1. pc' \in [Writers -> Steps] /\ pc'[w] = step
    BY DEF HistoryInv, Goto, Steps
  <1>2. job' = [v \in Writers |-> job'[v]] /\ \A v \in Writers : Shape(job'[v])
    BY DEF HistoryInv
  <1>3. AgreesInv' /\ LoadedInv'
    BY <1>1 DEF AgreesInv, LoadedInv
  <1> QED  BY <1>1, <1>2, <1>3 DEF HistoryInv

(* One symbol's series after a publication. *)
LEMMA PublishedSeries ==
    ASSUME NEW w \in Writers, PublishPartition(w), NEW s \in Symbols,
           job[w].base[s] = InYear(rows[s], CurrentYear(w))
    PROVE  /\ s \notin job[w].symbols =>
                /\ DOMAIN rows'[s] = DOMAIN rows[s]
                /\ \A d \in DOMAIN rows[s] : rows'[s][d] = rows[s][d]
           /\ s \in job[w].symbols /\ job[w].kind # "rebuild" =>
                /\ DOMAIN rows[s] \subseteq DOMAIN rows'[s]
                /\ DOMAIN rows'[s] \subseteq DOMAIN rows[s] \cup DOMAIN job[w].bars[s]
                /\ \A d \in DOMAIN rows'[s] :
                     \/ d \in DOMAIN job[w].bars[s] /\ rows'[s][d] = job[w].bars[s][d]
                     \/ d \in DOMAIN rows[s] /\ rows'[s][d] = rows[s][d]
  <1> DEFINE y == CurrentYear(w)
             new == InYear(job[w].bars[s], y)
             file == NewPartition(w)[s]
             rest == Restrict(rows[s], {d \in DOMAIN rows[s] : Year(d) # y})
  <1>1. rows'[s] = Upsert(rest, file)
    BY DEF PublishPartition
  <1>2. /\ DOMAIN rest = {d \in DOMAIN rows[s] : Year(d) # y}
        /\ \A d \in DOMAIN rest : rest[d] = rows[s][d]
    BY DEF Restrict
  <1>3. /\ DOMAIN job[w].base[s] = {d \in DOMAIN rows[s] : Year(d) = y}
        /\ \A d \in DOMAIN job[w].base[s] : job[w].base[s][d] = rows[s][d]
    BY DEF InYear, Restrict
  <1>4. /\ DOMAIN new = {d \in DOMAIN job[w].bars[s] : Year(d) = y}
        /\ \A d \in DOMAIN new : new[d] = job[w].bars[s][d]
    BY DEF InYear, Restrict
  <1> HIDE DEF y, rest, new
  <1>5. ASSUME s \notin job[w].symbols
        PROVE  /\ DOMAIN rows'[s] = DOMAIN rows[s]
               /\ \A d \in DOMAIN rows[s] : rows'[s][d] = rows[s][d]
    <2>1. file = job[w].base[s]
      BY <1>5 DEF NewPartition
    <2> QED  BY <1>1, <1>2, <1>3, <2>1 DEF Upsert
  <1>6. ASSUME s \in job[w].symbols, job[w].kind # "rebuild"
        PROVE  /\ DOMAIN rows[s] \subseteq DOMAIN rows'[s]
               /\ DOMAIN rows'[s] \subseteq DOMAIN rows[s] \cup DOMAIN job[w].bars[s]
               /\ \A d \in DOMAIN rows'[s] :
                    \/ d \in DOMAIN job[w].bars[s] /\ rows'[s][d] = job[w].bars[s][d]
                    \/ d \in DOMAIN rows[s] /\ rows'[s][d] = rows[s][d]
    <2>1. file = Upsert(job[w].base[s], new)
      BY <1>6 DEF NewPartition, new, y
    <2> QED  BY <1>1, <1>2, <1>3, <1>4, <2>1 DEF Upsert
  <1> QED  BY <1>5, <1>6

LEMMA PublishKeepsHistory ==
    ASSUME HistoryInv, NEW w \in Writers, PublishPartition(w)
    PROVE  KeepsHistory
  <1> SUFFICES ASSUME NEW s \in Symbols, ~(job[w].kind = "rebuild" /\ s \in job[w].symbols),
                      NEW d \in DOMAIN rows[s]
               PROVE  d \in DOMAIN rows'[s] /\ rows'[s][d] = rows[s][d]
    BY DEF KeepsHistory
  <1>1. pc[w] = "publish" /\ job[w].base[s] = InYear(rows[s], CurrentYear(w))
    BY DEF HistoryInv, LoadedInv, PublishPartition, At
  <1>2. CASE s \notin job[w].symbols
    BY <1>1, <1>2, PublishedSeries
  <1>3. CASE s \in job[w].symbols
    <2>1. ~Contradicts(job[w].bars[s], rows[s])
      BY <1>1, <1>3 DEF HistoryInv, AgreesInv
    <2> QED  BY <1>1, <1>3, <2>1, PublishedSeries DEF Contradicts
  <1> QED  BY <1>2, <1>3

LEMMA PublishKeepsInv ==
    ASSUME NEW w, Writers = {w}, HistoryInv, PublishPartition(w)
    PROVE  HistoryInv'
  <1>1. CASE Finish(w)
    BY <1>1, AloneOffPublish DEF Finish, Shape, NoJob
  <1>2. CASE /\ job' = [job EXCEPT ![w].todo = @ \ {CurrentYear(w)}, ![w].base = NoBars]
             /\ Goto(w, "load")
    <2>1. /\ job'[w].kind = job[w].kind /\ job'[w].symbols = job[w].symbols
          /\ job'[w].bars = job[w].bars /\ Shape(job'[w])
          /\ job' = [v \in Writers |-> job'[v]]
      BY <1>2 DEF HistoryInv, Shape
    <2>2. pc' \in [Writers -> Steps] /\ pc'[w] = "load"
      BY <1>2 DEF HistoryInv, Goto, Steps
    <2>3. ASSUME NEW s \in Symbols \cap job[w].symbols, job[w].kind # "rebuild"
          PROVE  ~Contradicts(job[w].bars[s], rows'[s])
      <3>1. pc[w] = "publish" /\ job[w].base[s] = InYear(rows[s], CurrentYear(w))
        BY DEF HistoryInv, LoadedInv, PublishPartition, At
      <3>2. ~Contradicts(job[w].bars[s], rows[s])
        BY <2>3, <3>1 DEF HistoryInv, AgreesInv
      <3> QED  BY <2>3, <3>1, <3>2, PublishedSeries DEF Contradicts
    <2> QED  BY <2>1, <2>2, <2>3 DEF HistoryInv, AgreesInv, LoadedInv
  <1> QED  BY <1>1, <1>2 DEF PublishPartition

LEMMA GateKeepsInv ==
    ASSUME NEW w, Writers = {w}, HistoryInv, Gate(w)
    PROVE  HistoryInv'
  <1> DEFINE kept == job[w].symbols \ Quarantined(w)
             years == {Year(d) : d \in UNION {DOMAIN job[w].bars[s] : s \in kept}}
  <1>1. CASE Finish(w)
    BY <1>1, AloneOffPublish DEF Finish, Shape, NoJob
  <1>2. CASE job' = [job EXCEPT ![w].symbols = kept, ![w].todo = years] /\ Goto(w, "load")
    <2> HIDE DEF years
    <2>1. /\ job'[w].symbols = kept
          /\ job'[w].bars = job[w].bars /\ Shape(job'[w])
          /\ job' = [v \in Writers |-> job'[v]]
      BY <1>2 DEF HistoryInv, Shape
    <2>2. pc' \in [Writers -> Steps] /\ pc'[w] = "load"
      BY <1>2 DEF HistoryInv, Goto, Steps
    <2>3. rows' = rows
      BY DEF Gate, store
    <2>4. \A s \in kept : ~Contradicts(job[w].bars[s], rows[s])
      BY DEF Quarantined
    <2> QED  BY <2>1, <2>2, <2>3, <2>4 DEF HistoryInv, AgreesInv, LoadedInv
  <1> QED  BY <1>1, <1>2 DEF Gate

LEMMA LoadKeepsInv ==
    ASSUME NEW w, Writers = {w}, HistoryInv, LoadPartition(w)
    PROVE  HistoryInv'
  <1> DEFINE loaded == [s \in Symbols |-> InYear(rows[s], CurrentYear(w))]
  <1>1. job' = [job EXCEPT ![w].base = loaded] /\ rows' = rows
    BY DEF LoadPartition, store
  <1> HIDE DEF loaded
  <1>2. /\ job'[w].kind = job[w].kind /\ job'[w].symbols = job[w].symbols
        /\ job'[w].bars = job[w].bars /\ job'[w].todo = job[w].todo
        /\ job'[w].base = loaded /\ Shape(job'[w])
        /\ job' = [v \in Writers |-> job'[v]]
    BY <1>1 DEF HistoryInv, Shape
  <1>3. pc' \in [Writers -> Steps] /\ pc'[w] = "publish" /\ pc[w] = "load"
    BY DEF HistoryInv, LoadPartition, At, Goto, Steps
  <1>4. AgreesInv'
    BY <1>1, <1>2, <1>3 DEF HistoryInv, AgreesInv
  <1>5. CurrentYear(w)' = CurrentYear(w)
    BY <1>2 DEF CurrentYear
  <1>6. LoadedInv'
    BY <1>1, <1>2, <1>5 DEF LoadedInv, loaded
  <1> QED  BY <1>2, <1>3, <1>4, <1>6 DEF HistoryInv

LEMMA OpenForRebuildKeepsInv ==
    ASSUME NEW w, Writers = {w}, HistoryInv, OpenForRebuild(w)
    PROVE  HistoryInv'
  <1> DEFINE years ==
        {Year(d) : d \in UNION {DOMAIN job[w].bars[s] \cup DOMAIN rows[s] : s \in Symbols}}
  <1>1. job' = [job EXCEPT ![w].todo = years] /\ job[w].kind = "rebuild"
    BY DEF OpenForRebuild
  <1> HIDE DEF years
  <1>2. /\ job'[w].kind = "rebuild" /\ Shape(job'[w])
        /\ job' = [v \in Writers |-> job'[v]]
    BY <1>1 DEF HistoryInv, Shape
  <1>3. pc' \in [Writers -> Steps] /\ pc'[w] = "load"
    BY DEF HistoryInv, OpenForRebuild, Goto, Steps
  <1> QED  BY <1>2, <1>3 DEF HistoryInv, AgreesInv, LoadedInv

(* Every other step leaves its writer where it has loaded nothing. *)
LEMMA OtherStepsKeepInv ==
    ASSUME NEW w, Writers = {w}, HistoryInv,
           \/ DailyPrices(w) \/ Backfill(w) \/ Rebuild(w) \/ RecordActions(w)
           \/ OpenForWrite(w) \/ FormatRefused(w) \/ Crash(w)
    PROVE  HistoryInv'
  <1>1. ASSUME Finish(w) PROVE HistoryInv'
    BY <1>1, AloneOffPublish DEF Finish, Shape, NoJob
  <1>2. ASSUME job' = job, NEW step \in {"open", "gate"}, Goto(w, step) PROVE HistoryInv'
    <2>1. job' = [job EXCEPT ![w] = job[w]] /\ Shape(job[w])
      BY <1>2 DEF HistoryInv
    <2> QED  BY <1>2, <2>1, AloneOffPublish
  <1>3. ASSUME NEW kind, NEW symbols, NEW window, Fetch(w, kind, symbols, window)
        PROVE  HistoryInv'
    <2>1. Goto(w, "record") /\ \E f : job' = [job EXCEPT ![w] = Batch(kind, symbols, f)]
      BY <1>3, Zenon DEF Fetch
    <2>2. \A f : Shape(Batch(kind, symbols, f))
      BY DEF Shape, Batch
    <2> QED  BY <2>1, <2>2, AloneOffPublish
  <1>4. CASE DailyPrices(w)
    BY <1>3, <1>4 DEF DailyPrices
  <1>5. CASE Backfill(w)
    BY <1>3, <1>5 DEF Backfill
  <1>6. CASE Rebuild(w)
    BY <1>3, <1>6 DEF Rebuild
  <1>7. CASE RecordActions(w)
    BY <1>2, <1>7 DEF RecordActions
  <1>8. CASE OpenForWrite(w)
    BY <1>2, <1>8 DEF OpenForWrite
  <1>9. CASE FormatRefused(w) \/ Crash(w)
    BY <1>1, <1>9 DEF FormatRefused, Crash
  <1> QED  BY <1>4, <1>5, <1>6, <1>7, <1>8, <1>9

LEMMA NextHistoryInv ==
    ASSUME NEW w, Writers = {w}, HistoryInv, [Next]_vars
    PROVE  HistoryInv'
  <1>1. CASE UNCHANGED vars \/ NextDay
    <2>1. UNCHANGED <<pc, job, rows>>
      BY <1>1 DEF vars, store, NextDay
    <2> QED  BY <2>1 DEF HistoryInv, AgreesInv, LoadedInv, CurrentYear
  <1>2. CASE \/ DailyPrices(w) \/ Backfill(w) \/ Rebuild(w) \/ RecordActions(w)
             \/ OpenForWrite(w) \/ FormatRefused(w) \/ Crash(w)
    BY <1>2, OtherStepsKeepInv
  <1>3. CASE OpenForRebuild(w)
    BY <1>3, OpenForRebuildKeepsInv
  <1>4. CASE Gate(w)
    BY <1>4, GateKeepsInv
  <1>5. CASE LoadPartition(w)
    BY <1>5, LoadKeepsInv
  <1>6. CASE PublishPartition(w)
    BY <1>6, PublishKeepsInv
  <1> QED  BY <1>1, <1>2, <1>3, <1>4, <1>5, <1>6 DEF Next

(* A store that one command at a time writes keeps every session it holds, *)
(* at its price, whatever the provider answers and wherever a command dies:*)
(* only a rebuild of the symbol drops or re-prices one.                    *)
THEOREM HistoryIsKept ==
    ASSUME NEW CONSTANT w, Writers = {w}
    PROVE  Spec => OnlyRebuildChangesHistory
  <1>1. Init => HistoryInv
    BY InitHistoryInv
  <1>2. HistoryInv /\ [Next]_vars => HistoryInv'
    BY NextHistoryInv
  <1>3. HistoryInv /\ [Next]_vars => [KeepsHistory]_vars
    <2> SUFFICES ASSUME HistoryInv, Next PROVE KeepsHistory
      OBVIOUS
    <2>1. CASE rows' = rows
      BY <2>1 DEF KeepsHistory
    <2>2. CASE rows' # rows
      BY <2>2, OnlyPublishWrites, PublishKeepsHistory
    <2> QED  BY <2>1, <2>2
  <1>4. [][KeepsHistory]_vars <=> OnlyRebuildChangesHistory
    BY PTL DEF KeepsHistory, OnlyRebuildChangesHistory
  <1> QED  BY <1>1, <1>2, <1>3, <1>4, PTL DEF Spec
-----------------------------------------------------------------------------
(***************************************************************************)
(* Screening: what a run records of a day, and what the matrix measures of *)
(* that day afterwards.  The pure part compares the two on one input: the  *)
(* ranking has every hit once, the classifier stops what its filter stops, *)
(* and the first check that blocks is the one recorded.                    *)
(***************************************************************************)
\* A sequence of the elements of a set, each once.
ListOf(s, S) ==
    /\ IsFiniteSet(S)
    /\ s \in Seq(S) /\ ToSet(s) = S /\ Len(s) = Cardinality(S)

LEMMA InsertAtLists ==
    ASSUME NEW S, NEW s, ListOf(s, S), NEW x, x \notin S, NEW at \in 1..(Len(s) + 1)
    PROVE  ListOf(InsertAt(s, at, x), S \cup {x})
  <1> DEFINE N == Len(s)
             T == S \cup {x}
             before == SubSeq(s, 1, at - 1)
             after == SubSeq(s, at, N)
             front == before \o <<x>>
             t == front \o after
  <1>1. /\ N \in Nat /\ at \in Int /\ s \in Seq(T) /\ DOMAIN s = 1..N /\ x \in T
        /\ \A i \in 1..N : s[i] \in T
    <2>1. s \in Seq(S)
      BY DEF ListOf
    <2>2. \A i \in 1..Len(s) : s[i] \in S
      BY <2>1
    <2> QED BY <2>1, <2>2
  <1>2. InsertAt(s, at, x) = t
    BY DEF InsertAt
  <1> HIDE DEF N
  <1>3. before \in Seq(T) /\ Len(before) = at - 1 /\ \A i \in 1..(at - 1) : before[i] = s[i]
    <2>1. \A i \in 1..(at - 1) : s[i] \in T
      BY <1>1 DEF N
    <2> DEFINE k == at - 1
    <2>2. k \in Int /\ k >= 0 /\ \A i \in 1..k : s[i] \in T
      BY <1>1, <2>1
    <2> HIDE DEF k
    <2>3. /\ SubSeq(s, 1, k) \in Seq(T)
          /\ Len(SubSeq(s, 1, k)) = IF 1 <= k THEN k - 1 + 1 ELSE 0
          /\ \A i \in 1..(k - 1 + 1) : SubSeq(s, 1, k)[i] = s[1 + i - 1]
      BY <1>1, <2>2, SubSeqProperties
    <2>4. \A i \in 1..k : SubSeq(s, 1, k)[i] = s[i]
      BY <2>2, <2>3
    <2>5. Len(SubSeq(s, 1, k)) = k
      BY <2>2, <2>3
    <2>6. before = SubSeq(s, 1, k)
      BY DEF k
    <2> HIDE DEF before
    <2> QED BY <2>3, <2>4, <2>5, <2>6 DEF k
  <1>4. /\ after \in Seq(T) /\ Len(after) = N - at + 1
        /\ \A i \in 1..(N - at + 1) : after[i] = s[at + i - 1]
    <2>1. \A i \in at..N : s[i] \in T
      BY <1>1
    <2>2. /\ SubSeq(s, at, N) \in Seq(T)
          /\ Len(SubSeq(s, at, N)) = IF at <= N THEN N - at + 1 ELSE 0
          /\ \A i \in 1..(N - at + 1) : SubSeq(s, at, N)[i] = s[at + i - 1]
      BY <1>1, <2>1, SubSeqProperties
    <2>3. (IF at <= N THEN N - at + 1 ELSE 0) = N - at + 1
      BY <1>1 DEF N
    <2> QED BY <2>2, <2>3
  <1> HIDE DEF before, after
  <1>5. /\ front \in Seq(T) /\ Len(front) = at
        /\ \A i \in 1..at : front[i] = IF i <= at - 1 THEN s[i] ELSE x
    <2>1. <<x>> \in Seq(T) /\ Len(<<x>>) = 1 /\ <<x>>[1] = x
      BY <1>1
    <2>2. /\ front \in Seq(T) /\ Len(front) = Len(before) + 1
          /\ \A i \in 1..(Len(before) + 1) :
                front[i] = IF i <= Len(before) THEN before[i] ELSE <<x>>[i - Len(before)]
      BY <1>3, <2>1, ConcatProperties
    <2> HIDE DEF front
    <2>3. \A i \in 1..at : ~(i <= at - 1) => i - (at - 1) = 1
      BY <1>1
    <2> DEFINE k == at - 1
    <2>4. k + 1 = at /\ Len(before) = k
      BY <1>1, <1>3
    <2>5. \A i \in 1..at : ~(i <= k) => <<x>>[i - k] = x
      BY <2>1, <2>3
    <2>6. \A i \in 1..at : i <= k => before[i] = s[i]
      BY <1>1, <1>3
    <2> HIDE DEF k
    <2> QED BY <2>2, <2>4, <2>5, <2>6 DEF k
  <1> HIDE DEF front
  <1>6. /\ t \in Seq(T) /\ Len(t) = N + 1
        /\ \A i \in 1..(N + 1) : t[i] = IF i <= at THEN front[i] ELSE after[i - at]
    <2>1. /\ t \in Seq(T) /\ Len(t) = Len(front) + Len(after)
          /\ \A i \in 1..(Len(front) + Len(after)) :
                t[i] = IF i <= Len(front) THEN front[i] ELSE after[i - Len(front)]
      BY <1>4, <1>5, ConcatProperties
    <2> HIDE DEF t
    <2>2. Len(front) + Len(after) = N + 1
      BY <1>1, <1>4, <1>5
    <2> QED BY <1>5, <2>1, <2>2
  <1> HIDE DEF t
  <1>7. \A j \in 1..N : \E i \in 1..(N + 1) : t[i] = s[j]
    <2> SUFFICES ASSUME NEW j \in 1..N PROVE \E i \in 1..(N + 1) : t[i] = s[j]
      OBVIOUS
    <2>1. CASE j < at
      <3>1. j \in 1..(N + 1) /\ j <= at /\ j \in 1..at /\ j <= at - 1
        BY <1>1, <2>1
      <3> QED BY <1>5, <1>6, <3>1
    <2>2. CASE ~(j < at)
      <3> DEFINE k == j + 1 - at
      <3>1. j + 1 \in 1..(N + 1) /\ ~(j + 1 <= at) /\ k \in 1..(N - at + 1) /\ at + k - 1 = j
        BY <1>1, <2>2
      <3>2. t[j + 1] = after[k]
        BY <1>6, <3>1
      <3> HIDE DEF k
      <3>3. after[k] = s[j]
        BY <1>4, <3>1
      <3> QED BY <3>1, <3>2, <3>3
    <2> QED BY <2>1, <2>2
  <1>8. at \in 1..(N + 1) /\ t[at] = x
    BY <1>1, <1>5, <1>6 DEF N
  <1>9. ToSet(t) = T
    <2>1. DOMAIN t = 1..(N + 1) /\ \A i \in 1..(N + 1) : t[i] \in T
      BY <1>1, <1>6
    <2>2. \A y \in S : \E j \in 1..N : s[j] = y
      BY <1>1 DEF ListOf, ToSet
    <2>3. \A y \in T : \E i \in 1..(N + 1) : t[i] = y
      BY <1>7, <1>8, <2>2
    <2> QED BY <2>1, <2>3 DEF ToSet
  <1>10. IsFiniteSet(T) /\ Cardinality(T) = N + 1
    <2>1. IsFiniteSet(S) /\ N = Cardinality(S)
      BY DEF ListOf, N
    <2> QED BY <2>1, FS_AddElement
  <1> QED BY <1>2, <1>6, <1>9, <1>10 DEF ListOf

\* A symbol is put somewhere among those ranked so far.
LEMMA RankedLists ==
    ASSUME NEW data, NEW hits, NEW S, NEW s, ListOf(s, S), NEW x, x \notin S
    PROVE  ListOf(Ranked(data, hits, s, x), S \cup {x})
  <1> DEFINE before == {i \in DOMAIN s : RanksBefore(data, hits, s[i], x)}
             at == 1 + Cardinality(before)
  <1>1. DOMAIN s = 1..Len(s) /\ Len(s) \in Nat
    BY DEF ListOf
  <1>2. Cardinality(before) \in Nat /\ Cardinality(before) <= Len(s)
    <2>1. before \in SUBSET (1..Len(s))
      BY <1>1
    <2> DEFINE m == Len(s)
    <2>2. m \in Nat
      BY <1>1
    <2> HIDE DEF m
    <2>3. IsFiniteSet(1..m) /\ Cardinality(1..m) = m
      BY <2>2, FS_Interval
    <2> HIDE DEF before
    <2> QED BY <2>1, <2>3, FS_Subset, FS_CardinalityType DEF m
  <1>3. at \in 1..(Len(s) + 1)
    <2> HIDE DEF before
    <2> QED BY <1>1, <1>2
  <1>4. Ranked(data, hits, s, x) = InsertAt(s, at, x)
    BY DEF Ranked
  <1> HIDE DEF at
  <1> QED BY <1>3, <1>4, InsertAtLists

LEMMA RankedIsSequence ==
    ASSUME NEW data, NEW hits, NEW S, NEW s \in Seq(S), NEW x \in S
    PROVE  Ranked(data, hits, s, x) \in Seq(S)
  <1> DEFINE before == {i \in DOMAIN s : RanksBefore(data, hits, s[i], x)}
             c == Cardinality(before)
             N == Len(s)
  <1>1. N \in Nat /\ DOMAIN s = 1..N /\ \A i \in 1..N : s[i] \in S
    OBVIOUS
  <1>2. c \in 0..N
    <2>1. before \in SUBSET (1..N)
      BY <1>1
    <2> HIDE DEF N, before
    <2>2. IsFiniteSet(1..N) /\ Cardinality(1..N) = N
      BY <1>1, FS_Interval
    <2>3. IsFiniteSet(before) /\ Cardinality(before) <= N
      BY <2>1, <2>2, FS_Subset
    <2>4. Cardinality(before) \in Nat
      BY <2>3, FS_CardinalityType
    <2> QED BY <1>1, <2>3, <2>4
  <1> DEFINE at == 1 + c
  <1>3. Ranked(data, hits, s, x) = InsertAt(s, at, x)
    BY DEF Ranked
  <1>4. at \in 1..(N + 1)
    <2> HIDE DEF c
    <2> QED BY <1>1, <1>2
  <1> HIDE DEF at
  <1> DEFINE front == SubSeq(s, 1, at - 1)
             back == SubSeq(s, at, N)
  <1>5. InsertAt(s, at, x) = (front \o <<x>>) \o back
    BY DEF InsertAt
  <1> HIDE DEF N
  <1>6. front \in Seq(S) /\ back \in Seq(S)
    <2>1. /\ \A i \in 1..(at - 1) : s[i] \in S
          /\ \A i \in at..N : s[i] \in S
          /\ at - 1 \in Int /\ at \in Int /\ N \in Int
      BY <1>1, <1>4
    <2> QED BY <2>1, SubSeqProperties
  <1> HIDE DEF front, back
  <1>7. front \o <<x>> \in Seq(S)
    BY <1>6
  <1>8. (front \o <<x>>) \o back \in Seq(S)
    BY <1>6, <1>7
  <1> QED BY <1>3, <1>5, <1>8

AlphabetTo(n) == {Order[i] : i \in 1..n}

LEMMA AlphabetGrows ==
    /\ AlphabetTo(0) = {}
    /\ \A n \in 1..Len(Order) : /\ AlphabetTo(n) = AlphabetTo(n - 1) \cup {Order[n]}
                                /\ Order[n] \in Members \ AlphabetTo(n - 1)
    /\ AlphabetTo(Len(Order)) = Members
    /\ Len(Order) \in Nat
  <1>1. /\ Order \in Seq(Members) /\ Len(Order) \in Nat /\ DOMAIN Order = 1..Len(Order)
        /\ \A a, b \in 1..Len(Order) : Order[a] = Order[b] => a = b
        /\ \A x \in Members : \E i \in 1..Len(Order) : Order[i] = x
        /\ \A i \in 1..Len(Order) : Order[i] \in Members
    <2>1. Order \in Seq(Members) /\ IsInjective(Order) /\ Range(Order) = Members
      BY ScreeningConstants
    <2>2. Len(Order) \in Nat /\ DOMAIN Order = 1..Len(Order)
      BY <2>1
    <2>3. \A a, b \in 1..Len(Order) : Order[a] = Order[b] => a = b
      BY <2>1, <2>2 DEF IsInjective
    <2>4. \A x \in Members : \E i \in 1..Len(Order) : Order[i] = x
      BY <2>1, <2>2 DEF Range
    <2> QED BY <2>1, <2>2, <2>3, <2>4
  <1>2. ASSUME NEW n \in 1..Len(Order)
        PROVE  AlphabetTo(n) = AlphabetTo(n - 1) \cup {Order[n]} /\ Order[n] \in Members \ AlphabetTo(n - 1)
    <2>1. 1..n = (1..(n - 1)) \cup {n} /\ n \notin 1..(n - 1) /\ 1..(n - 1) \subseteq 1..Len(Order)
      BY <1>1
    <2> QED BY <1>1, <2>1 DEF AlphabetTo
  <1> QED BY <1>1, <1>2 DEF AlphabetTo

\* A ranking has every hit, once.
LEMMA RankingLists ==
    ASSUME NEW data, NEW hits \in SUBSET Members
    PROVE  ListOf(Ranking(data, hits), hits)
  <1> DEFINE N == Len(Order)
             step == [n \in 1..N |-> [s \in Seq(Members) |->
                         IF Order[n] \in hits THEN Ranked(data, hits, s, Order[n]) ELSE s]]
             ranking == CHOOSE f : f = [n \in 0..N |->
                            IF n = 0 THEN <<>>
                            ELSE IF Order[n] \in hits THEN Ranked(data, hits, f[n - 1], Order[n])
                            ELSE f[n - 1]]
  <1>1. /\ N \in Nat /\ <<>> \in Seq(Members) /\ \A n \in 1..N : Order[n] \in Members
        /\ \A n \in 0..N : n = 0 \/ n \in 1..N
    <2>1. N \in Nat /\ \A n \in 1..N : Order[n] \in Members
      BY AlphabetGrows
    <2> HIDE DEF N
    <2> QED BY <2>1
  <1>2. Ranking(data, hits) = ranking[N]
    BY DEF Ranking
  <1> HIDE DEF N
  <1>3. StaysIn(Seq(Members), step, N)
    <2>1. ASSUME NEW n \in 1..N, NEW x \in Seq(Members) PROVE step[n][x] \in Seq(Members)
      BY <1>1, RankedIsSequence
    <2> HIDE DEF step
    <2> QED BY <2>1 DEF StaysIn
  <1>4. PICK f \in [0..N -> Seq(Members)] : Iterates(f, <<>>, step, N)
    <2> HIDE DEF step
    <2> QED BY <1>1, <1>3, RecursionExists
  <1>5. f = [n \in 0..N |->
                IF n = 0 THEN <<>>
                ELSE IF Order[n] \in hits THEN Ranked(data, hits, f[n - 1], Order[n])
                ELSE f[n - 1]]
    <2>1. f[0] = <<>>
      BY <1>4 DEF Iterates
    <2>2. ASSUME NEW n \in 1..N
          PROVE  f[n] = IF Order[n] \in hits THEN Ranked(data, hits, f[n - 1], Order[n])
                        ELSE f[n - 1]
      <3>1. n - 1 \in 0..N
        BY <1>1
      <3>2. f[n - 1] \in Seq(Members) /\ f[n] = step[n][f[n - 1]]
        <4> HIDE DEF step
        <4> QED BY <1>4, <3>1 DEF Iterates
      <3> QED BY <3>2
    <2> QED BY <1>1, <1>4, <2>1, <2>2
  <1>6. ranking = [n \in 0..N |->
                IF n = 0 THEN <<>>
                ELSE IF Order[n] \in hits THEN Ranked(data, hits, ranking[n - 1], Order[n])
                ELSE ranking[n - 1]]
    BY <1>5
  <1> HIDE DEF ranking
  <1> DEFINE G == {n \in 0..N : ListOf(ranking[n], hits \cap AlphabetTo(n))}
  <1>7. 0 \in G
    <2>1. ranking[0] = <<>> /\ hits \cap AlphabetTo(0) = {} /\ 0 \in 0..N
      BY <1>1, <1>6, AlphabetGrows
    <2>2. ListOf(<<>>, {})
      BY FS_EmptySet DEF ListOf, ToSet
    <2> QED BY <2>1, <2>2
  <1>8. ASSUME NEW n \in 1..N, n - 1 \in G
        PROVE  n \in G
    <2>1. /\ n \in 0..N /\ n # 0
          /\ ListOf(ranking[n - 1], hits \cap AlphabetTo(n - 1))
          /\ AlphabetTo(n) = AlphabetTo(n - 1) \cup {Order[n]}
          /\ Order[n] \notin AlphabetTo(n - 1)
      <3>1. n \in 1..Len(Order)
        BY DEF N
      <3> QED BY <1>1, <1>8, <3>1, AlphabetGrows
    <2>2. ranking[n] = IF Order[n] \in hits THEN Ranked(data, hits, ranking[n - 1], Order[n])
                       ELSE ranking[n - 1]
      BY <1>6, <2>1
    <2>3. CASE Order[n] \in hits
      <3>1. hits \cap AlphabetTo(n) = (hits \cap AlphabetTo(n - 1)) \cup {Order[n]}
        BY <2>1, <2>3
      <3>2. ListOf(Ranked(data, hits, ranking[n - 1], Order[n]), hits \cap AlphabetTo(n))
        BY <2>1, <3>1, RankedLists
      <3> QED BY <2>1, <2>2, <2>3, <3>2
    <2>4. CASE Order[n] \notin hits
      <3>1. hits \cap AlphabetTo(n) = hits \cap AlphabetTo(n - 1)
        BY <2>1, <2>4
      <3> QED BY <2>1, <2>2, <2>4, <3>1
    <2> QED BY <2>3, <2>4
  <1>9. \A n \in 0..N : n \in G
    <2> HIDE DEF G
    <2> QED BY <1>1, <1>7, <1>8, Induction
  <1>10. N \in 0..N /\ hits \cap AlphabetTo(N) = hits
    <2>1. AlphabetTo(N) = Members
      BY AlphabetGrows DEF N
    <2> QED BY <1>1, <2>1
  <1> QED BY <1>2, <1>9, <1>10

\* The cut takes the first of the ranking, and keeps so many of the rest.
LEMMA CutKeeps ==
    ASSUME NEW hits, NEW ranking, ListOf(ranking, hits)
    PROVE  LET limit == Min({CandidateLimit, Len(ranking)})
               kept == SubSeq(ranking, 1, limit)
                           \o Retained(SubSeq(ranking, limit + 1, Len(ranking)))
           IN  /\ ToSet(kept) \subseteq hits
               /\ Len(kept) = Min({Cardinality(hits), (1 + TruncationMultiple) * CandidateLimit})
  <1> DEFINE n == Len(ranking)
             limit == Min({CandidateLimit, n})
             more == TruncationMultiple * CandidateLimit
             first == SubSeq(ranking, 1, limit)
             rest == SubSeq(ranking, limit + 1, n)
             m == Min({Len(rest), more})
             near == SubSeq(rest, 1, m)
             kept == first \o near
  <1>1. /\ n \in Nat /\ CandidateLimit \in Nat /\ more \in Nat
        /\ (1 + TruncationMultiple) * CandidateLimit = CandidateLimit + more
    <2>1. CandidateLimit \in Nat /\ TruncationMultiple \in Nat
      BY ScreeningConstants
    <2>2. n \in Nat
      BY DEF ListOf
    <2> QED BY <2>1, <2>2
  <1>2. limit = IF CandidateLimit <= n THEN CandidateLimit ELSE n
    <2> HIDE DEF n
    <2> QED BY <1>1, MinOfTwo
  <1>3. kept = first \o Retained(rest)
    BY DEF Retained
  <1>4. n = Cardinality(hits) /\ ranking \in Seq(hits) /\ \A i \in 1..n : ranking[i] \in hits
    BY DEF ListOf
  <1> HIDE DEF n, more, limit
  <1>5. limit \in 0..n
    BY <1>1, <1>2
  <1>6. first \in Seq(hits) /\ Len(first) = limit
    <2>1. \A i \in 1..limit : ranking[i] \in hits
      BY <1>4, <1>5, <1>1
    <2>2. /\ SubSeq(ranking, 1, limit) \in Seq(hits)
          /\ Len(SubSeq(ranking, 1, limit)) = IF 1 <= limit THEN limit - 1 + 1 ELSE 0
      BY <1>1, <1>4, <1>5, <2>1, SubSeqProperties
    <2> QED BY <1>1, <1>5, <2>2
  <1>7. rest \in Seq(hits) /\ Len(rest) = n - limit
    <2> DEFINE a == limit + 1
    <2>1. a \in Int /\ n \in Int /\ \A i \in a..n : ranking[i] \in hits
      BY <1>4, <1>5, <1>1
    <2>2. n - a + 1 = n - limit /\ (~(a <= n) => n - limit = 0)
      BY <1>1, <1>5
    <2> HIDE DEF a
    <2>3. /\ SubSeq(ranking, a, n) \in Seq(hits)
          /\ Len(SubSeq(ranking, a, n)) = IF a <= n THEN n - a + 1 ELSE 0
      BY <1>1, <1>4, <2>1, SubSeqProperties
    <2> QED BY <2>2, <2>3 DEF a
  <1> HIDE DEF first, rest
  <1>8. /\ Len(rest) \in Nat
        /\ m = IF Len(rest) <= more THEN Len(rest) ELSE more
    BY <1>1, <1>5, <1>7, MinOfTwo
  <1> HIDE DEF m
  <1>9. near \in Seq(hits) /\ Len(near) = m
    <2>1. m \in Nat /\ m <= Len(rest) /\ \A i \in 1..m : rest[i] \in hits
      BY <1>1, <1>7, <1>8
    <2>2. /\ SubSeq(rest, 1, m) \in Seq(hits)
          /\ Len(SubSeq(rest, 1, m)) = IF 1 <= m THEN m - 1 + 1 ELSE 0
      BY <1>7, <2>1, SubSeqProperties
    <2> QED BY <2>1, <2>2
  <1> HIDE DEF near
  <1>10. kept \in Seq(hits) /\ Len(kept) = limit + m
    BY <1>6, <1>9
  <1> HIDE DEF kept
  <1>11. limit + m = IF n <= CandidateLimit + more THEN n ELSE CandidateLimit + more
    BY <1>1, <1>2, <1>7, <1>8
  <1>12. Min({n, CandidateLimit + more})
            = IF n <= CandidateLimit + more THEN n ELSE CandidateLimit + more
    BY <1>1, MinOfTwo
  <1>13. ToSet(kept) \subseteq hits
    BY <1>10 DEF ToSet
  <1> QED BY <1>1, <1>3, <1>4, <1>10, <1>11, <1>12, <1>13 DEF limit, n, first, rest
-----------------------------------------------------------------------------
(* What is screened: averages of volumes of which not all are missing, and  *)
(* filings of which a period has one a day.                                 *)
VolumesKnown(data) ==
    \A s \in Members : Len(Window(data, s)) >= VolumeDays => VolumeKnown(Window(data, s))

FilingsInv(table) ==
    /\ IsFiniteSet(table)
    /\ \A f \in table : f.period \in Nat /\ f.filed \in Nat /\ f.report \in FilingContents
    /\ \A f, g \in table :
          <<f.symbol, f.period, f.filed>> = <<g.symbol, g.period, g.filed>> => f = g

Screened(data) ==
    /\ data.bars \in Seq(DayQuotes)
    /\ VolumesKnown(data)
    /\ FilingsInv(data.fundamentals)
    /\ data.asOf \in Nat

LEMMA WindowIsBars ==
    ASSUME NEW data, data.bars \in Seq(DayQuotes), NEW s \in Members
    PROVE  Window(data, s) \in Seq(QuoteBars)
  <1> DEFINE days == data.bars
             N == Len(days)
             step == [n \in 1..N |-> [known \in Seq(QuoteBars) |->
                         IF days[n][s] = NoQuote THEN known ELSE Append(known, days[n][s])]]
             known == CHOOSE f : f = [n \in 0..N |->
                        IF n = 0 THEN <<>>
                        ELSE IF days[n][s] = NoQuote THEN f[n - 1]
                        ELSE Append(f[n - 1], days[n][s])]
  <1>1. N \in Nat /\ <<>> \in Seq(QuoteBars)
    OBVIOUS
  <1>2. \A n \in 1..N : days[n][s] = NoQuote \/ days[n][s] \in QuoteBars
    <2>1. \A n \in 1..N : days[n] \in DayQuotes
      OBVIOUS
    <2> QED BY <2>1 DEF DayQuotes
  <1>3. StaysIn(Seq(QuoteBars), step, N)
    <2>1. ASSUME NEW n \in 1..N, NEW x \in Seq(QuoteBars) PROVE step[n][x] \in Seq(QuoteBars)
      BY <1>2
    <2> HIDE DEF step
    <2> QED BY <2>1 DEF StaysIn
  <1>4. PICK f \in [0..N -> Seq(QuoteBars)] : Iterates(f, <<>>, step, N)
    <2> HIDE DEF step, N
    <2> QED BY <1>1, <1>3, RecursionExists
  <1>5. \A n \in 0..N : f[n] = IF n = 0 THEN <<>>
                        ELSE IF days[n][s] = NoQuote THEN f[n - 1]
                        ELSE Append(f[n - 1], days[n][s])
    <2>1. f[0] = <<>>
      BY <1>4 DEF Iterates
    <2>2. ASSUME NEW n \in 1..N
          PROVE  f[n] = IF days[n][s] = NoQuote THEN f[n - 1] ELSE Append(f[n - 1], days[n][s])
      <3>1. n - 1 \in 0..N
        BY <1>1
      <3>2. f[n - 1] \in Seq(QuoteBars) /\ f[n] = step[n][f[n - 1]]
        <4> HIDE DEF step, N
        <4> QED BY <1>4, <3>1 DEF Iterates
      <3> QED BY <3>2
    <2>3. \A n \in 0..N : n = 0 \/ n \in 1..N
      BY <1>1
    <2> HIDE DEF N
    <2> QED BY <2>1, <2>2, <2>3
  <1>6. f = [n \in 0..N |-> IF n = 0 THEN <<>>
                        ELSE IF days[n][s] = NoQuote THEN f[n - 1]
                        ELSE Append(f[n - 1], days[n][s])]
    <2> HIDE DEF N
    <2> QED BY <1>4, <1>5
  <1>7. known = [n \in 0..N |-> IF n = 0 THEN <<>>
                        ELSE IF days[n][s] = NoQuote THEN known[n - 1]
                        ELSE Append(known[n - 1], days[n][s])]
    BY <1>6
  <1>8. \A n \in 0..N : known[n] \in Seq(QuoteBars)
    <2> DEFINE G == {n \in 0..N : known[n] \in Seq(QuoteBars)}
    <2> HIDE DEF known
    <2>1. 0 \in G
      BY <1>1, <1>7
    <2>2. ASSUME NEW n \in 1..N, n - 1 \in G PROVE n \in G
      <3>1. n \in 0..N /\ n # 0 /\ known[n - 1] \in Seq(QuoteBars)
        BY <1>1, <2>2
      <3>2. known[n] = IF days[n][s] = NoQuote THEN known[n - 1]
                       ELSE Append(known[n - 1], days[n][s])
        <4> HIDE DEF N
        <4> QED BY <1>7, <3>1
      <3> DEFINE x == days[n][s]
                 r == known[n - 1]
      <3>3. /\ x = NoQuote \/ x \in QuoteBars
            /\ r \in Seq(QuoteBars)
            /\ known[n] = IF x = NoQuote THEN r ELSE Append(r, x)
        <4> HIDE DEF known
        <4> QED BY <1>2, <3>1, <3>2
      <3> HIDE DEF x, r
      <3>4. known[n] \in Seq(QuoteBars)
        BY <3>3
      <3> QED BY <3>1, <3>4
    <2>3. \A n \in 0..N : n \in G
      <3> HIDE DEF G, N
      <3> QED BY <1>1, <2>1, <2>2, Induction
    <2> QED BY <2>3
  <1>9. Window(data, s) = known[N]
    BY DEF Window
  <1>10. N \in 0..N
    BY <1>1
  <1> HIDE DEF known
  <1> QED BY <1>8, <1>9, <1>10

LEMMA VolumeSumIsNumber ==
    ASSUME NEW window \in Seq(QuoteBars), Len(window) >= VolumeDays
    PROVE  VolumeSum(window) \in Int
  <1> DEFINE base == Len(window) - VolumeDays
             volume(n) == window[base + n].volume
             known(n) == IF volume(n) = Missing THEN 0 ELSE volume(n)
             step == [n \in 1..VolumeDays |-> [t \in Int |-> t + known(n)]]
             sum == CHOOSE f : f = [n \in 0..VolumeDays |->
                        IF n = 0 THEN 0 ELSE f[n - 1] + known(n)]
  <1>1. VolumeDays \in Nat /\ 0 \in Int
    BY ScreeningConstants
  <1>2. \A n \in 1..VolumeDays : known(n) \in Int
    <2>1. \A n \in 1..VolumeDays : base + n \in 1..Len(window)
      BY <1>1
    <2> HIDE DEF base
    <2>2. \A n \in 1..VolumeDays : window[base + n] \in QuoteBars
      BY <2>1
    <2>3. \A bar \in QuoteBars : bar.volume \in Int \cup {Missing}
      BY DEF QuoteBars
    <2> QED BY <2>2, <2>3
  <1>3. VolumeSum(window) = sum[VolumeDays]
    BY DEF VolumeSum
  <1> HIDE DEF base, known
  <1>4. StaysIn(Int, step, VolumeDays)
    <2>1. ASSUME NEW n \in 1..VolumeDays, NEW x \in Int PROVE step[n][x] \in Int
      BY <1>2
    <2> HIDE DEF step
    <2> QED BY <2>1 DEF StaysIn
  <1>5. PICK f \in [0..VolumeDays -> Int] : Iterates(f, 0, step, VolumeDays)
    <2> HIDE DEF step
    <2> QED BY <1>1, <1>4, RecursionExists
  <1>6. f = [n \in 0..VolumeDays |-> IF n = 0 THEN 0 ELSE f[n - 1] + known(n)]
    <2>1. f[0] = 0
      BY <1>5 DEF Iterates
    <2>2. ASSUME NEW n \in 1..VolumeDays
          PROVE  f[n] = f[n - 1] + known(n)
      <3>1. n - 1 \in 0..VolumeDays
        BY <1>1
      <3>2. f[n - 1] \in Int /\ f[n] = step[n][f[n - 1]]
        <4> HIDE DEF step
        <4> QED BY <1>5, <3>1 DEF Iterates
      <3> QED BY <3>2
    <2>3. \A n \in 0..VolumeDays : n = 0 \/ n \in 1..VolumeDays
      BY <1>1
    <2>4. f = [n \in 0..VolumeDays |-> f[n]]
      BY <1>5
    <2> QED BY <2>1, <2>2, <2>3, <2>4
  <1>7. sum = [n \in 0..VolumeDays |-> IF n = 0 THEN 0 ELSE sum[n - 1] + known(n)]
    BY <1>6
  <1>8. \A n \in 0..VolumeDays : sum[n] \in Int
    <2> DEFINE G == {n \in 0..VolumeDays : sum[n] \in Int}
    <2> HIDE DEF sum
    <2>1. 0 \in G
      BY <1>1, <1>7
    <2>2. ASSUME NEW n \in 1..VolumeDays, n - 1 \in G PROVE n \in G
      <3>1. n \in 0..VolumeDays /\ n # 0 /\ sum[n - 1] \in Int
        BY <1>1, <2>2
      <3>2. sum[n] = sum[n - 1] + known(n)
        BY <1>7, <3>1
      <3>3. known(n) \in Int
        BY <1>2
      <3>4. sum[n] \in Int
        BY <3>1, <3>2, <3>3
      <3> QED BY <3>1, <3>4
    <2>3. \A n \in 0..VolumeDays : n \in G
      <3> HIDE DEF G
      <3> QED BY <1>1, <2>1, <2>2, Induction
    <2> QED BY <2>3
  <1>9. VolumeDays \in 0..VolumeDays
    BY <1>1
  <1> HIDE DEF sum
  <1> QED BY <1>3, <1>8, <1>9

\* With every volume known, the classifier and the filter ask the same.
LEMMA LiquidityMirrors ==
    ASSUME NEW data, data.bars \in Seq(DayQuotes), VolumesKnown(data), NEW s \in Members
    PROVE  ClassifyLiquidity(data, s) # Passes <=> s \notin VolumeMin(data)
  <1> DEFINE window == Window(data, s)
  <1>1. window \in Seq(QuoteBars) /\ Len(window) \in Nat
    BY WindowIsBars
  <1>2. VolumeDays \in Nat \ {0} /\ VolumeFloor(window) \in Nat
    <2>1. VolumeDays \in Nat \ {0} /\ MinVolume \in Nat
      BY ScreeningConstants
    <2> HIDE DEF window
    <2>2. IsFiniteSet(1..Len(window))
      BY <1>1, FS_Interval
    <2>3. KnownVolumes(window) \subseteq 1..Len(window)
      BY <1>1 DEF KnownVolumes, LastVolumes
    <2>4. Cardinality(KnownVolumes(window)) \in Nat
      BY <2>2, <2>3, FS_Subset, FS_CardinalityType
    <2> QED BY <2>1, <2>4 DEF VolumeFloor
  <1>3. VolumeKnown(window) <=> Len(window) >= VolumeDays
    BY DEF VolumesKnown, VolumeKnown
  <1>4. s \in VolumeMin(data) <=> VolumeKnown(window) /\ VolumeSum(window) > VolumeFloor(window)
    BY DEF VolumeMin
  <1>5. ClassifyLiquidity(data, s) =
            IF Len(window) < VolumeDays THEN NoData("INSUFFICIENT_HISTORY")
            ELSE IF VolumeKnown(window) /\ VolumeSum(window) <= VolumeFloor(window)
            THEN Stopped("fundamental_filter", "LOW_LIQUIDITY")
            ELSE Passes
    BY DEF ClassifyLiquidity
  <1>6. /\ NoData("INSUFFICIENT_HISTORY") # Passes
        /\ Stopped("fundamental_filter", "LOW_LIQUIDITY") # Passes
    BY DEF NoData, Stopped, Passes
  <1>7. Len(window) >= VolumeDays => VolumeSum(window) \in Int
    <2> HIDE DEF window
    <2> QED BY <1>1, VolumeSumIsNumber
  <1> HIDE DEF window
  <1> DEFINE v == VolumeSum(window)
             b == VolumeFloor(window)
             n == Len(window)
  <1>8. n >= VolumeDays => (v <= b <=> ~(v > b))
    <2>1. b \in Int /\ (n >= VolumeDays => v \in Int)
      BY <1>2, <1>7
    <2> HIDE DEF v, b
    <2> QED BY <2>1
  <1>9. n < VolumeDays <=> ~(n >= VolumeDays)
    BY <1>1, <1>2
  <1> HIDE DEF v, b, n
  <1> QED BY <1>3, <1>4, <1>5, <1>6, <1>8, <1>9 DEF v, b, n

\* Of a symbol's newest quarters there are at most as many as are asked for.
LEMMA RecentIsBounded ==
    ASSUME NEW data, FilingsInv(data.fundamentals), NEW s
    PROVE  /\ IsFiniteSet(Recent(data, s))
           /\ Cardinality(Recent(data, s)) \in Nat /\ Cardinality(Recent(data, s)) <= Quarters
           /\ \A f \in Recent(data, s) : f.period \in Nat /\ f.report \in FilingContents
  <1> DEFINE available == {f \in data.fundamentals : f.symbol = s /\ f.filed <= data.asOf}
             latest == {f \in available :
                           ~\E g \in available : g.period = f.period /\ g.filed > f.filed}
             newer(f) == {g \in latest : g.period > f.period}
             recent == {f \in latest : Cardinality(newer(f)) < Quarters}
  <1>1. Recent(data, s) = recent
    BY DEF Recent
  <1>2. /\ IsFiniteSet(latest)
        /\ \A f \in latest : f.period \in Nat /\ f.filed \in Nat /\ f.report \in FilingContents
        /\ \A f, g \in latest : f.period = g.period => f = g
    <2>1. latest \in SUBSET data.fundamentals /\ IsFiniteSet(data.fundamentals)
      BY DEF FilingsInv
    <2>2. IsFiniteSet(latest)
      <3> HIDE DEF latest
      <3> QED BY <2>1, FS_Subset
    <2>3. \A f \in latest : f.period \in Nat /\ f.filed \in Nat /\ f.report \in FilingContents
      BY DEF FilingsInv
    <2>4. ASSUME NEW f \in latest, NEW g \in latest, f.period = g.period
          PROVE  f = g
      <3>1. f.filed \in Nat /\ g.filed \in Nat
        BY <2>3
      <3>2. ~(f.filed > g.filed) /\ ~(g.filed > f.filed) /\ f.symbol = g.symbol
        BY <2>4
      <3>3. f.filed = g.filed
        BY <3>1, <3>2
      <3>4. f \in data.fundamentals /\ g \in data.fundamentals
        BY <2>1
      <3> QED BY <2>4, <3>2, <3>3, <3>4 DEF FilingsInv
    <2> QED BY <2>2, <2>3, <2>4
  <1> HIDE DEF latest
  <1>3. Quarters \in Nat \ {0}
    BY ScreeningConstants
  <1>4. recent \in SUBSET latest
    OBVIOUS
  <1>5. IsFiniteSet(recent) /\ Cardinality(recent) \in Nat
    <2> HIDE DEF recent
    <2> QED BY <1>2, <1>4, FS_Subset, FS_CardinalityType
  <1>6. CASE recent = {}
    <2>1. Cardinality(recent) = 0
      BY <1>6, FS_EmptySet
    <2> HIDE DEF recent
    <2> QED BY <1>1, <1>3, <1>5, <1>6, <2>1
  <1>7. CASE recent # {}
    <2> DEFINE age == [f \in recent |-> 0 - f.period]
    <2>1. PICK m \in recent : \A f \in recent : age[f] <= age[m]
      <3>1. \A f \in recent : age[f] \in Int
        BY <1>2, <1>4
      <3> HIDE DEF recent, age
      <3> QED BY <1>5, <1>7, <3>1, GreatestImage
    <2>2. \A f \in recent : m.period <= f.period
      BY <1>2, <1>4, <2>1
    <2>3. m \in latest /\ Cardinality(newer(m)) < Quarters
      OBVIOUS
    <2>4. recent \ {m} \subseteq newer(m)
      <3> SUFFICES ASSUME NEW f \in recent, f # m PROVE f \in newer(m)
        OBVIOUS
      <3>1. f \in latest /\ f.period # m.period /\ f.period \in Nat /\ m.period \in Nat
        BY <1>2, <1>4, <2>3
      <3> QED BY <2>2, <3>1
    <2>5. newer(m) \in SUBSET latest
      OBVIOUS
    <2> DEFINE above == newer(m)
               others == recent \ {m}
    <2>6. IsFiniteSet(above) /\ Cardinality(above) \in Nat
      <3> HIDE DEF newer
      <3> QED BY <1>2, <2>5, FS_Subset, FS_CardinalityType
    <2>7. Cardinality(others) <= Cardinality(above)
      <3> HIDE DEF above, others
      <3> QED BY <2>4, <2>6, FS_Subset DEF above, others
    <2>8. Cardinality(others) = Cardinality(recent) - 1
      <3> HIDE DEF recent
      <3> QED BY <1>5, <2>1, FS_RemoveElement
    <2> HIDE DEF newer, recent, others, above
    <2>9. Cardinality(recent) <= Quarters
      BY <1>3, <1>5, <2>3, <2>6, <2>7, <2>8 DEF above
    <2> QED BY <1>1, <1>2, <1>4, <1>5, <2>9
  <1> QED BY <1>6, <1>7

\* The classifier of filings stops what the filter stops.
LEMMA FundamentalsMirror ==
    ASSUME NEW data, FilingsInv(data.fundamentals), NEW s \in Members
    PROVE  ClassifyFundamentals(data, s) # Passes <=> s \notin Profitable(data)
  <1> DEFINE recent == Recent(data, s)
             last == Newest(recent).report
             sound == /\ Positive(last.fcf)
                      /\ last.assets \notin {Missing, 0}
                      /\ last.equity # Missing
                      /\ 1000 * last.equity > MinEquity * last.assets
             low == \/ last.assets \in {Missing, 0}
                    \/ last.equity = Missing
                    \/ 1000 * last.equity <= MinEquity * last.assets
             income == \A f \in recent : Positive(f.report.income)
  <1>1. s \in Profitable(data) <=> Cardinality(recent) = Quarters /\ income /\ sound
    BY DEF Profitable
  <1>2. ClassifyFundamentals(data, s) =
            IF Cardinality(recent) < Quarters THEN NoData("INSUFFICIENT_HISTORY")
            ELSE IF ~income THEN ClassifyNetIncome(recent)
            ELSE IF ~Positive(last.fcf) THEN Stopped("fundamental_filter", "NEGATIVE_FCF")
            ELSE IF low THEN Stopped("fundamental_filter", "LOW_EQUITY_RATIO")
            ELSE Passes
    BY DEF ClassifyFundamentals
  <1>3. /\ NoData("INSUFFICIENT_HISTORY") # Passes
        /\ ClassifyNetIncome(recent) # Passes
        /\ Stopped("fundamental_filter", "NEGATIVE_FCF") # Passes
        /\ Stopped("fundamental_filter", "LOW_EQUITY_RATIO") # Passes
    BY DEF NoData, Stopped, Passes, ClassifyNetIncome
  <1> HIDE DEF recent
  <1>4. /\ IsFiniteSet(recent) /\ Cardinality(recent) \in Nat /\ Cardinality(recent) <= Quarters
        /\ \A f \in recent : f.period \in Nat /\ f.report \in FilingContents
    BY RecentIsBounded DEF recent
  <1>5. Quarters \in Nat \ {0} /\ MinEquity \in Nat
    BY ScreeningConstants
  <1>6. CASE Cardinality(recent) < Quarters
    BY <1>1, <1>2, <1>3, <1>4, <1>5, <1>6
  <1>7. CASE ~(Cardinality(recent) < Quarters)
    <2>1. Cardinality(recent) = Quarters
      BY <1>4, <1>5, <1>7
    <2>2. recent # {}
      BY <1>5, <2>1, FS_EmptySet
    <2> DEFINE period == [f \in recent |-> f.period]
    <2>3. \E m \in recent : \A f \in recent : period[f] <= period[m]
      <3>1. \A f \in recent : period[f] \in Int
        BY <1>4
      <3> HIDE DEF period
      <3> QED BY <1>4, <2>2, <3>1, GreatestImage
    <2>4. Newest(recent) \in recent
      <3>1. \E m \in recent : \A g \in recent : g.period <= m.period
        BY <2>3
      <3> HIDE DEF period
      <3> QED BY <3>1 DEF Newest
    <2>5. last.assets \in Int \cup {Missing} /\ last.equity \in Int \cup {Missing}
      <3>1. last \in FilingContents
        BY <1>4, <2>4
      <3> HIDE DEF last
      <3> QED BY <3>1 DEF FilingContents, Amounts
    <2>6. Positive(last.fcf) => (sound <=> ~low)
      <3> DEFINE assets == last.assets
                 equity == last.equity
      <3>1. assets \in Int /\ equity \in Int =>
                (1000 * equity > MinEquity * assets <=> ~(1000 * equity <= MinEquity * assets))
        <4> HIDE DEF assets, equity
        <4>1. \A e, b \in Int : e > b <=> ~(e <= b)
          OBVIOUS
        <4>2. assets \in Int /\ equity \in Int => 1000 * equity \in Int /\ MinEquity * assets \in Int
          BY <1>5
        <4> QED BY <4>1, <4>2
      <3> HIDE DEF last
      <3>2. assets \notin {Missing, 0} /\ equity # Missing => assets \in Int /\ equity \in Int
        BY <2>5
      <3> HIDE DEF assets, equity
      <3> QED BY <3>1, <3>2 DEF assets, equity
    <2> HIDE DEF sound, low, income, last
    <2> QED BY <1>1, <1>2, <1>3, <1>7, <2>1, <2>6 DEF sound
  <1> QED BY <1>6, <1>7

-----------------------------------------------------------------------------
(* The record of a day and the matrix of the same input.                    *)
Default == Checks("default")

\* What MatrixAgrees says of one day.
RecordAgrees(screen, data) ==
    LET equivalent == CandidateEquivalent(data, Default)
        ranked == screen.candidates \o screen.truncations
    IN  /\ ToSet(ranked) \subseteq equivalent
        /\ Len(ranked) = Min({Cardinality(equivalent),
                              (1 + TruncationMultiple) * CandidateLimit})
        /\ DOMAIN screen.rejections = Members \ equivalent
        /\ \A s \in Members \ equivalent :
            LET entry == screen.rejections[s]
                blocked == BlockedBy(data, Default, s)
                first == CheckNames(Default)[Min(blocked)]
            IN  IF blocked = {} THEN entry.check = "ranking"
                ELSE /\ entry.check = first
                     /\ (entry.why.stage = "data_quality")
                        = LacksData(data, Default, s, first)

LEMMA TwoPairs ==
    ASSUME NEW a, NEW b, NEW c, NEW d
    PROVE  LET all == <<a, b>> \o <<c, d>>
           IN  DOMAIN all = {1, 2, 3, 4} /\ all[1] = a /\ all[2] = b /\ all[3] = c /\ all[4] = d
  <1> DEFINE S == {a, b, c, d}
             x == <<a, b>>
             y == <<c, d>>
  <1>1. x \in Seq(S) /\ Len(x) = 2 /\ x[1] = a /\ x[2] = b
    OBVIOUS
  <1>2. y \in Seq(S) /\ Len(y) = 2 /\ y[1] = c /\ y[2] = d
    OBVIOUS
  <1> HIDE DEF x, y, S
  <1>3. /\ x \o y \in Seq(S) /\ Len(x \o y) = Len(x) + Len(y)
        /\ \A i \in 1..(Len(x) + Len(y)) :
              (x \o y)[i] = IF i <= Len(x) THEN x[i] ELSE y[i - Len(x)]
    BY <1>1, <1>2, ConcatProperties
  <1>4. DOMAIN (x \o y) = {1, 2, 3, 4}
    BY <1>1, <1>2, <1>3
  <1>5. /\ (x \o y)[1] = x[1] /\ (x \o y)[2] = x[2]
        /\ (x \o y)[3] = y[1] /\ (x \o y)[4] = y[2]
    BY <1>1, <1>2, <1>3
  <1> QED BY <1>1, <1>2, <1>4, <1>5 DEF x, y

LEMMA DefaultChecks ==
    /\ DOMAIN Default.filters = {1, 2} /\ DOMAIN Default.signals = {1, 2}
    /\ Len(Default.filters) = 2
    /\ DOMAIN CheckNames(Default) = {1, 2, 3, 4}
    /\ \A i \in {1, 2} : /\ CheckNames(Default)[i] = Default.filters[i]
                         /\ CheckNames(Default)[i + 2] = Default.signals[i]
                         /\ Default.signals[i] \in {"trend_sma", "pullback_rsi"}
                         /\ Default.filters[i] \in Range(Default.filters)
                         /\ Default.signals[i] \notin Range(Default.filters)
    /\ Range(Default.signals) \cap PopulationDependent = {}
  <1> DEFINE p == "profitable_positive_fcf_equity"
             v == "volume_min"
             t == "trend_sma"
             r == "pullback_rsi"
  <1>1. Default.filters = <<p, v>> /\ Default.signals = <<t, r>>
    BY DEF Default, Checks
  <1>2. /\ DOMAIN CheckNames(Default) = {1, 2, 3, 4}
        /\ CheckNames(Default)[1] = p /\ CheckNames(Default)[2] = v
        /\ CheckNames(Default)[3] = t /\ CheckNames(Default)[4] = r
    <2>1. CheckNames(Default) = <<p, v>> \o <<t, r>>
      BY <1>1 DEF CheckNames
    <2> QED BY <2>1, TwoPairs
  <1>3. Range(<<p, v>>) = {p, v} /\ Range(<<t, r>>) = {t, r}
    BY DEF Range
  <1> QED BY <1>1, <1>2, <1>3 DEF PopulationDependent

\* These signals judge a symbol by itself.
LEMMA SignalsJudgeAlone ==
    ASSUME NEW data, NEW signal \in {"trend_sma", "pullback_rsi"}, NEW A \in SUBSET Members,
           NEW s \in A
    PROVE  s \in Hits(data, signal, A) <=> s \in Hits(data, signal, Members)
  BY DEF Hits, TrendSma, PullbackRsi

LEMMA FiltersMirror ==
    ASSUME NEW data, Screened(data), NEW s \in Members, NEW filter
    PROVE  ClassifyFilter(data, s, filter) # Passes <=> s \notin Passing(data, filter)
  <1>1. CASE filter = "volume_min"
    BY <1>1, LiquidityMirrors DEF Screened, ClassifyFilter, Passing
  <1>2. CASE filter # "volume_min"
    BY <1>2, FundamentalsMirror DEF Screened, ClassifyFilter, Passing
  <1> QED BY <1>1, <1>2

LEMMA RejectionAgrees ==
    ASSUME NEW data, Screened(data), NEW s \in Members, NEW hits, NEW filtered \in SUBSET Members,
           s \in filtered <=> \A i \in DOMAIN Default.filters : s \in Passing(data, Default.filters[i]),
           hits = [i \in DOMAIN Default.signals |-> Hits(data, Default.signals[i], filtered)]
    PROVE  LET entry == Rejection(data, Default, hits, s)
               blocked == BlockedBy(data, Default, s)
               first == CheckNames(Default)[Min(blocked)]
           IN  /\ IF blocked = {} THEN entry.check = "ranking"
                  ELSE /\ entry.check = first
                       /\ (entry.why.stage = "data_quality")
                          = LacksData(data, Default, s, first)
               /\ blocked = {} <=> s \in filtered /\ \A i \in DOMAIN hits : s \in hits[i]
  <1> DEFINE entry == Rejection(data, Default, hits, s)
             blocked == BlockedBy(data, Default, s)
             failing == {i \in DOMAIN Default.filters :
                            ClassifyFilter(data, s, Default.filters[i]) # Passes}
             missing == {i \in DOMAIN Default.signals : s \notin hits[i]}
             f == Min(failing)
             m == Min(missing)
             b == Min(blocked)
  <1>1. /\ blocked \subseteq {1, 2, 3, 4}
        /\ \A i \in {1, 2} : /\ i \in blocked <=> s \notin Passing(data, Default.filters[i])
                             /\ i + 2 \in blocked
                                <=> s \notin Hits(data, Default.signals[i], Members)
    <2>1. \A i \in {1, 2} : i <= 2 /\ ~(i + 2 <= 2) /\ i \in {1, 2, 3, 4} /\ i + 2 \in {1, 2, 3, 4}
      OBVIOUS
    <2> QED BY <2>1, DefaultChecks DEF BlockedBy
  <1>2. failing \subseteq {1, 2} /\ \A i \in {1, 2} : i \in failing <=> i \in blocked
    BY <1>1, DefaultChecks, FiltersMirror
  <1>3. s \in filtered <=> failing = {}
    BY <1>1, <1>2, DefaultChecks
  <1>4. missing \subseteq {1, 2}
        /\ (s \in filtered => \A i \in {1, 2} : i \in missing <=> i + 2 \in blocked)
    <2>1. ASSUME s \in filtered, NEW i \in {1, 2}
          PROVE  i \in missing <=> i + 2 \in blocked
      <3>1. s \in Hits(data, Default.signals[i], filtered)
            <=> s \in Hits(data, Default.signals[i], Members)
        BY <2>1, DefaultChecks, SignalsJudgeAlone
      <3> QED BY <1>1, <3>1, DefaultChecks
    <2> QED BY <2>1, DefaultChecks
  <1>5. DOMAIN hits = {1, 2}
    BY DefaultChecks
  <1>6. blocked = {} <=> s \in filtered /\ \A i \in DOMAIN hits : s \in hits[i]
    <2>1. missing = {} <=> \A i \in DOMAIN hits : s \in hits[i]
      BY <1>5, DefaultChecks
    <2> HIDE DEF blocked, failing, missing
    <2>2. \A i \in {1, 2, 3, 4} : i \in {1, 2} \/ \E j \in {1, 2} : i = j + 2
      OBVIOUS
    <2> QED BY <1>1, <1>2, <1>3, <1>4, <2>1, <2>2
  <1>7. entry = IF failing # {}
                   THEN [check |-> Default.filters[f],
                         why |-> ClassifyFilter(data, s, Default.filters[f])]
                   ELSE IF missing # {}
                   THEN [check |-> Default.signals[m],
                         why |-> ClassifySignal(data, s, Default.signals[m])]
                   ELSE [check |-> "ranking", why |-> NoData("INSUFFICIENT_HISTORY")]
    BY DEF Rejection
  <1>8. \A i \in failing : ClassifyFilter(data, s, Default.filters[i]) # Passes
    OBVIOUS
  <1> HIDE DEF entry, blocked, failing, missing
  <1>9. /\ blocked # {} => b \in blocked /\ \A i \in blocked : b <= i
        /\ failing # {} => f \in failing /\ \A i \in failing : f <= i
        /\ missing # {} => m \in missing /\ \A i \in missing : m <= i
    <2>1. blocked \in SUBSET Nat /\ failing \in SUBSET Nat /\ missing \in SUBSET Nat
      BY <1>1, <1>2, <1>4
    <2> QED BY <2>1, LeastNatural
  <1> HIDE DEF f, m, b
  <1>10. CASE failing # {}
    <2>1. b = f /\ f \in {1, 2} /\ blocked # {}
      <3>1. f \in failing /\ f \in {1, 2} /\ f \in blocked
        BY <1>2, <1>9, <1>10
      <3>2. b \in {1, 2, 3, 4} /\ b \in blocked /\ b <= f
        BY <1>1, <1>9, <3>1
      <3>3. b \in {1, 2}
        BY <3>1, <3>2
      <3>4. f <= b
        BY <1>2, <1>9, <1>10, <3>2, <3>3
      <3> QED BY <3>1, <3>2, <3>4
    <2>2. CheckNames(Default)[b] = Default.filters[f]
          /\ Default.filters[f] \in Range(Default.filters)
      BY <2>1, DefaultChecks
    <2>3. ClassifyFilter(data, s, Default.filters[f]) # Passes
      BY <1>8, <1>9, <1>10
    <2>4. /\ entry.check = Default.filters[f]
          /\ entry.why = ClassifyFilter(data, s, Default.filters[f])
      BY <1>7, <1>10
    <2>5. (entry.why.stage = "data_quality") = LacksData(data, Default, s, Default.filters[f])
      BY <2>2, <2>3, <2>4 DEF LacksData
    <2> QED BY <1>6, <2>1, <2>2, <2>4, <2>5 DEF entry, blocked, b
  <1>11. CASE failing = {} /\ missing # {}
    <2>1. b = m + 2 /\ m \in {1, 2} /\ blocked # {}
      <3>1. \A i \in blocked : \E j \in missing : i = j + 2
        <4>1. \A i \in {1, 2, 3, 4} : i \in {1, 2} \/ \E j \in {1, 2} : i = j + 2
          OBVIOUS
        <4> QED BY <1>1, <1>2, <1>3, <1>4, <1>11, <4>1
      <3>2. \A j \in missing : j + 2 \in blocked /\ j \in {1, 2}
        BY <1>3, <1>4, <1>11
      <3>3. m + 2 \in blocked /\ m \in {1, 2} /\ b \in blocked /\ b <= m + 2
        BY <1>9, <1>11, <3>2
      <3>4. PICK j \in missing : b = j + 2
        BY <3>1, <3>3
      <3>5. m <= j /\ j \in {1, 2}
        BY <1>9, <1>11, <3>2, <3>4
      <3> QED BY <3>3, <3>4, <3>5
    <2>2. CheckNames(Default)[b] = Default.signals[m]
          /\ Default.signals[m] \notin Range(Default.filters)
      BY <2>1, DefaultChecks
    <2>4. /\ entry.check = Default.signals[m]
          /\ entry.why = ClassifySignal(data, s, Default.signals[m])
      BY <1>7, <1>11
    <2>5. (entry.why.stage = "data_quality") = LacksData(data, Default, s, Default.signals[m])
      BY <2>2, <2>4 DEF LacksData
    <2> QED BY <1>6, <2>1, <2>2, <2>4, <2>5 DEF entry, blocked, b
  <1>12. CASE failing = {} /\ missing = {}
    <2>1. blocked = {}
      <3>1. \A i \in {1, 2, 3, 4} : i \in {1, 2} \/ \E j \in {1, 2} : i = j + 2
        OBVIOUS
      <3> QED BY <1>1, <1>2, <1>3, <1>4, <1>12, <3>1
    <2>2. entry.check = "ranking"
      BY <1>7, <1>12
    <2> QED BY <1>6, <2>1, <2>2 DEF entry, blocked
  <1> QED BY <1>10, <1>11, <1>12

LEMMA ScreenAgrees ==
    ASSUME NEW data, Screened(data)
    PROVE  RecordAgrees(Screen(data, Default), data)
  <1> DEFINE filtered == {s \in Members : \A i \in DOMAIN Default.filters :
                                             s \in Passing(data, Default.filters[i])}
             hits == [i \in DOMAIN Default.signals |-> Hits(data, Default.signals[i], filtered)]
             rankable == {s \in filtered : /\ \A i \in DOMAIN hits : s \in hits[i]
                                           /\ Rankable(Window(data, s))}
             ranking == Ranking(data, rankable)
             limit == Min({CandidateLimit, Len(ranking)})
             first == SubSeq(ranking, 1, limit)
             near == Retained(SubSeq(ranking, limit + 1, Len(ranking)))
             rejections == [s \in Members \ rankable |-> Rejection(data, Default, hits, s)]
             screen == [candidates |-> first, truncations |-> near, rejections |-> rejections,
                        hits |-> hits]
             equivalent == CandidateEquivalent(data, Default)
  <1>1. Screen(data, Default) = screen
    BY DEF Screen
  <1>2. ASSUME NEW s \in Members
        PROVE  LET entry == Rejection(data, Default, hits, s)
                   blocked == BlockedBy(data, Default, s)
                   named == CheckNames(Default)[Min(blocked)]
               IN  /\ IF blocked = {} THEN entry.check = "ranking"
                      ELSE /\ entry.check = named
                           /\ (entry.why.stage = "data_quality")
                              = LacksData(data, Default, s, named)
                   /\ blocked = {} <=> s \in filtered /\ \A i \in DOMAIN hits : s \in hits[i]
    <2>1. /\ filtered \in SUBSET Members
          /\ s \in filtered
             <=> \A i \in DOMAIN Default.filters : s \in Passing(data, Default.filters[i])
      OBVIOUS
    <2>2. hits = [i \in DOMAIN Default.signals |-> Hits(data, Default.signals[i], filtered)]
      OBVIOUS
    <2> HIDE DEF filtered, hits
    <2> QED BY <2>1, <2>2, RejectionAgrees
  <1>3. filtered \in SUBSET Members
    OBVIOUS
  <1> HIDE DEF filtered, hits
  <1>4. rankable = equivalent
    <2>1. equivalent = {s \in Members : BlockedBy(data, Default, s) = {} /\ Rankable(Window(data, s))}
      BY DEF CandidateEquivalent
    <2>2. \A s \in Members : s \in rankable <=> s \in equivalent
      BY <1>2, <2>1
    <2> QED BY <1>3, <2>1, <2>2
  <1>5. rankable \in SUBSET Members
    BY <1>3
  <1>6. /\ ToSet(first \o near) \subseteq rankable
        /\ Len(first \o near)
              = Min({Cardinality(rankable), (1 + TruncationMultiple) * CandidateLimit})
    <2>1. ListOf(ranking, rankable)
      <3> HIDE DEF rankable
      <3> QED BY <1>5, RankingLists
    <2> HIDE DEF ranking, rankable
    <2> QED BY <2>1, CutKeeps
  <1>7. /\ DOMAIN rejections = Members \ rankable
        /\ \A s \in Members \ rankable : rejections[s] = Rejection(data, Default, hits, s)
    OBVIOUS
  <1> HIDE DEF rankable, first, near, rejections, equivalent
  <1>8. /\ screen.candidates = first /\ screen.truncations = near
        /\ screen.rejections = rejections
    OBVIOUS
  <1> HIDE DEF screen
  <1>9. ASSUME NEW s \in Members \ equivalent
        PROVE  LET entry == screen.rejections[s]
                   blocked == BlockedBy(data, Default, s)
                   named == CheckNames(Default)[Min(blocked)]
               IN  IF blocked = {} THEN entry.check = "ranking"
                   ELSE /\ entry.check = named
                        /\ (entry.why.stage = "data_quality")
                           = LacksData(data, Default, s, named)
    BY <1>2, <1>4, <1>7, <1>8
  <1>10. RecordAgrees(screen, data)
    BY <1>4, <1>6, <1>7, <1>8, <1>9, Zenon DEF RecordAgrees, equivalent
  <1> QED BY <1>1, <1>10
-----------------------------------------------------------------------------
(* What the matrix sees of a day does not change.                           *)
SameSight(then, now) ==
    then.bars = now.bars /\ \A s \in Members : Recent(then, s) = Recent(now, s)

LEMMA SameSightAgrees ==
    ASSUME NEW then, NEW now, SameSight(then, now), NEW screen, RecordAgrees(screen, then)
    PROVE  RecordAgrees(screen, now)
  <1>1. \A s \in Members : Window(then, s) = Window(now, s) /\ Recent(then, s) = Recent(now, s)
    <2> DEFINE W(bars, s) ==
                  LET known[n \in 0..Len(bars)] ==
                          IF n = 0 THEN <<>>
                          ELSE IF bars[n][s] = NoQuote THEN known[n - 1]
                          ELSE Append(known[n - 1], bars[n][s])
                  IN  known[Len(bars)]
    <2>1. \A s : Window(then, s) = W(then.bars, s) /\ Window(now, s) = W(now.bars, s)
      BY DEF Window
    <2> HIDE DEF W
    <2> QED BY <2>1 DEF SameSight
  <1>2. \A filter, s : s \in Members =>
            /\ s \in Passing(then, filter) <=> s \in Passing(now, filter)
            /\ ClassifyFilter(then, s, filter) = ClassifyFilter(now, s, filter)
    BY <1>1 DEF Passing, VolumeMin, Profitable, ClassifyFilter, ClassifyLiquidity,
                ClassifyFundamentals
  <1>3. \A s \in Members : \A signal \in {"trend_sma", "pullback_rsi"} :
            /\ s \in Hits(then, signal, Members) <=> s \in Hits(now, signal, Members)
            /\ ClassifySignal(then, s, signal) = ClassifySignal(now, s, signal)
    BY <1>1 DEF Hits, TrendSma, PullbackRsi, ClassifySignal
  <1>4. \A s \in Members : BlockedBy(then, Default, s) = BlockedBy(now, Default, s)
    <2>1. \A i \in {1, 2, 3, 4} : i <= 2 \/ \E j \in {1, 2} : i = j + 2
      OBVIOUS
    <2>2. \A i \in {1, 2, 3, 4} : ~(i <= 2) => CheckNames(Default)[i] \in {"trend_sma", "pullback_rsi"}
      BY <2>1, DefaultChecks
    <2> QED BY <1>2, <1>3, <2>2, DefaultChecks DEF BlockedBy
  <1>5. CandidateEquivalent(then, Default) = CandidateEquivalent(now, Default)
    BY <1>1, <1>4 DEF CandidateEquivalent
  <1>6. \A s \in Members : \A i \in {1, 2, 3, 4} :
            LacksData(then, Default, s, CheckNames(Default)[i])
            = LacksData(now, Default, s, CheckNames(Default)[i])
    <2> SUFFICES ASSUME NEW s \in Members, NEW i \in {1, 2, 3, 4}
                 PROVE  LacksData(then, Default, s, CheckNames(Default)[i])
                        = LacksData(now, Default, s, CheckNames(Default)[i])
      OBVIOUS
    <2> DEFINE name == CheckNames(Default)[i]
    <2>1. name \in Range(Default.filters) \/ name \in {"trend_sma", "pullback_rsi"}
      <3>1. i \in {1, 2} \/ \E j \in {1, 2} : i = j + 2
        OBVIOUS
      <3> QED BY <3>1, DefaultChecks
    <2> HIDE DEF name
    <2>2. LacksData(then, Default, s, name) = LacksData(now, Default, s, name)
      BY <1>2, <1>3, <2>1 DEF LacksData
    <2> QED BY <2>2 DEF name
  <1>7. \A s \in Members : LET blocked == BlockedBy(now, Default, s)
                           IN  blocked # {} => Min(blocked) \in {1, 2, 3, 4}
    <2> SUFFICES ASSUME NEW s \in Members, BlockedBy(now, Default, s) # {}
                 PROVE  Min(BlockedBy(now, Default, s)) \in {1, 2, 3, 4}
      OBVIOUS
    <2>1. BlockedBy(now, Default, s) \subseteq {1, 2, 3, 4}
      BY DefaultChecks DEF BlockedBy
    <2>2. BlockedBy(now, Default, s) \in SUBSET Nat
      BY <2>1
    <2>3. Min(BlockedBy(now, Default, s)) \in BlockedBy(now, Default, s)
      BY <2>2, LeastNatural
    <2> QED BY <2>1, <2>3
  <1>8. ASSUME NEW s \in Members \ CandidateEquivalent(now, Default)
        PROVE  LET entry == screen.rejections[s]
                   blocked == BlockedBy(now, Default, s)
                   named == CheckNames(Default)[Min(blocked)]
               IN  IF blocked = {} THEN entry.check = "ranking"
                   ELSE /\ entry.check = named
                        /\ (entry.why.stage = "data_quality")
                           = LacksData(now, Default, s, named)
    <2> DEFINE entry == screen.rejections[s]
               blocked == BlockedBy(now, Default, s)
               named == CheckNames(Default)[Min(blocked)]
    <2>1. IF blocked = {} THEN entry.check = "ranking"
          ELSE /\ entry.check = named
               /\ (entry.why.stage = "data_quality") = LacksData(then, Default, s, named)
      <3>1. BlockedBy(then, Default, s) = blocked /\ s \in Members \ CandidateEquivalent(then, Default)
        BY <1>4, <1>5
      <3> HIDE DEF blocked
      <3> QED BY <3>1 DEF RecordAgrees
    <2>2. blocked # {} => LacksData(then, Default, s, named) = LacksData(now, Default, s, named)
      BY <1>6, <1>7
    <2> HIDE DEF entry, blocked, named
    <2>3. IF blocked = {} THEN entry.check = "ranking"
          ELSE /\ entry.check = named
               /\ (entry.why.stage = "data_quality") = LacksData(now, Default, s, named)
      BY <2>1, <2>2
    <2> QED BY <2>3 DEF entry, blocked, named
  <1>9. LET equivalent == CandidateEquivalent(now, Default)
            ranked == screen.candidates \o screen.truncations
        IN  /\ ToSet(ranked) \subseteq equivalent
            /\ Len(ranked) = Min({Cardinality(equivalent),
                                  (1 + TruncationMultiple) * CandidateLimit})
            /\ DOMAIN screen.rejections = Members \ equivalent
    BY <1>5, Zenon DEF RecordAgrees
  <1> QED BY <1>8, <1>9, Zenon DEF RecordAgrees

-----------------------------------------------------------------------------
(* The days that are recorded.                                              *)

\* A filing is stored on the day it is filed, and the matrix reads as far back
\* as the screen.
CompleteInputs ==
    /\ FilingLags = {0}
    /\ RequiredBars("default") <= FloorRows

\* No symbol has only missing volumes in its last VolumeDays bars of a day.
NeverAllMissing == \A d \in 1..Len(quotes) : VolumesKnown(MatrixAt(d))

ScreeningShape ==
    /\ quotes \in Seq(DayQuotes)
    /\ FilingsInv(filings) /\ \A f \in filings : f.filed <= Len(quotes)
    /\ DOMAIN screens \subseteq 1..Len(quotes)

RecordsAgree ==
    strategy = "default" => \A d \in DOMAIN screens : RecordAgrees(screens[d], MatrixAt(d))

ScreeningInv == ScreeningShape /\ RecordsAgree

LEMMA ScreeningStarts ==
    ASSUME CompleteInputs, ScreeningInit
    PROVE  ScreeningInv
  <1>1. FilingsInv(filings) /\ \A f \in filings : f.filed <= Len(quotes)
    <2>1. /\ IsFiniteSet(FirstFilings)
          /\ \A f \in FirstFilings : f.period \in Nat /\ f.filed \in 1..Len(FirstQuotes)
                                     /\ f.report \in FilingContents
          /\ \A f, g \in FirstFilings :
                <<f.symbol, f.period, f.filed>> = <<g.symbol, g.period, g.filed>> => f = g
      BY ScreeningConstants
    <2>2. filings = FirstFilings /\ quotes = FirstQuotes
      BY DEF ScreeningInit
    <2>3. Len(FirstQuotes) \in Nat
      BY DEF CompleteInputs
    <2>4. \A f \in FirstFilings : f.filed \in Nat /\ f.filed <= Len(FirstQuotes)
      BY <2>1, <2>3
    <2> QED BY <2>1, <2>2, <2>4 DEF FilingsInv
  <1>2. quotes \in Seq(DayQuotes) /\ DOMAIN screens = {}
    BY ScreeningConstants DEF ScreeningInit
  <1> QED BY <1>1, <1>2 DEF ScreeningInv, ScreeningShape, RecordsAgree

\* A day's session does not move when later ones are stored.
LEMMA EarlierSessionsStay ==
    ASSUME NEW S, NEW s \in Seq(S), NEW x \in S, NEW a \in Nat \ {0}, NEW d \in 1..Len(s)
    PROVE  SubSeq(Append(s, x), a, d) = SubSeq(s, a, d)
  <1> DEFINE t == Append(s, x)
  <1>1. /\ t \in Seq(S) /\ Len(t) = Len(s) + 1
        /\ \A i \in 1..Len(s) : t[i] = s[i]
        /\ \A i \in 1..Len(s) : s[i] \in S
    OBVIOUS
  <1> HIDE DEF t
  <1>2. \A i \in a..d : s[i] \in S /\ t[i] \in S /\ t[i] = s[i]
    BY <1>1
  <1> DEFINE u == SubSeq(t, a, d)
             v == SubSeq(s, a, d)
             m == IF a <= d THEN d - a + 1 ELSE 0
  <1>3. u \in Seq(S) /\ Len(u) = m /\ \A i \in 1..(d - a + 1) : u[i] = t[a + i - 1]
    <2>1. t \in Seq(S) /\ a \in Int /\ d \in Int /\ \A i \in a..d : t[i] \in S
      BY <1>1, <1>2
    <2>2. /\ SubSeq(t, a, d) \in Seq(S)
          /\ Len(SubSeq(t, a, d)) = IF a <= d THEN d - a + 1 ELSE 0
          /\ \A i \in 1..(d - a + 1) : SubSeq(t, a, d)[i] = t[a + i - 1]
      BY <2>1, SubSeqProperties
    <2> QED BY <2>2, Zenon
  <1>4. v \in Seq(S) /\ Len(v) = m /\ \A i \in 1..(d - a + 1) : v[i] = s[a + i - 1]
    <2>1. s \in Seq(S) /\ a \in Int /\ d \in Int /\ \A i \in a..d : s[i] \in S
      BY <1>1, <1>2
    <2>2. /\ SubSeq(s, a, d) \in Seq(S)
          /\ Len(SubSeq(s, a, d)) = IF a <= d THEN d - a + 1 ELSE 0
          /\ \A i \in 1..(d - a + 1) : SubSeq(s, a, d)[i] = s[a + i - 1]
      BY <2>1, SubSeqProperties
    <2> QED BY <2>2, Zenon
  <1>5. \A i \in 1..m : a + i - 1 \in a..d /\ i \in 1..(d - a + 1)
    OBVIOUS
  <1> HIDE DEF u, v, m
  <1>6. \A i \in 1..m : u[i] = v[i]
    BY <1>2, <1>3, <1>4, <1>5
  <1>7. u = v
    BY <1>3, <1>4, <1>6, SeqEqual
  <1> QED BY <1>7 DEF u, v, t

LEMMA ScreenDayKeeps ==
    ASSUME CompleteInputs, ScreeningInv, NEW session \in Quotes, NEW arrived \in ArrivingFilings,
           ScreenDay(session, arrived), NeverAllMissing'
    PROVE  ScreeningInv'
  <1> DEFINE day == Len(quotes) + 1
             reach == Max({FloorRows, RequiredBars(strategy)})
             data == Input(quotes', filings', day, reach)
  <1>1. /\ quotes \in Seq(DayQuotes) /\ session \in DayQuotes /\ quotes' = Append(quotes, session)
        /\ Len(quotes) \in Nat /\ quotes' \in Seq(DayQuotes) /\ Len(quotes') = day
    <2>1. quotes \in Seq(DayQuotes) /\ session \in DayQuotes /\ quotes' = Append(quotes, session)
      BY ScreeningConstants DEF ScreeningInv, ScreeningShape, ScreenDay
    <2> QED BY <2>1
  <1>2. day \in Nat /\ day = Len(quotes) + 1
    BY <1>1
  <1>3. \A f \in arrived : /\ f.filed = day /\ f.period \in Nat /\ f.report \in FilingContents
                           /\ arrived = {f}
    <2> SUFFICES ASSUME NEW f \in arrived
                 PROVE  /\ f.filed = day /\ f.period \in Nat /\ f.report \in FilingContents
                        /\ arrived = {f}
      OBVIOUS
    <2>1. arrived \in {{[symbol |-> r.symbol, period |-> r.period, report |-> r.report,
                         filed |-> Len(quotes) + 1 - lag]} : r \in Reports, lag \in FilingLags}
      BY DEF ArrivingFilings
    <2>2. PICK r \in Reports, lag \in FilingLags :
              arrived = {[symbol |-> r.symbol, period |-> r.period, report |-> r.report,
                          filed |-> Len(quotes) + 1 - lag]}
      BY <2>1
    <2>3. lag = 0 /\ Len(quotes) + 1 - lag = day
      BY <1>1 DEF CompleteInputs
    <2>4. f = [symbol |-> r.symbol, period |-> r.period, report |-> r.report, filed |-> day]
          /\ arrived = {f}
      BY <2>2, <2>3
    <2>5. r.period \in Nat /\ r.report \in FilingContents
      BY ScreeningConstants
    <2> QED BY <2>4, <2>5
  <1>4. /\ FilingsInv(filings) /\ filings' = filings \cup arrived
        /\ \A f \in filings : f.filed \in Nat /\ f.filed <= Len(quotes)
    BY DEF ScreeningInv, ScreeningShape, FilingsInv, ScreenDay
  <1>5. FilingsInv(filings')
    <2>1. IsFiniteSet(filings')
      <3>1. arrived = {} \/ \E f : arrived = {f}
        BY <1>3
      <3> QED BY <1>4, <3>1, FS_AddElement DEF FilingsInv
    <2>2. \A f \in filings' : f.period \in Nat /\ f.filed \in Nat /\ f.report \in FilingContents
      BY <1>2, <1>3, <1>4 DEF FilingsInv
    <2>3. ASSUME NEW f \in filings', NEW g \in filings',
                 <<f.symbol, f.period, f.filed>> = <<g.symbol, g.period, g.filed>>
          PROVE  f = g
      <3>1. f.filed = g.filed
        BY <2>3
      <3>2. \A e \in filings : e.filed # day
        BY <1>1, <1>2, <1>4
      <3>3. CASE f \in filings
        <4>1. g \in filings
          BY <1>3, <1>4, <3>1, <3>2, <3>3
        <4> QED BY <1>4, <2>3, <3>3, <4>1 DEF FilingsInv
      <3>4. CASE f \in arrived
        <4>1. g \in arrived
          BY <1>3, <1>4, <3>1, <3>2, <3>4
        <4> QED BY <1>3, <3>4, <4>1
      <3> QED BY <1>4, <3>3, <3>4
    <2> QED BY <2>1, <2>2, <2>3 DEF FilingsInv
  <1>6. \A f \in filings' : f.filed <= Len(quotes')
    BY <1>1, <1>2, <1>3, <1>4
  <1>7. /\ DOMAIN screens' = DOMAIN screens \cup {day}
        /\ DOMAIN screens \subseteq 1..Len(quotes)
        /\ \A d \in DOMAIN screens : screens'[d] = screens[d]
        /\ screens'[day] = Screen(data, Checks(strategy))
    <2>1. DOMAIN screens \subseteq 1..Len(quotes)
      BY DEF ScreeningInv, ScreeningShape
    <2>2. day \notin DOMAIN screens
      BY <1>1, <2>1
    <2>3. screens' = [d \in DOMAIN screens \cup {day} |->
                         IF d = day THEN Screen(data, Checks(strategy)) ELSE screens[d]]
      BY DEF ScreenDay
    <2> HIDE DEF day, data
    <2> QED BY <2>1, <2>2, <2>3
  <1>8. DOMAIN screens' \subseteq 1..Len(quotes')
    BY <1>1, <1>2, <1>7
  <1>9. RecordsAgree'
    <2> SUFFICES ASSUME strategy' = "default", NEW d \in DOMAIN screens'
                 PROVE  RecordAgrees(screens'[d], MatrixAt(d)')
      BY DEF RecordsAgree
    <2>1. strategy = "default"
      BY DEF ScreenDay
    <2>2. FloorRows \in Nat /\ reach = FloorRows
      <3>1. FloorRows \in Nat /\ RequiredBars(strategy) \in Int
        <4>1. FloorRows \in Nat /\ LongBars \in Int /\ TrendLong \in Int
          BY ScreeningConstants
        <4>2. Max({LongBars, TrendLong}) \in Int
          BY <4>1, MaxOfTwo
        <4> QED BY <2>1, <4>1, <4>2 DEF RequiredBars
      <3>2. RequiredBars(strategy) <= FloorRows
        BY <2>1 DEF CompleteInputs
      <3> QED BY <3>1, <3>2, MaxOfTwo
    <2>3. MatrixAt(d)' = Input(quotes', filings', d, FloorRows)
      BY DEF MatrixAt
    <2>4. CASE d = day
      <3>1. screens'[d] = Screen(data, Default) /\ MatrixAt(d)' = data
        BY <1>7, <2>1, <2>2, <2>3, <2>4 DEF Default
      <3> DEFINE a == Max({1, day - reach + 1})
      <3>2. a \in Int /\ a >= 1
        <4>1. day - reach + 1 \in Int
          BY <1>2, <2>2
        <4> HIDE DEF day, reach
        <4> QED BY <4>1, MaxOfTwo
      <3>3. SubSeq(quotes', a, day) \in Seq(DayQuotes)
        <4> DEFINE q == quotes'
        <4>1. q \in Seq(DayQuotes) /\ Len(q) = day /\ day \in Nat
          BY <1>1, <1>2
        <4> HIDE DEF a, day, q
        <4>2. \A i \in a..day : q[i] \in DayQuotes
          BY <3>2, <4>1
        <4>3. SubSeq(q, a, day) \in Seq(DayQuotes)
          BY <3>2, <4>1, <4>2, SubSeqProperties
        <4> QED BY <4>3 DEF q
      <3>4. Screened(data)
        <4>1. d \in 1..Len(quotes')
          BY <1>1, <1>2, <2>4
        <4>2. VolumesKnown(data)
          BY <3>1, <4>1 DEF NeverAllMissing
        <4> HIDE DEF day
        <4> QED BY <1>2, <1>5, <3>3, <4>2 DEF Screened, Input
      <3>5. RecordAgrees(Screen(data, Default), data)
        <4> HIDE DEF data
        <4> QED BY <3>4, ScreenAgrees
      <3> QED BY <3>1, <3>5
    <2>5. CASE d # day
      <3>1. d \in DOMAIN screens /\ screens'[d] = screens[d] /\ d \in 1..Len(quotes)
        BY <1>7, <2>5
      <3>2. RecordAgrees(screens[d], MatrixAt(d))
        BY <2>1, <3>1 DEF ScreeningInv, RecordsAgree
      <3> DEFINE a == Max({1, d - FloorRows + 1})
      <3>3. a \in Nat \ {0}
        <4>1. d - FloorRows + 1 \in Int
          BY <1>1, <2>2, <3>1
        <4> DEFINE e == d - FloorRows + 1
        <4> HIDE DEF e
        <4>2. Max({1, e}) = IF 1 >= e THEN 1 ELSE e
          BY <4>1, MaxOfTwo DEF e
        <4>3. Max({1, e}) \in Nat \ {0}
          BY <4>1, <4>2 DEF e
        <4> QED BY <4>3 DEF e
      <3>4. SubSeq(quotes', a, d) = SubSeq(quotes, a, d)
        <4> HIDE DEF a
        <4> QED BY <1>1, <3>1, <3>3, EarlierSessionsStay
      <3> DEFINE then == Input(quotes, filings, d, FloorRows)
                 now == Input(quotes', filings', d, FloorRows)
      <3>5. /\ then.bars = now.bars /\ then.asOf = d /\ now.asOf = d
            /\ then.fundamentals = filings /\ now.fundamentals = filings'
        BY <3>4 DEF Input
      <3>6. \A s : Recent(then, s) = Recent(now, s)
        <4> HIDE DEF then, now
        <4>1. ASSUME NEW s
              PROVE  {f \in filings : f.symbol = s /\ f.filed <= d}
                     = {f \in filings' : f.symbol = s /\ f.filed <= d}
          <5>1. \A f \in arrived : ~(f.filed <= d)
            BY <1>1, <1>2, <1>3, <3>1
          <5> QED BY <1>4, <5>1
        <4> DEFINE R(available) ==
                     LET latest == {f \in available :
                            ~\E g \in available : g.period = f.period /\ g.filed > f.filed}
                     IN  {f \in latest : Cardinality({g \in latest : g.period > f.period}) < Quarters}
                   seen(data0, s) == {f \in data0.fundamentals : f.symbol = s /\ f.filed <= data0.asOf}
        <4>2. \A s : Recent(then, s) = R(seen(then, s)) /\ Recent(now, s) = R(seen(now, s))
          BY DEF Recent
        <4> HIDE DEF R
        <4>3. \A s : seen(then, s) = seen(now, s)
          BY <3>5, <4>1
        <4> QED BY <4>2, <4>3
      <3>7. SameSight(then, now)
        BY <3>5, <3>6 DEF SameSight
      <3>8. RecordAgrees(screens[d], then)
        BY <3>2 DEF MatrixAt
      <3> HIDE DEF then, now
      <3>9. RecordAgrees(screens[d], now)
        BY <3>7, <3>8, SameSightAgrees
      <3> QED BY <2>3, <3>1, <3>9 DEF now
    <2> QED BY <2>4, <2>5
  <1> QED BY <1>1, <1>5, <1>6, <1>8, <1>9 DEF ScreeningInv, ScreeningShape

\* The record of every day and the matrix of today agree: `MatrixAgrees`.  The
\* screen, its classifier and the matrix ask the same of the same data when a
\* filing is stored on the day it is filed, the matrix reads as far back as the
\* screen, and no average has only missing volumes; what comes later is not seen
\* by either.
THEOREM RecordAndMatrixAgree ==
    ASSUME CompleteInputs
    PROVE  ScreeningSpec /\ []NeverAllMissing => []MatrixAgrees
  <1>1. ScreeningInit => ScreeningInv
    BY ScreeningStarts
  <1>2. ScreeningInv /\ [ScreeningNext]_screeningVars /\ NeverAllMissing' => ScreeningInv'
    <2> SUFFICES ASSUME ScreeningInv, [ScreeningNext]_screeningVars, NeverAllMissing' PROVE ScreeningInv'
      OBVIOUS
    <2>1. CASE ScreeningNext
      BY <2>1, ScreenDayKeeps DEF ScreeningNext
    <2>2. CASE UNCHANGED screeningVars
      BY <2>2 DEF screeningVars, ScreeningInv, ScreeningShape, RecordsAgree, MatrixAt
    <2> QED BY <2>1, <2>2
  <1>3. ScreeningInv => MatrixAgrees
    <2> SUFFICES ASSUME ScreeningInv PROVE MatrixAgrees
      OBVIOUS
    <2>1. CASE strategy = "default"
      BY <2>1, Zenon DEF ScreeningInv, RecordsAgree, RecordAgrees, MatrixAgrees, Default
    <2>2. CASE strategy # "default"
      <3>1. Checks(strategy).signals = <<"minervini_stage2">>
        BY <2>2 DEF Checks
      <3>2. "minervini_stage2" \in Range(<<"minervini_stage2">>)
        BY DEF Range
      <3>3. Range(Checks(strategy).signals) \cap PopulationDependent # {}
        BY <3>1, <3>2 DEF PopulationDependent
      <3> QED BY <3>3, Zenon DEF MatrixAgrees
    <2> QED BY <2>1, <2>2
  <1> QED BY <1>1, <1>2, <1>3, PTL DEF ScreeningSpec
=============================================================================
