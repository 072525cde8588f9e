----------------------------- MODULE MarketBars -----------------------------
(***************************************************************************)
(* The price store of storage/market_store.py and the three commands that  *)
(* write it: the daily price step, copilot-backfill bars and               *)
(* copilot-backfill rebuild.                                               *)
(*                                                                         *)
(* Bars are one Parquet file per year, holding every symbol; corporate     *)
(* actions are a table of their own; a marker file says that the root      *)
(* holds as-traded prices.  A command fetches, records the splits of the   *)
(* answer, opens the store, passes its gates, and replaces one year's file *)
(* after another.  It may die anywhere.                                    *)
(*                                                                         *)
(* Prices and factors are logarithms, as in SplitBasis.                    *)
(***************************************************************************)
EXTENDS SplitBasis, Functions

CONSTANTS
    Symbols,
    Writers,        \* commands that may run at the same time
    LastDate,       \* sessions are 1 .. LastDate
    YearLength,     \* sessions in a year's partition
    Lookback,       \* sessions the daily price step reaches back
    Tolerance,      \* COVERAGE_TOLERANCE_DAYS
    Markets,        \* histories: what each symbol trades at, and its splits
    Roots,          \* initial stores: "empty", or "legacy" as before Issue #413
    LegacyDate,     \* the day on which a legacy store is found
    MaxMissing,     \* sessions of one symbol a single answer may leave out
    PastWindows,    \* whether a command may end its window before today
    MaxJobs,        \* bound: commands started
    MaxCrashes      \* bound: commands killed

Dates == 1 .. LastDate

ASSUME MarketAssumption ==
    /\ {LastDate, YearLength, Lookback} \subseteq Nat \ {0}
    /\ {Tolerance, LegacyDate, MaxMissing, MaxJobs, MaxCrashes} \subseteq Nat
    /\ LegacyDate \in Dates
    /\ PastWindows \in BOOLEAN
    /\ Roots \subseteq {"empty", "legacy"}
    /\ \A m \in Markets :
        /\ DOMAIN m.level = Symbols /\ DOMAIN m.splits = Symbols
        /\ \A s \in Symbols :
            /\ m.level[s] \in [Dates -> Int]
            /\ DOMAIN m.splits[s] \subseteq Dates
            /\ \A e \in DOMAIN m.splits[s] : m.splits[s][e] \in Int \ {0}

VARIABLES
    market,     \* the exchange's history, fixed at the start
    today,
    recorded,   \* recorded[s]: ex-dates in corporate_actions
    rows,       \* rows[s]: the stored series of s
    marker,     \* the format marker says "raw"
    pc, job,    \* each writer's step and what it works on
    jobs, crashes

store == <<recorded, rows, marker>>
vars == <<market, today, store, pc, job, jobs, crashes>>

Year(d) == (d - 1) \div YearLength
Years == {Year(d) : d \in Dates}

NoBars == [s \in Symbols |-> <<>>]
NoJob == [kind |-> "none", bars |-> NoBars, splits |-> [s \in Symbols |-> {}],
          plausible |-> {}, symbols |-> {}, todo |-> {}, base |-> NoBars]

HasPartitions == \E s \in Symbols : DOMAIN rows[s] # {}
FormatIsValid == HasPartitions => marker

RecordedSplits(s) == Restrict(market.splits[s], recorded[s])

-----------------------------------------------------------------------------
(* The exchange and the provider. *)

(* The as-traded price: the level on the basis of the last date, with      *)
(* every later split undone.                                               *)
AsTraded(s, d) == market.level[s][d] + Cumulative(market.splits[s], d, LastDate)

NextDay ==
    /\ today < LastDate
    /\ today' = today + 1
    /\ UNCHANGED <<market, store, pc, job, jobs, crashes>>

(* An answer for the sessions D of s, dated today.  The provider adjusts   *)
(* every row for every split up to today, except that it may fail to push  *)
(* back the splits in lagging, and yet adjust for them the rows in         *)
(* corrected (Issues #413, #421).                                          *)
Answer(s, D, lagging, corrected) ==
    LET applied(d) == {e \in DOMAIN market.splits[s] :
                        d < e /\ e <= today /\ (e \in lagging => d \in corrected)}
    IN [d \in D |-> AsTraded(s, d)
                      - MapThenSumSet(LAMBDA e : market.splits[s][e], applied(d))]

(* The defect as the code describes it: a handful of recent rows.  Neither *)
(* the oldest row nor the ex-date of another split is one of them, nor are *)
(* most of the sessions that vote on a split.  From those sessions to the  *)
(* ex-date only the split moves the price, and before a split that lags    *)
(* the market makes no leap.                                               *)
Plausible(s, D, lagging, corrected) ==
    /\ \A e \in DOMAIN market.splits[s] \cap D : \A d \in Voters(D, e) :
        AsTraded(s, d) - AsTraded(s, e) = market.splits[s][e]
    /\ \A e \in lagging :
        LET voters == Voters(D, e)
        IN 2 * Cardinality(voters \cap corrected) < Cardinality(voters)
    /\ lagging # {} =>
        /\ corrected \cap ({Min(D)} \cup DOMAIN market.splits[s]) = {}
        /\ \A d, e \in {x \in D : x <= Max(lagging)} :
            market.level[s][d] = market.level[s][e]

(* What the provider layer makes of one symbol's window: a series and the  *)
(* splits reported with it, or nothing.  A worse defect than the plausible *)
(* one is met only where the gate has a stored price for every row.        *)
Nothing == [series |-> <<>>, splits |-> {}, plausible |-> FALSE]

Fetched(s, window, gated) ==
    LET listed == DOMAIN market.splits[s] \cap window
        answers == {a \in [missing : {M \in SUBSET (window \ listed) :
                                        Cardinality(M) <= MaxMissing /\ M # window},
                           lagging : SUBSET listed,
                           corrected : SUBSET window] :
                     /\ a.corrected \subseteq
                            {d \in window \ a.missing : \E e \in a.lagging : d < e}
                     /\ \/ Plausible(s, window \ a.missing, a.lagging, a.corrected)
                        \/ gated /\ window \ a.missing \subseteq DOMAIN rows[s]}
    IN {Nothing} \cup
       {LET D == window \ a.missing
            series == Unadjust(Answer(s, D, a.lagging, a.corrected),
                               Restrict(market.splits[s], listed))
        IN [series |-> series,
            splits |-> IF DOMAIN series = {} THEN {} ELSE listed,
            plausible |-> Plausible(s, D, a.lagging, a.corrected)] : a \in answers}

-----------------------------------------------------------------------------
(* Commands. *)
Idle(w) == pc[w] = "idle"
At(w, step) == pc[w] = step /\ UNCHANGED <<market, today, jobs>>

Goto(w, step) == pc' = [pc EXCEPT ![w] = step]
Finish(w) == Goto(w, "idle") /\ job' = [job EXCEPT ![w] = NoJob]

(* What a command works on after its fetch: the symbols that have a bar.   *)
Batch(kind, symbols, f) ==
    LET got == {s \in symbols : DOMAIN f[s].series # {}}
    IN [kind |-> kind,
        bars |-> [s \in Symbols |-> IF s \in got THEN f[s].series ELSE <<>>],
        splits |-> [s \in Symbols |-> IF s \in got THEN f[s].splits ELSE {}],
        plausible |-> {s \in symbols : f[s].plausible},
        symbols |-> got, todo |-> {}, base |-> NoBars]

(* Fetch: one answer per symbol.  With no bar at all the command ends here,*)
(* before it writes anything.                                              *)
Fetch(w, kind, symbols, window) ==
    \E possible \in {[s \in symbols |-> Fetched(s, window, kind = "write")]} :
    \E f \in {g \in [symbols -> UNION Range(possible)] :
                /\ \A s \in symbols : g[s] \in possible[s]
                /\ \E s \in symbols : g[s] # Nothing} :
        /\ Batch(kind, symbols, f).symbols # {}
        /\ job' = [job EXCEPT ![w] = Batch(kind, symbols, f)]
        /\ Goto(w, "record")
        /\ jobs' = jobs + 1
        /\ UNCHANGED <<market, today, store, crashes>>

WindowEnds == IF PastWindows THEN 1 .. today ELSE {today}

DailyPrices(w) ==
    /\ Idle(w) /\ jobs < MaxJobs
    /\ \E end \in WindowEnds :
        Fetch(w, "write", Symbols, {d \in 1 .. end : d >= end - Lookback})

(* Symbols whose history already starts early enough are skipped. *)
Backfill(w) ==
    /\ Idle(w) /\ jobs < MaxJobs
    /\ FormatIsValid
    /\ \E symbols \in SUBSET Symbols, end \in WindowEnds :
        \E start \in 1 .. end :
            LET pending == {s \in symbols : ~ \E d \in DOMAIN rows[s] : d <= start + Tolerance}
            IN /\ pending # {}
               /\ Fetch(w, "write", pending, start .. end)

Rebuild(w) ==
    /\ Idle(w) /\ jobs < MaxJobs
    /\ \E symbols \in (SUBSET Symbols) \ {{}} : Fetch(w, "rebuild", symbols, 1 .. today)

(* A bug: a rebuild does not record its splits. *)
RecordActionsOfWrites(w) ==
    /\ At(w, "record")
    /\ recorded' = [s \in Symbols |->
            recorded[s] \cup IF job[w].kind = "write" THEN job[w].splits[s] ELSE {}]
    /\ Goto(w, "open")
    /\ UNCHANGED <<rows, marker, job, crashes>>

(* Splits before bars. *)
RecordActions(w) ==
    /\ At(w, "record")
    /\ recorded' = [s \in Symbols |-> recorded[s] \cup job[w].splits[s]]
    /\ Goto(w, "open")
    /\ UNCHANGED <<rows, marker, job, crashes>>

(* A bug: a root that has partitions is trusted. *)
OpenForWriteUnchecked(w) ==
    /\ At(w, "open") /\ job[w].kind = "write"
    /\ marker' = (marker \/ ~HasPartitions)
    /\ Goto(w, "gate")
    /\ UNCHANGED <<recorded, rows, job, crashes>>

(* write_bars: an empty root is stamped, any other has to be marked. *)
OpenForWrite(w) ==
    /\ At(w, "open") /\ job[w].kind = "write"
    /\ FormatIsValid
    /\ marker' = (marker \/ ~HasPartitions)
    /\ Goto(w, "gate")
    /\ UNCHANGED <<recorded, rows, job, crashes>>

FormatRefused(w) ==
    /\ At(w, "open") /\ job[w].kind = "write"
    /\ ~FormatIsValid
    /\ Finish(w)
    /\ UNCHANGED <<store, crashes>>

(* A bug: only the batch's years are visited. *)
OpenForRebuildBatchYears(w) ==
    /\ At(w, "open") /\ job[w].kind = "rebuild"
    /\ marker' = TRUE
    /\ job' = [job EXCEPT ![w].todo =
                {Year(d) : d \in UNION {DOMAIN job[w].bars[s] : s \in Symbols}}]
    /\ Goto(w, "load")
    /\ UNCHANGED <<recorded, rows, crashes>>

(* replace_symbol_bars: the marker first, then every year there is. *)
OpenForRebuild(w) ==
    /\ At(w, "open") /\ job[w].kind = "rebuild"
    /\ marker' = TRUE
    /\ job' = [job EXCEPT ![w].todo =
                {Year(d) : d \in UNION {DOMAIN job[w].bars[s] \cup DOMAIN rows[s] : s \in Symbols}}]
    /\ Goto(w, "load")
    /\ UNCHANGED <<recorded, rows, crashes>>

(* A bug: only the newest bar of the batch is compared. *)
ContradictsLast(series, stored) ==
    LET d == Max(DOMAIN series)
    IN d \in DOMAIN stored /\ series[d] # stored[d]

(* A stored close this batch would overwrite with another price. *)
Contradicts(series, stored) ==
    \E d \in DOMAIN series \cap DOMAIN stored : series[d] # stored[d]

Quarantined(w) ==
    {s \in job[w].symbols :
        \/ HasMixedBasis(job[w].bars[s], RecordedSplits(s))
        \/ Contradicts(job[w].bars[s], rows[s])}

(* The rest of write_bars' checks: quarantined symbols are left out. *)
Gate(w) ==
    /\ At(w, "gate")
    /\ LET kept == job[w].symbols \ Quarantined(w)
       IN IF kept = {}
          THEN Finish(w)
          ELSE /\ job' = [job EXCEPT
                    ![w].symbols = kept,
                    ![w].todo = {Year(d) : d \in UNION {DOMAIN job[w].bars[s] : s \in kept}}]
               /\ Goto(w, "load")
    /\ UNCHANGED <<store, crashes>>

CurrentYear(w) == Min(job[w].todo)
InYear(series, y) == Restrict(series, {d \in DOMAIN series : Year(d) = y})
Upsert(old, new) ==
    [d \in DOMAIN old \cup DOMAIN new |-> IF d \in DOMAIN new THEN new[d] ELSE old[d]]

LoadPartition(w) ==
    /\ At(w, "load")
    /\ job' = [job EXCEPT ![w].base = [s \in Symbols |-> InYear(rows[s], CurrentYear(w))]]
    /\ Goto(w, "publish")
    /\ UNCHANGED <<store, crashes>>

(* The file a command leaves for one year. *)
NewPartition(w) ==
    [s \in Symbols |->
        LET new == InYear(job[w].bars[s], CurrentYear(w))
        IN CASE s \notin job[w].symbols -> job[w].base[s]
             [] s \in job[w].symbols /\ job[w].kind = "rebuild" -> new
             [] OTHER -> Upsert(job[w].base[s], new)]

PublishPartition(w) ==
    /\ At(w, "publish")
    /\ rows' = [s \in Symbols |->
            Upsert(Restrict(rows[s], {d \in DOMAIN rows[s] : Year(d) # CurrentYear(w)}),
                   NewPartition(w)[s])]
    /\ IF job[w].todo = {CurrentYear(w)}
       THEN Finish(w)
       ELSE /\ job' = [job EXCEPT ![w].todo = @ \ {CurrentYear(w)}, ![w].base = NoBars]
            /\ Goto(w, "load")
    /\ UNCHANGED <<recorded, marker, crashes>>

Crash(w) ==
    /\ ~Idle(w) /\ crashes < MaxCrashes
    /\ crashes' = crashes + 1
    /\ Finish(w)
    /\ UNCHANGED <<market, today, store, jobs>>

-----------------------------------------------------------------------------
(* Before Issue #413 the provider's adjusted prices were stored as they came. *)
LegacyRows(s) ==
    [d \in 1 .. LegacyDate |->
        AsTraded(s, d) - Cumulative(market.splits[s], d, LegacyDate)]

Init ==
    /\ market \in Markets
    /\ \E root \in Roots :
        /\ today = IF root = "legacy" THEN LegacyDate ELSE 1
        /\ rows = [s \in Symbols |-> IF root = "legacy" THEN LegacyRows(s) ELSE <<>>]
    /\ recorded = [s \in Symbols |-> {}]
    /\ marker = FALSE
    /\ pc = [w \in Writers |-> "idle"]
    /\ job = [w \in Writers |-> NoJob]
    /\ jobs = 0 /\ crashes = 0

Next ==
    \/ NextDay
    \/ \E w \in Writers :
        \/ DailyPrices(w) \/ Backfill(w) \/ Rebuild(w)
        \/ RecordActions(w)
        \/ OpenForWrite(w) \/ FormatRefused(w) \/ OpenForRebuild(w)
        \/ Gate(w) \/ LoadPartition(w) \/ PublishPartition(w)
        \/ Crash(w)

Spec == Init /\ [][Next]_vars

-----------------------------------------------------------------------------
(* Properties. *)

IsSeries(f) == DOMAIN f \subseteq Dates /\ \A d \in DOMAIN f : f[d] \in Int

(* Shape of the state; a writer that publishes has a year left and works   *)
(* on symbols whose bars it holds.                                         *)
TypeOK ==
    /\ market \in Markets /\ today \in Dates /\ marker \in BOOLEAN
    /\ \A s \in Symbols :
        /\ IsSeries(rows[s])
        /\ recorded[s] \subseteq DOMAIN market.splits[s]
    /\ \A w \in Writers :
        /\ pc[w] \in {"idle", "record", "open", "gate", "load", "publish"}
        /\ job[w].kind \in {"none", "write", "rebuild"}
        /\ \A s \in Symbols : IsSeries(job[w].bars[s]) /\ IsSeries(job[w].base[s])
        /\ \A s \in job[w].symbols : DOMAIN job[w].bars[s] # {}
        /\ job[w].todo \subseteq Years
        /\ pc[w] \in {"load", "publish"} <=> job[w].todo # {}
    /\ jobs \in 0 .. MaxJobs /\ crashes \in 0 .. MaxCrashes

OldBasis(s) == \E d \in DOMAIN rows[s] : rows[s][d] # AsTraded(s, d)

(* No command, killed or not, turns a series of as-traded prices into one  *)
(* that holds a price on another basis, whatever basis the provider        *)
(* answered in.                                                            *)
NoNewOldBasis == [][\A s \in Symbols : OldBasis(s)' => OldBasis(s)]_vars

(* "Bars are stored as-traded and treated as immutable facts": a stored    *)
(* session is neither dropped nor re-priced, except by a rebuild of that   *)
(* symbol.                                                                 *)
OnlyRebuildChangesHistory ==
    [][\A s \in Symbols :
        (\E d \in DOMAIN rows[s] : d \notin DOMAIN rows'[s] \/ rows'[s][d] # rows[s][d])
            => \E w \in Writers : job[w].kind = "rebuild" /\ s \in job[w].symbols]_vars

(* No file is published into a root that is not marked as raw, so no       *)
(* as-traded row ever joins unmarked rows of another basis.                *)
PublishedIsMarked == [][rows' # rows => marker]_vars

(* A command that comes to its end has stored its batch, over all years; a *)
(* rebuild leaves nothing else of its symbols.                             *)
CompletedCommandIsStored ==
    [][\A w \in Writers :
        (pc[w] = "publish" /\ pc'[w] = "idle" /\ crashes' = crashes) =>
            \A s \in job[w].symbols :
                LET bars == job[w].bars[s]
                IN /\ \A d \in DOMAIN bars : d \in DOMAIN rows'[s] /\ rows'[s][d] = bars[d]
                   /\ job[w].kind = "rebuild" => DOMAIN rows'[s] = DOMAIN bars]_vars

(* Splits are recorded before their bars: at any cutoff a reader sees as-  *)
(* traded rows move only as the market did, also while a command is half   *)
(* done.                                                                   *)
ReadersSeeOneBasis ==
    \A s \in Symbols : ~OldBasis(s) =>
        \A asOf \in 1 .. today :
            LET seen == AdjustBars(rows[s], RecordedSplits(s), asOf)
            IN \A d, e \in {x \in DOMAIN seen : x <= asOf} :
                seen[d] - seen[e] = market.level[s][d] - market.level[s][e]

(* An answer with no more than the plausible defect is neither rejected    *)
(* nor, over as-traded rows, quarantined.                                  *)
GoodAnswersPass ==
    \A w \in Writers : pc[w] \in {"record", "open", "gate"} =>
        \A s \in job[w].plausible :
            /\ s \in job[w].symbols
            /\ pc[w] = "gate" /\ ~OldBasis(s) => s \notin Quarantined(w)

(* check_bars: the symbols whose stored series shows two bases. *)
Flagged == {s \in Symbols : HasMixedBasis(rows[s], RecordedSplits(s))}

(* "check is what finds them afterwards": in a root marked as raw, between *)
(* commands, every symbol on an old basis is flagged.                      *)
CheckFindsOldBasis ==
    (marker /\ \A w \in Writers : Idle(w)) =>
        \A s \in Symbols : OldBasis(s) => s \in Flagged
=============================================================================
