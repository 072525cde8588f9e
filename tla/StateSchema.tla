----------------------------- MODULE StateSchema -----------------------------
(* The state database across releases (storage/schema.py,                   *)
(* StateStore.init_schema): a copy written by any earlier release is        *)
(* opened, statement by statement brought to the current shape, and read    *)
(* through the stores once it is, or read-only through the analysis views   *)
(* at any time. Nothing wraps the statements in a transaction, so a process *)
(* may die between any two of them and the next one starts over.            *)
(*                                                                          *)
(* A run stands for its rows: one verdict with its reasons and outcomes,    *)
(* the candidates of that symbol under each strategy, the position, the     *)
(* filing coverage, the regime snapshot and the exposure decision. A column *)
(* is modelled when a release added it to an existing table; those that are *)
(* written together count as one.                                           *)
EXTENDS Naturals, Sequences, FiniteSets

CONSTANTS
    Runs,                \* the runs there may be, earliest first
    RunFacts,            \* RunFacts[e]: what a run of release e may have seen
    NULL,                \* not recorded
    MaxOpens             \* bounds how often the database is opened

VARIABLES
    columns,             \* the added columns the file has
    rows,                \* [run -> its facts, its cells and its reason rows]
    views,               \* whether the views are this release's
    next,                \* the statement init_schema runs next, 0 when none
    ready,               \* whether a process has completed init_schema
    opens

schemaVars == <<columns, rows, views, next, ready, opens>>

(********************************* The shape ********************************)

\* The release that added each column, in the order of their issues.
Since ==
    [no_trade |-> 1, exhibit_truncated |-> 1, news_supply |-> 1,
     recommendation |-> 2, benchmark_return |-> 2,
     score |-> 3, execution_state |-> 3, dd15 |-> 3, spy_close |-> 3, multiplier |-> 3,
     pivot_proximity |-> 4, max_hold_days |-> 5, spy_sma200 |-> 5]
PositionColumns == {"no_trade", "recommendation", "max_hold_days"}
VerdictColumns == {"exhibit_truncated", "news_supply"}
OutcomeColumns == {"benchmark_return"}
CandidateColumns == {"score", "execution_state", "pivot_proximity"}
SnapshotColumns == {"dd15", "spy_close", "spy_sma200", "multiplier"}
Columns ==
    PositionColumns \cup VerdictColumns \cup OutcomeColumns \cup CandidateColumns
    \cup SnapshotColumns
Current == 5
Reasons == 3                    \* the release that added verdict_reasons

\* What the JSON columns carried before their keys became columns.
InJson == {"score", "pivot_proximity", "dd15", "spy_close", "multiplier"}

\* What every row older than the column could only have been.
OnlyValue == [no_trade |-> FALSE, recommendation |-> "proceed", max_hold_days |-> 25]

Add(names) == [kind |-> "add", names |-> names, guard |-> "no_trade"]
Fill(names, guard) == [kind |-> "fill", names |-> names, guard |-> guard]

PositionStatements ==
    <<Add({"no_trade"}), Fill({"no_trade"}, "no_trade"),
      Add({"exhibit_truncated"}), Add({"news_supply"}),
      Add({"recommendation"}), Fill({"recommendation"}, "recommendation"),
      Add({"max_hold_days"}), Fill({"max_hold_days"}, "max_hold_days"),
      Add({"benchmark_return"})>>
CandidateStatements ==
    <<Add({"score"}), Add({"execution_state"}), Fill({"score"}, "score"),
      Add({"pivot_proximity"})>>
RegimeStatements ==             \* the guard is the column a snapshot always has
    <<Add({"dd15"}), Add({"spy_close"}), Add({"spy_sma200"}),
      Fill({"dd15", "spy_close"}, "dd15")>>
ExposureStatements == <<Add({"multiplier"}), Fill({"multiplier"}, "multiplier")>>

Statements ==
    PositionStatements \o CandidateStatements \o RegimeStatements \o ExposureStatements
    \o <<[kind |-> "views"], [kind |-> "reasons"]>>

\* A release's runs have the only value of what a later one recorded first, and no
\* component that was scored later. A side and a count of days are always known.
ASSUME SchemaFacts ==
    \A e \in 0..Current : \A f \in RunFacts[e] :
        /\ \A c \in DOMAIN OnlyValue : f[c] # NULL /\ (e < Since[c] => f[c] = OnlyValue[c])
        /\ f.dd15 # NULL
        /\ e < Since.pivot_proximity => f.pivot_proximity = NULL

Backfilled == DOMAIN OnlyValue \cup {"score", "dd15", "spy_close", "multiplier"}
FillValue(json, c) == IF c \in DOMAIN OnlyValue THEN OnlyValue[c] ELSE json[c]

(********************************** Reading *********************************)

Coalesce(a, b) == IF a = NULL THEN b ELSE a

\* A column the file does not have yet is not in the views of its release either.
Cell(r, c) == IF c \in columns THEN rows[r].cell[c] ELSE NULL
Json(r, c) == IF c \in InJson THEN rows[r].json[c] ELSE NULL

\* v_candidates: the column first, the JSON as the fallback.
CandidateView(r) ==
    {[strategy |-> k,
      score |-> Coalesce(Cell(r, "score"), Json(r, "score")),
      pivot_proximity |-> Coalesce(Cell(r, "pivot_proximity"), Json(r, "pivot_proximity")),
      execution_state |-> Cell(r, "execution_state")] : k \in rows[r].fact.strategies}

\* The position's own side, the verdict's for a row written before the column.
TrackedPosition(r) ==
    [recommendation |-> Coalesce(Cell(r, "recommendation"), rows[r].fact.verdict),
     no_trade |-> Cell(r, "no_trade"), max_hold_days |-> Cell(r, "max_hold_days")]

\* One row per verdict and matured horizon, every leg but the run's a left join.
SchemaHorizons(r) == IF rows[r].horizons = {} THEN {0} ELSE rows[r].horizons
CandidateRow(r) == {c \in CandidateView(r) : c.strategy = rows[r].fact.strategy}
MissingCandidate ==
    [strategy |-> NULL, score |-> NULL, pivot_proximity |-> NULL, execution_state |-> NULL]
Scorecard(r) ==
    {[horizon |-> h, candidate |-> c, dd15 |-> Cell(r, "dd15"),
      spy_close |-> Cell(r, "spy_close"), news_supply |-> Cell(r, "news_supply")] :
        h \in SchemaHorizons(r), c \in IF CandidateRow(r) = {} THEN {MissingCandidate} ELSE CandidateRow(r)}

\* The store's own readers, which run after init_schema only.
StorePosition(r) ==
    [recommendation |-> Coalesce(Cell(r, "recommendation"), "proceed"),
     no_trade |-> Coalesce(Cell(r, "no_trade"), FALSE),
     max_hold_days |-> Cell(r, "max_hold_days")]

(********************************* Migrating ********************************)

\* A row of release e in a file that release d has migrated since.
RowOf(f, e, d) ==
    [fact |-> f, release |-> e, horizons |-> {},
     cell |-> [c \in Columns |->
        CASE Since[c] <= e                                  -> f[c]
          [] e < Since[c] /\ Since[c] <= d /\ c \in Backfilled -> FillValue(f, c)
          [] OTHER                                          -> NULL],
     json |-> [c \in InJson |-> f[c]],
     reasonRows |-> IF Reasons <= d THEN f.reasons ELSE 0]

EveryRow(r, guard) == TRUE          \* a plausible bug: a backfill without its guard
Unfilled(r, guard) == rows[r].cell[guard] = NULL
Filled(r, names) ==
    [rows[r] EXCEPT !.cell = [c \in Columns |->
        IF c \in names THEN FillValue(rows[r].json, c) ELSE @[c]]]

\* A verdict with no reason row is projected whole, all of them in one transaction.
Projected(r) ==
    IF rows[r].reasonRows = 0 THEN [rows[r] EXCEPT !.reasonRows = rows[r].fact.reasons]
    ELSE rows[r]

SchemaInit ==
    /\ \E e \in 0..Current, held \in SUBSET Runs :
         /\ columns = {c \in Columns : Since[c] <= e}
         /\ views = (e = Current)
         /\ rows \in [held -> UNION {{RowOf(f, d, e) : f \in RunFacts[d]} : d \in 0..e}]
    /\ next = 0 /\ ready = FALSE /\ opens = 0

Open ==
    /\ next = 0 /\ ~ready /\ opens < MaxOpens
    /\ next' = 1 /\ opens' = opens + 1
    /\ UNCHANGED <<columns, rows, views, ready>>

Execute(s) ==
    CASE s.kind = "add" -> columns' = columns \cup s.names /\ UNCHANGED <<rows, views>>
      [] s.kind = "fill" ->
           /\ rows' = [r \in DOMAIN rows |->
                          IF Unfilled(r, s.guard) THEN Filled(r, s.names) ELSE rows[r]]
           /\ UNCHANGED <<columns, views>>
      [] s.kind = "views" -> views' = TRUE /\ UNCHANGED <<columns, rows>>
      [] s.kind = "reasons" ->
           rows' = [r \in DOMAIN rows |-> Projected(r)] /\ UNCHANGED <<columns, views>>

NextStatement ==
    /\ next # 0
    /\ Execute(Statements[next])
    /\ next' = IF next = Len(Statements) THEN 0 ELSE next + 1
    /\ ready' = (next = Len(Statements))
    /\ UNCHANGED opens

\* The process is killed, or ends.
CloseStore ==
    /\ next # 0 \/ ready
    /\ next' = 0 /\ ready' = FALSE
    /\ UNCHANGED <<columns, rows, views, opens>>

\* A run of this release writes every column.
RecordRun(r) ==
    /\ ready /\ r \notin DOMAIN rows
    /\ \E f \in RunFacts[Current] :
         rows' = [q \in DOMAIN rows \cup {r} |-> IF q = r THEN RowOf(f, Current, Current) ELSE rows[q]]
    /\ UNCHANGED <<columns, views, next, ready, opens>>

Restated(r, names) == [c \in Columns |-> IF c \in names THEN rows[r].fact[c] ELSE rows[r].cell[c]]

\* evaluate replaces a horizon's outcomes, collect a run's verdict and its reasons;
\* an older run's archive may or may not carry what became a column later.
Reevaluate(r) ==
    /\ ready
    /\ \E h \in {5, 20} : rows' = [rows EXCEPT ![r] =
           [@ EXCEPT !.horizons = rows[r].horizons \cup {h}, !.cell = Restated(r, OutcomeColumns)]]
    /\ UNCHANGED <<columns, views, next, ready, opens>>
Recollect(r) ==
    /\ ready
    /\ \E carried \in {c \in SUBSET VerdictColumns :
                         \A name \in VerdictColumns \ c : Since[name] > rows[r].release} :
         rows' = [rows EXCEPT ![r] =
             [@ EXCEPT !.cell = [c \in Columns |->
                           IF c \in VerdictColumns \ carried THEN NULL ELSE Restated(r, carried)[c]],
                       !.reasonRows = rows[r].fact.reasons]]
    /\ UNCHANGED <<columns, views, next, ready, opens>>

SchemaNext ==
    \/ Open \/ NextStatement \/ CloseStore
    \/ \E r \in Runs : RecordRun(r)
    \/ \E r \in DOMAIN rows : Reevaluate(r) \/ Recollect(r)

SchemaSpec == SchemaInit /\ [][SchemaNext]_schemaVars

(******************************** Properties ********************************)

\* What the release that wrote a row wrote down, or could only have meant.
Recorded(r, c) ==
    \/ Since[c] <= rows[r].release
    \/ c \in InJson \/ c \in DOMAIN OnlyValue

(* However often a migration died half way, and whatever releases wrote the *)
(* rows, no reader is told a value that was not the run's: a cell holds the *)
(* fact or nothing, the new view of a position answers with the position's  *)
(* own side, and once init_schema has completed all that was recorded and   *)
(* all the reasons are there. The scorecard keeps one row per verdict and   *)
(* matured horizon, and reads the scores of the verdict's own strategy even *)
(* from a file no one has migrated (ALTER_SCHEMA_STATEMENTS,                *)
(* ANALYSIS_VIEW_STATEMENTS, backfill_verdict_reasons).                     *)
MigrationKeepsTheRecord ==
    \A r \in DOMAIN rows :
        LET f == rows[r].fact
            card == Scorecard(r)
        IN  /\ \A c \in columns : Cell(r, c) \in {NULL, f[c]}
            /\ rows[r].reasonRows \in {0, f.reasons}
            /\ Cardinality(card) = Cardinality(SchemaHorizons(r))
            /\ \A row \in card :
                 f.strategy \in f.strategies => row.candidate.score = f.score
            /\ views => TrackedPosition(r).recommendation = f.recommendation
            /\ ready =>
                 /\ \A c \in Columns : Recorded(r, c) => Cell(r, c) = f[c]
                 /\ StorePosition(r).recommendation = f.recommendation
                 /\ StorePosition(r).no_trade = f.no_trade
                 /\ rows[r].reasonRows = f.reasons
=============================================================================
