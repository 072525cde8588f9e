--------------------------- MODULE VerdictArchive ---------------------------
(***************************************************************************)
(* The verdict archive of the retrospective: `collect` scans the run       *)
(* directories under reports/ and replaces the rows of every run whose     *)
(* documents changed, `evaluate` classifies the verdicts whose horizon has *)
(* matured, and the readers of a window keep one run per date.  The daily  *)
(* job and the manual batch `copilot-retro prepare` both run collect and   *)
(* then evaluate, one transaction at a time, and can die between any two.  *)
(***************************************************************************)
EXTENDS Integers, Sequences, FiniteSetsExt

CONSTANTS
    Runs,          \* run directories, numbered in the order of enumeration
    DateOf,        \* the run date of each
    StartedAt,     \* runs.started_at of each; 0: it cannot be resolved
    Content,       \* per run, the sequence of its documents: one per revision
    Legacy,        \* runs collected before digests and reason rows existed
    Hidden,        \* runs whose reasons may describe the reader's account
    Symbols, Benchmark,
    LastDate,
    Quote,         \* [Symbols \cup {Benchmark} -> [1..LastDate -> close]]
    Repairs,       \* <<symbol, date, close>>: what a re-fetch may change
    Horizons, Padding, Multiplier,
    Neutral, Severe,           \* the two thresholds, per mille
    EvaluationDays, WindowDays, \* lookback of evaluate and of the dossier
    Workers, PendingOnly,      \* the processes; those that are daily jobs
    Exclusive                  \* TRUE: two processes never overlap

None == 0       \* no digest, no document to write, no maturity session
NoClose == 0    \* no bar, or a bar without a usable close

(* Runs are numbered as `find_run_directories` lists them.                 *)
ASSUME ArchiveAssumption ==
    /\ Runs \subseteq Nat /\ IsFiniteSet(Runs)
    /\ \A r, q \in Runs : r < q => DateOf[r] <= DateOf[q]
    /\ \A r \in Runs : StartedAt[r] \in Nat /\ DateOf[r] \in 1..LastDate
    /\ Legacy \subseteq {r \in Runs : DateOf[r] = 1}
    /\ Horizons \subseteq Nat /\ IsFiniteSet(Horizons) /\ LastDate \in Nat \ {0}
    /\ PendingOnly \subseteq Workers /\ Exclusive \in BOOLEAN

(* A pair of documents: whether both exist, whether they can be parsed, and *)
(* what they say; without parsing them nobody knows a verdict.             *)
Recommendations == {"proceed", "skip"}
Rows == UNION {[S -> Recommendations] : S \in SUBSET Symbols}
DocumentPair == [readable : BOOLEAN, present : BOOLEAN, recommended : Rows,
                 cited : SUBSET (Symbols \X Nat), supplied : SUBSET (Symbols \X Nat)]

ASSUME DocumentAssumption ==
    /\ \A r \in Runs : /\ Content[r] \in Seq(DocumentPair)
                       /\ r \in Legacy => Content[r] # <<>>
    /\ \A r \in Runs : \A k \in DOMAIN Content[r] :
          DOMAIN Content[r][k].recommended # {} => Content[r][k].readable

VARIABLES
    today,      \* the last completed session
    revision,   \* which revision of its documents a directory holds; 0: none
    closes,     \* the stored bars, by symbol and date
    verdicts,   \* rows of `verdicts`: run -> (symbol -> recommendation)
    sources,    \* rows of `verdict_sources`: run -> {<<symbol, source>>}
    reasons,    \* symbols that have rows in `verdict_reasons`
    digests,    \* rows of `verdict_collections`
    outcomes,   \* rows of `verdict_outcomes`: run -> horizon -> (symbol -> row)
    worker      \* the state of each process

tables == <<verdicts, sources, reasons, digests, outcomes>>
vars == <<today, revision, closes, tables, worker>>

NoRows == [s \in {} |-> None]

-----------------------------------------------------------------------------
(* Documents.  A revision is the pair of documents of one run directory.   *)

Absent == [readable |-> FALSE, present |-> FALSE, recommended |-> NoRows,
           cited |-> {}, supplied |-> {}]

Documents(r) == IF revision[r] = 0 THEN Absent ELSE Content[r][revision[r]]

(* The fingerprint of the bytes, which a missing file does not have: the   *)
(* first revision with the same content stands for it.                     *)
DocumentDigest(r) ==
    IF Documents(r).present
    THEN Min({k \in DOMAIN Content[r] : Content[r][k] = Documents(r)})
    ELSE None

(* Citations the input never supplied are dropped, with a note.            *)
ResolvedSources(document) ==
    {c \in document.cited : c \in document.supplied
                            /\ c[1] \in DOMAIN document.recommended}

-----------------------------------------------------------------------------
(* Adoption: one run per date, the latest started, then the greater id.    *)

LaterRun(r, q) ==
    \/ StartedAt[r] > StartedAt[q]
    \/ StartedAt[r] = StartedAt[q] /\ r > q

AdoptOneRunPerDate(candidates) ==
    {c[2] : c \in {d \in candidates :
        \A e \in candidates : e[1] = d[1] /\ e[2] # d[2] => LaterRun(d[2], e[2])}}

(* A bug: a window reader that takes every row of its window.              *)
KeepEveryRow(rows) == rows

(* Read side.  A row is attributed to the date in its `asOf` field, and    *)
(* only the dates with more than one run are decided.                      *)
KeepAdoptedRows(rows) ==
    LET dated == {<<row.asOf, row.run>> : row \in rows}
        contested == {d \in {p[1] : p \in dated} :
                          Cardinality({p \in dated : p[1] = d}) > 1}
        adopted == AdoptOneRunPerDate({p \in dated : p[1] \in contested})
    IN  {row \in rows : row.asOf \in contested => row.run \in adopted}

VerdictRowsIn(first, last) ==
    {[run |-> r, asOf |-> DateOf[r]] :
        r \in {q \in Runs : DOMAIN verdicts[q] # {} /\ DateOf[q] \in first..last}}

(* `verdict_outcomes.as_of` is the maturity session, not the run date.     *)
OutcomeRowsIn(first, last) ==
    UNION {{[run |-> r, asOf |-> outcomes[r][h][s].asOf, horizon |-> h, symbol |-> s] :
              s \in {t \in DOMAIN outcomes[r][h] : outcomes[r][h][t].asOf \in first..last}} :
           r \in Runs, h \in Horizons}

AdoptedVerdictRuns(first, last) == {row.run : row \in KeepAdoptedRows(VerdictRowsIn(first, last))}

(* What the dossier's aggregates are built from.                           *)
DossierOutcomes(asOf) == KeepAdoptedRows(OutcomeRowsIn(asOf - WindowDays, asOf))

(* The earlier verdicts on a symbol that the export feeds back, the newest *)
(* first three; outcomes are joined on the run and the symbol alone.       *)
PriorLimit == 3

PriorVerdicts(symbol, before) ==
    LET earlier == {r \in Runs \ Hidden : symbol \in DOMAIN verdicts[r] /\ DateOf[r] < before}
    IN  {r \in earlier : Cardinality({q \in earlier : q > r}) < PriorLimit}

-----------------------------------------------------------------------------
(* Evaluation of one verdict.                                              *)

TradingDays(first, last) == {d \in (first..last) \cap (1..LastDate) :
                                closes[Benchmark][d] # NoClose}

(* The session h sessions after the run date; None: not due, or no origin. *)
MaturityDay(date, h, asOf) ==
    LET window == date + (h + Padding) * Multiplier
        days == TradingDays(date, IF window < asOf THEN window ELSE asOf)
        due == {d \in days : Cardinality({e \in days : e < d}) = h}
    IN  IF date \in days /\ due # {} THEN CHOOSE d \in due : TRUE ELSE None

ClassifyProceed(entry, exit) ==
    CASE 1000 * (exit - entry) > -Neutral * entry -> "HIT"
      [] 1000 * (exit - entry) <= -Severe * entry -> "MISS_SEVERE"
      [] OTHER -> "MISS_MILD"

ClassifySkip(entry, exit) ==
    LET move == 1000 * (exit - entry) IN
    CASE move <= -Neutral * entry -> "HIT"
      [] -Neutral * entry < move /\ move < Neutral * entry -> "NEUTRAL"
      [] move >= Neutral * entry /\ move >= Severe * entry -> "MISS_SEVERE"
      [] OTHER -> "MISS_MILD"

Measured(recommendation, symbol, date, maturity) ==
    LET entry == closes[symbol][date]  exit == closes[symbol][maturity] IN
    [recommendation |-> recommendation, asOf |-> maturity,
     entry |-> entry, exit |-> exit,
     classification |-> IF recommendation = "proceed" THEN ClassifyProceed(entry, exit)
                                                      ELSE ClassifySkip(entry, exit)]

Measurable(symbol, date, maturity) ==
    closes[symbol][date] # NoClose /\ closes[symbol][maturity] # NoClose

(* A bug: a kept row is not compared with the corrected verdict.           *)
CarriedForwardBlindly(previous, symbol, recommendation, maturity) ==
    symbol \in DOMAIN previous /\ previous[symbol].asOf = maturity

(* A row that cannot be recomputed is kept while it still describes the    *)
(* verdict and is filed under the same maturity session.                   *)
CarriedForward(previous, symbol, recommendation, maturity) ==
    /\ symbol \in DOMAIN previous
    /\ previous[symbol].recommendation = recommendation
    /\ previous[symbol].asOf = maturity

EvaluatedSlice(rows, date, previous, maturity) ==
    [s \in {t \in DOMAIN rows : \/ Measurable(t, date, maturity)
                                \/ CarriedForward(previous, t, rows[t], maturity)} |->
        IF Measurable(s, date, maturity) THEN Measured(rows[s], s, date, maturity)
                                         ELSE previous[s]]

-----------------------------------------------------------------------------
Init ==
    /\ today = 1
    /\ revision = [r \in Runs |-> IF r \in Legacy THEN 1 ELSE 0]
    /\ closes = Quote
    /\ verdicts = [r \in Runs |-> IF r \in Legacy THEN Content[r][1].recommended ELSE NoRows]
    /\ sources = [r \in Runs |-> IF r \in Legacy THEN ResolvedSources(Content[r][1]) ELSE {}]
    /\ reasons = [r \in Runs |-> {}]
    /\ digests = [r \in Runs |-> None]
    /\ outcomes = [r \in Runs |-> [h \in Horizons |-> NoRows]]
    /\ worker = [w \in Workers |-> [pc |-> "idle"]]

(* What happens around the archive: a session ends, the skill's answer is  *)
(* ingested or corrected, a re-fetch changes or drops a stored bar.        *)
Unread == [w \in Workers |->
    IF worker[w].pc = "idle" THEN worker[w] ELSE [worker[w] EXCEPT !.calm = FALSE]]

NextSession ==
    /\ today < LastDate
    /\ today' = today + 1
    /\ worker' = Unread
    /\ UNCHANGED <<revision, closes, tables>>

Ingest(r) ==
    /\ DateOf[r] <= today
    /\ revision[r] + 1 \in DOMAIN Content[r]
    /\ revision' = [revision EXCEPT ![r] = @ + 1]
    /\ worker' = Unread
    /\ UNCHANGED <<today, closes, tables>>

Repair(repair) ==
    LET s == repair[1]  d == repair[2] IN
    /\ d <= today
    /\ closes = Quote                \* bound: one bar changes
    /\ closes' = [closes EXCEPT ![s][d] = repair[3]]
    /\ worker' = Unread
    /\ UNCHANGED <<today, revision, tables>>

-----------------------------------------------------------------------------
(* A process.  `init_schema` normalises the reasons of legacy verdicts.    *)

Begin(w) ==
    /\ worker[w].pc = "idle"
    /\ Exclusive => \A v \in Workers : worker[v].pc = "idle"
    /\ reasons' = [r \in Runs |-> reasons[r] \cup DOMAIN verdicts[r]]
    /\ worker' = [worker EXCEPT ![w] =
           [pc |-> "scan", asOf |-> today, calm |-> TRUE, stored |-> digests,
            left |-> {r \in Runs : DateOf[r] <= today}, hashed |-> None,
            found |-> NoRows, slices |-> {}, rows |-> NoRows]]
    /\ UNCHANGED <<today, revision, closes, verdicts, sources, digests, outcomes>>

Advance(w, fields) == worker' = [worker EXCEPT ![w] = fields]
Candidate(w, r, digest, parsed) ==
    [worker[w] EXCEPT !.pc = "scan", !.left = @ \ {r}, !.hashed = None,
        !.found = [q \in DOMAIN @ \cup {r} |->
                      IF q = r THEN [digest |-> digest, parsed |-> parsed] ELSE @[q]]]

(* A bug: a run that was collected once is never opened again.             *)
SkipOnceCollected(w) ==
    LET r == Min(worker[w].left)  digest == DocumentDigest(r) IN
    /\ worker[w].pc = "scan" /\ worker[w].left # {}
    /\ IF digest # None /\ worker[w].stored[r] # None
       THEN Advance(w, Candidate(w, r, digest, None))
       ELSE Advance(w, [worker[w] EXCEPT !.pc = "load", !.hashed = digest])
    /\ UNCHANGED <<today, revision, closes, tables>>

(* A run whose documents still hash to the stored digest is a candidate    *)
(* without being parsed; any other goes on to be loaded.                   *)
Fingerprint(w) ==
    LET r == Min(worker[w].left)  digest == DocumentDigest(r) IN
    /\ worker[w].pc = "scan" /\ worker[w].left # {}
    /\ IF digest # None /\ worker[w].stored[r] = digest
       THEN Advance(w, Candidate(w, r, digest, None))
       ELSE Advance(w, [worker[w] EXCEPT !.pc = "load", !.hashed = digest])
    /\ UNCHANGED <<today, revision, closes, tables>>

(* The documents are opened again to be parsed: they may be newer than the *)
(* bytes that were hashed.  An unusable run is skipped.                    *)
Load(w) ==
    LET r == Min(worker[w].left) IN
    /\ worker[w].pc = "load"
    /\ IF Documents(r).readable
       THEN Advance(w, Candidate(w, r, worker[w].hashed, revision[r]))
       ELSE Advance(w, [worker[w] EXCEPT !.pc = "scan", !.left = @ \ {r}, !.hashed = None])
    /\ UNCHANGED <<today, revision, closes, tables>>

Adopted(found) == AdoptOneRunPerDate({<<DateOf[r], r>> : r \in DOMAIN found})

Adopt(w) ==
    /\ worker[w].pc = "scan" /\ worker[w].left = {}
    /\ Advance(w, [worker[w] EXCEPT !.pc = "write", !.stored = NoRows,
           !.left = {r \in Adopted(worker[w].found) :
                        worker[w].found[r].parsed # None}])
    /\ UNCHANGED <<today, revision, closes, tables>>

(* A bug: the outcomes of the symbols a correction drops stay behind.      *)
ReplaceButKeepOutcomes(r, document, digest) ==
    /\ verdicts' = [verdicts EXCEPT ![r] = document.recommended]
    /\ sources' = [sources EXCEPT ![r] = ResolvedSources(document)]
    /\ reasons' = [reasons EXCEPT ![r] = DOMAIN document.recommended]
    /\ digests' = [digests EXCEPT ![r] = digest]
    /\ UNCHANGED outcomes

(* One transaction: every projection of the run is replaced, the outcomes  *)
(* of the symbols it no longer holds go, those of the others stay.         *)
ReplaceCollectedRun(r, document, digest) ==
    /\ verdicts' = [verdicts EXCEPT ![r] = document.recommended]
    /\ sources' = [sources EXCEPT ![r] = ResolvedSources(document)]
    /\ reasons' = [reasons EXCEPT ![r] = DOMAIN document.recommended]
    /\ digests' = [digests EXCEPT ![r] = digest]
    /\ outcomes' = [outcomes EXCEPT ![r] = [h \in Horizons |->
           [s \in DOMAIN @[h] \cap DOMAIN document.recommended |-> @[h][s]]]]

(* A bug: the fingerprint is taken when the rows are written.              *)
WriteRunFingerprintedLate(w) ==
    LET r == Min(worker[w].left)  candidate == worker[w].found[r] IN
    /\ worker[w].pc = "write" /\ worker[w].left # {}
    /\ ReplaceCollectedRun(r, Content[r][candidate.parsed], DocumentDigest(r))
    /\ worker' = [Unread EXCEPT ![w] = [worker[w] EXCEPT !.left = @ \ {r}]]
    /\ UNCHANGED <<today, revision, closes>>

WriteRun(w) ==
    LET r == Min(worker[w].left)  candidate == worker[w].found[r] IN
    /\ worker[w].pc = "write" /\ worker[w].left # {}
    /\ ReplaceCollectedRun(r, Content[r][candidate.parsed], candidate.digest)
    /\ worker' = [Unread EXCEPT ![w] = [worker[w] EXCEPT !.left = @ \ {r}]]
    /\ UNCHANGED <<today, revision, closes>>

(* The rows of the window are read once, and with them, in the daily job,  *)
(* the slices whose recorded (symbol, recommendation) set is already right. *)
RecordedSlice(r, h) ==
    {<<s, outcomes[r][h][s].recommendation>> : s \in DOMAIN outcomes[r][h]}

IsRecorded(slice) ==
    RecordedSlice(slice[1], slice[2]) =
        {<<s, verdicts[slice[1]][s]>> : s \in DOMAIN verdicts[slice[1]]}

OpenWindow(w) ==
    LET runs == AdoptedVerdictRuns(worker[w].asOf - EvaluationDays, worker[w].asOf) IN
    /\ worker[w].pc = "write" /\ worker[w].left = {}
    /\ Advance(w, [worker[w] EXCEPT !.pc = "evaluate", !.found = NoRows,
           !.rows = [r \in runs |-> verdicts[r]],
           !.slices = {slice \in runs \X Horizons : ~(w \in PendingOnly /\ IsRecorded(slice))}])
    /\ UNCHANGED <<today, revision, closes, tables>>

(* One slice: classified from the bars of this moment and replaced whole.  *)
NextSlice(slices) ==
    CHOOSE a \in slices : \A b \in slices : a[1] < b[1] \/ (a[1] = b[1] /\ a[2] <= b[2])

ReplaceVerdictOutcomes(r, h, slice) == outcomes' = [outcomes EXCEPT ![r][h] = slice]

EvaluateSlice(w) ==
    LET slice == NextSlice(worker[w].slices)  r == slice[1]  h == slice[2]
        maturity == MaturityDay(DateOf[r], h, worker[w].asOf)
    IN  /\ worker[w].pc = "evaluate" /\ worker[w].slices # {}
        /\ \/ maturity = None /\ UNCHANGED outcomes
           \/ /\ maturity # None
              /\ ReplaceVerdictOutcomes(r, h,
                     EvaluatedSlice(worker[w].rows[r], DateOf[r], outcomes[r][h], maturity))
        /\ worker' = [Unread EXCEPT ![w] = [worker[w] EXCEPT !.slices = @ \ {slice}]]
        /\ UNCHANGED <<today, revision, closes, verdicts, sources, reasons, digests>>

Finish(w) ==
    /\ worker[w].pc = "evaluate" /\ worker[w].slices = {}
    /\ Advance(w, [pc |-> "idle"])
    /\ UNCHANGED <<today, revision, closes, tables>>

Crash(w) ==
    /\ worker[w].pc # "idle"
    /\ Advance(w, [pc |-> "idle"])
    /\ UNCHANGED <<today, revision, closes, tables>>

Work(w) ==
    \/ Begin(w)
    \/ Fingerprint(w)
    \/ Load(w)
    \/ Adopt(w)
    \/ WriteRun(w)
    \/ OpenWindow(w)
    \/ EvaluateSlice(w)
    \/ Finish(w)

Next ==
    \/ NextSession
    \/ \E r \in Runs : Ingest(r)
    \/ \E repair \in Repairs : Repair(repair)
    \/ \E w \in Workers : Work(w) \/ Crash(w)

Spec == Init /\ [][Next]_vars

(* Passes, scheduled and manual ones, are run to their end again and       *)
(* again, however many of them are killed in between.                      *)
AtItsEnd(w) == worker[w].pc = "evaluate" /\ worker[w].slices = {}

FairSpec ==
    /\ Spec
    /\ []<>(\E w \in Workers : AtItsEnd(w))
    /\ []<>(\A w \in Workers : worker[w].pc = "idle")

-----------------------------------------------------------------------------
(* Circumstances some of the properties need.                              *)

(* Documents that were changed never return to the text they had.          *)
NeverReverted ==
    \A r \in Runs : \A i, j, k \in DOMAIN Content[r] :
        i <= j /\ j <= k /\ Content[r][k] = Content[r][i] => Content[r][j] = Content[r][i]

(* A correction never breaks documents that could be parsed.               *)
StaysReadable ==
    \A r \in Runs : \A i, j \in DOMAIN Content[r] :
        i <= j /\ Content[r][i].readable => Content[r][j].readable

(* No run ends without a verdict.                                          *)
EveryRunHasVerdicts ==
    \A r \in Runs : \A i \in DOMAIN Content[r] :
        Content[r][i].readable => DOMAIN Content[r][i].recommended # {}

-----------------------------------------------------------------------------
(* Properties.                                                             *)

OutcomeRow ==
    [recommendation : Recommendations, asOf : 1..LastDate, entry : Nat, exit : Nat,
     classification : {"HIT", "MISS_MILD", "MISS_SEVERE", "NEUTRAL"}]

(* Every table holds rows of its kind, and a proceed is never NEUTRAL:     *)
(* `classify_verdict_outcome` states that for a small move.                *)
TypeOK ==
    /\ today \in 1..LastDate
    /\ \A r \in Runs :
          /\ revision[r] = 0 \/ revision[r] \in DOMAIN Content[r]
          /\ verdicts[r] \in Rows /\ reasons[r] \subseteq Symbols
          /\ \A h \in Horizons : \A s \in DOMAIN outcomes[r][h] :
                /\ outcomes[r][h][s] \in OutcomeRow
                /\ outcomes[r][h][s].recommendation = "proceed" =>
                      outcomes[r][h][s].classification # "NEUTRAL"
    /\ \A w \in Workers : worker[w].pc \in {"idle", "scan", "load", "write", "evaluate"}

(* What lets a scan skip a run (collect.py:20): when the stored digest is  *)
(* the digest of the documents, every projection of the run is theirs,     *)
(* though documents are hashed and parsed in two reads.                    *)
RowsMatchDocuments ==
    \A r \in Runs : digests[r] # None /\ digests[r] = DocumentDigest(r) =>
        /\ verdicts[r] = Documents(r).recommended
        /\ sources[r] = ResolvedSources(Documents(r))
        /\ reasons[r] = DOMAIN verdicts[r]

(* No outcome outlives its verdict (verdict_records.py:525): a symbol that *)
(* a correction drops loses its outcomes whatever the window is.           *)
OutcomesHaveVerdicts ==
    \A r \in Runs, h \in Horizons : DOMAIN outcomes[r][h] \subseteq DOMAIN verdicts[r]

Collectable(last) ==
    AdoptOneRunPerDate({<<DateOf[r], r>> : r \in
        {q \in Runs : DateOf[q] <= last /\ Documents(q).readable}})

RunIsCurrent(r) ==
    verdicts[r] = Documents(r).recommended /\ sources[r] = ResolvedSources(Documents(r))

(* A matured slice says what the verdicts now say, and for a measurable    *)
(* symbol it says something; exactly: what the bars now say.               *)
SliceIsCurrent(r, h, asOf, exactly) ==
    LET slice == outcomes[r][h]  maturity == MaturityDay(DateOf[r], h, asOf) IN
    maturity # None => \A s \in DOMAIN verdicts[r] :
        IF Measurable(s, DateOf[r], maturity)
        THEN /\ s \in DOMAIN slice
             /\ slice[s].recommendation = verdicts[r][s]
             /\ exactly => slice[s] = Measured(verdicts[r][s], s, DateOf[r], maturity)
        ELSE s \in DOMAIN slice => slice[s].recommendation = verdicts[r][s]

(* At the end of a pass that nothing disturbed, every run a date is        *)
(* represented by holds the rows of its documents, and every matured slice *)
(* of the window is what its bars say: for the manual batch always, for    *)
(* the daily pass as long as no bar was repaired (daily.py:1655: "evaluating *)
(* daily produces exactly the rows a manual batch would").                 *)
PassIsComplete ==
    \A w \in Workers :
        worker[w].pc = "evaluate" /\ worker[w].slices = {} /\ worker[w].calm =>
            /\ \A r \in Collectable(worker[w].asOf) : RunIsCurrent(r)
            /\ \A r \in AdoptedVerdictRuns(worker[w].asOf - EvaluationDays, worker[w].asOf) :
                  \A h \in Horizons : SliceIsCurrent(r, h, worker[w].asOf,
                                          w \notin PendingOnly \/ closes = Quote)

(* Whatever crashed or was corrected, the archive ends up with the last    *)
(* documents of the runs that represent their dates and with the outcomes  *)
(* of every slice of the window that matured.                              *)
ArchiveSettles ==
    <>[](/\ \A r \in Collectable(today) : RunIsCurrent(r)
         /\ \A r \in AdoptedVerdictRuns(today - EvaluationDays, today) :
               \A h \in Horizons : SliceIsCurrent(r, h, today, FALSE))

(* "Verdicts that came due in this period" (verdict_records.py:985): the   *)
(* dossier counts every outcome, matured in its window, of the runs that   *)
(* represent their dates.                                                  *)
DossierCountsAdoptedRuns ==
    LET adopted == AdoptedVerdictRuns(1, LastDate) IN
    \A row \in OutcomeRowsIn(today - WindowDays, today) :
        row.run \in adopted => row \in DossierOutcomes(today)

(* A date is represented to the readers by the run `collect` adopts for it *)
(* (adoption.py:20: "the window readers cannot drift").                    *)
ReadersFollowCollect ==
    \A w \in Workers :
        worker[w].pc = "evaluate" /\ worker[w].calm =>
            AdoptedVerdictRuns(1, worker[w].asOf) \subseteq Collectable(worker[w].asOf)

(* "How one horizon of an earlier verdict turned out"                      *)
(* (verdict_records.py:310): at the export, which follows the daily pass,  *)
(* an outcome that is fed back with a verdict judges that verdict.         *)
PriorOutcomesAreOfTheVerdict ==
    \A w \in PendingOnly, s \in Symbols, h \in Horizons :
        worker[w].pc = "evaluate" /\ worker[w].slices = {} /\ worker[w].calm =>
            \A r \in PriorVerdicts(s, worker[w].asOf) :
                s \in DOMAIN outcomes[r][h] =>
                    outcomes[r][h][s].recommendation = verdicts[r][s]
=============================================================================
