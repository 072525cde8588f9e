--------------------------- MODULE TextCollection ---------------------------
(* The text a run collects: the daily run's step over its target symbols      *)
(* (pipeline/daily.py) and the retrospective's fetch for one symbol that       *)
(* surprised (retro/surprises.py), both through the news client and the EDGAR  *)
(* client, whose filing texts carry an 8-K's press releases and say themselves *)
(* when a cap shortened them.  Every source fails on its own: a symbol keeps    *)
(* its news when its filings fail, a filing keeps its notice when its exhibits *)
(* do.  Symbols are numbered alphabetically; a text is the sizes of what was   *)
(* kept of it.  Retries are RequestThrottle's.                                 *)
EXTENDS Integers, Sequences, FiniteSets, SequencesExt

CONSTANTS Tickers,
          Articles,     \* [id, feeds, published]: feeds are the symbols whose news lists it
          Listing,      \* the listing, in the provider's order: [id, owners, form, filed, exhibits]
          NewsLookback, FilingLookback, FilingLimit, SymbolLimit,
          MaxExhibits, ExhibitBudget,
          Portfolios,   \* what a run can hold and choose: [held, candidates]
          CalendarId, LastTextDay, MaxTurns

FilingRecords == [id : STRING, owners : SUBSET Tickers, form : STRING,
                  filed : 1..LastTextDay, exhibits : Seq(Nat)]

\* An accession number names one filing, whoever lists it.
ASSUME TextInputs ==
    /\ Tickers \subseteq Nat /\ IsFiniteSet(Tickers)
    /\ {FilingLimit, SymbolLimit, MaxExhibits, ExhibitBudget} \subseteq Nat \ {0}
    /\ IsFiniteSet(Articles)
    /\ \A a \in Articles : a.feeds \subseteq Tickers /\ a.published \in 1..LastTextDay
    /\ Listing \in Seq(FilingRecords)
    /\ \A i, j \in DOMAIN Listing : Listing[i].id = Listing[j].id => i = j
    /\ \A p \in Portfolios : p.held \cup p.candidates \subseteq Tickers

VARIABLES textDay, turns,
          table,     \* text_items: the row of each source_id
          turn       \* the collection under way, or the result of the last one

textVars == <<textDay, turns, table, turn>>

ByName(S) ==
    [i \in 1..Cardinality(S) |-> CHOOSE x \in S : Cardinality({y \in S : y < x}) = i - 1]
FirstOf(s, n)   == SubSeq(s, 1, IF Len(s) < n THEN Len(s) ELSE n)

(* Held positions first: the cap costs a candidate, never a position. *)
TextTargetSymbols(p) == FirstOf(ByName(p.held) \o ByName(p.candidates \ p.held), SymbolLimit)

News(x, since, asOf) == {a \in Articles : x \in a.feeds /\ a.published \in since..asOf}

(* The window's filings, the most recent first before the cut. *)
InWindow(f, x, since, asOf) == x \in f.owners /\ f.filed \in since..asOf
ByDate(s, f) == InsertAt(s, 1 + Cardinality({i \in DOMAIN s : s[i].filed >= f.filed}), f)

ListedFilings(x, since, asOf) ==
    FirstOf(SelectSeq(Listing, LAMBDA f : InWindow(f, x, since, asOf)), FilingLimit)
RecentFilings(x, since, asOf) ==
    LET newest[n \in 0..Len(Listing)] ==
            IF n = 0 THEN <<>>
            ELSE IF InWindow(Listing[n], x, since, asOf) THEN ByDate(newest[n - 1], Listing[n])
            ELSE newest[n - 1]
    IN  FirstOf(newest[Len(Listing)], FilingLimit)

NewsItem(a, x)  == [id |-> a.id, owner |-> x, kind |-> "news", day |-> a.published,
                    kept |-> <<>>, marks |-> {}, lost |-> FALSE, sections |-> FALSE]
CalendarItem    == [id |-> CalendarId, owner |-> 0, kind |-> "calendar", day |-> textDay,
                    kept |-> <<>>, marks |-> {}, lost |-> FALSE, sections |-> FALSE]

(* One item per source_id: the first symbol that collected it keeps it. *)
DeduplicatedLast(items) == SelectSeq(items, LAMBDA i : i = items[CHOOSE k \in DOMAIN items :
                               items[k].id = i.id /\ \A j \in (k + 1)..Len(items) : items[j].id # i.id])
Deduplicated(items) ==
    LET unique[n \in 0..Len(items)] ==
            IF n = 0 THEN <<>>
            ELSE IF \E k \in 1..(n - 1) : items[k].id = items[n].id THEN unique[n - 1]
            ELSE Append(unique[n - 1], items[n])
    IN  unique[Len(items)]

Upserted(items) ==
    LET named == {items[k].id : k \in DOMAIN items}
    IN  {r \in table : r.id \notin named} \cup Range(items)

NoTurn    == [mode |-> "idle"]
BeginTurn(mode, symbols, newsSince, filingsSince, held) ==
    [mode |-> mode, symbols |-> symbols, asked |-> Range(symbols), newsSince |-> newsSince,
     filingsSince |-> filingsSince, held |-> held,
     part |-> IF symbols = <<>> THEN "calendar" ELSE "news", items |-> <<>>, failed |-> {},
     filings |-> <<>>, batch |-> <<>>,
     kept |-> <<>>, room |-> 0, marks |-> {}, listed |-> 0, lost |-> FALSE]

At(part)    == turn.mode \in {"daily", "freshness"} /\ turn.part = part
Symbol      == Head(turn.symbols)
Filing      == Head(turn.filings)
Resting     == turn.mode \notin {"daily", "freshness"}
-----------------------------------------------------------------------------
NextTextDay == /\ Resting /\ textDay < LastTextDay /\ textDay' = textDay + 1
           /\ turn' = NoTurn
           /\ UNCHANGED <<turns, table>>

(* The daily step; with no target at all it still asks for the calendar. *)
BeginDaily ==
    /\ Resting /\ turns < MaxTurns /\ turns' = turns + 1
    /\ \E p \in Portfolios :
          LET targets == TextTargetSymbols(p)
          IN  turn' = BeginTurn("daily", targets, textDay - NewsLookback, textDay - FilingLookback, p.held)
    /\ UNCHANGED <<textDay, table>>

(* The retrospective asks for what came out since the reviewed run, and stores nothing. *)
BeginFreshness ==
    /\ Resting /\ turns < MaxTurns /\ turns' = turns + 1
    /\ \E x \in Tickers, reviewed \in 1..textDay :
          turn' = BeginTurn("freshness", <<x>>, reviewed, reviewed, {})
    /\ UNCHANGED <<textDay, table>>

NewsAnswers ==
    /\ At("news")
    /\ LET news == SetToSeq(News(Symbol, turn.newsSince, textDay))
       IN  turn' = [turn EXCEPT !.part = "listing",
                       !.items = @ \o [k \in DOMAIN news |-> NewsItem(news[k], Symbol)]]
    /\ UNCHANGED <<textDay, turns, table>>

NewsFails ==
    /\ At("news")
    /\ turn' = [turn EXCEPT !.part = "listing", !.failed = @ \cup {Symbol}]
    /\ UNCHANGED <<textDay, turns, table>>

FilingsListed ==
    /\ At("listing")
    /\ turn' = [turn EXCEPT !.part = "filing", !.batch = <<>>,
                   !.filings = RecentFilings(Symbol, turn.filingsSince, textDay)]
    /\ UNCHANGED <<textDay, turns, table>>

NextPart == IF Len(turn.symbols) > 1 THEN "news" ELSE IF turn.mode = "daily" THEN "calendar" ELSE "bundle"

(* A listing or a notice that cannot be read loses every filing of the symbol, *)
(* those already read included: the exception leaves fetch_filing_texts.       *)
FilingsFail ==
    /\ At("listing") \/ (At("filing") /\ turn.filings # <<>>)
    /\ turn' = [turn EXCEPT !.part = NextPart, !.symbols = Tail(@), !.filings = <<>>, !.batch = <<>>,
                   !.failed = @ \cup {Symbol}]
    /\ UNCHANGED <<textDay, turns, table>>

FilingsDone ==
    /\ At("filing") /\ turn.filings = <<>>
    /\ turn' = [turn EXCEPT !.part = NextPart, !.symbols = Tail(@), !.batch = <<>>,
                   !.items = @ \o turn.batch]
    /\ UNCHANGED <<textDay, turns, table>>

(* The notice is read; an 8-K's attachments are asked for. *)
NoticeRead ==
    /\ At("filing") /\ turn.filings # <<>>
    /\ turn' = [turn EXCEPT !.part = IF Filing.form = "8-K" THEN "attachments" ELSE "sections",
                   !.kept = <<>>, !.room = ExhibitBudget, !.marks = {}, !.listed = 0, !.lost = FALSE]
    /\ UNCHANGED <<textDay, turns, table>>

AttachmentsListed ==
    /\ At("attachments")
    /\ turn' = [turn EXCEPT !.part = "exhibits", !.listed = Len(Filing.exhibits)]
    /\ UNCHANGED <<textDay, turns, table>>

Fetchable == FirstOf(Filing.exhibits, MaxExhibits)

(* The size of an exhibit's text: 0 for a binary one and for one the converter rejects. *)
ExhibitText(k) == Fetchable[k]

(* An exhibit without text is skipped, one that does not fit is cut and marked. *)
ExhibitRead ==
    /\ At("exhibits") /\ Len(turn.kept) < Len(Fetchable) /\ turn.room > 0
    /\ LET size == ExhibitText(Len(turn.kept) + 1)
           kept == IF size < turn.room THEN size ELSE turn.room
       IN  turn' = [turn EXCEPT !.kept = Append(@, kept), !.room = @ - kept,
                       !.marks = IF kept < size THEN @ \cup {"cut"} ELSE @]
    /\ UNCHANGED <<textDay, turns, table>>

(* The budget ended before the exhibits did: the rest is dropped, and said so. *)
SpentSilent(marks) == marks
SpentMark(marks)   == marks \cup {"cut"}
BudgetSpent ==
    /\ At("exhibits") /\ Len(turn.kept) < Len(Fetchable) /\ turn.room = 0
    /\ turn' = [turn EXCEPT !.part = "sections", !.marks = SpentMark(@)]
    /\ UNCHANGED <<textDay, turns, table>>

ExhibitsDone ==
    /\ At("exhibits") /\ Len(turn.kept) = Len(Fetchable)
    /\ turn' = [turn EXCEPT !.part = "sections"]
    /\ UNCHANGED <<textDay, turns, table>>

(* The attachment list or an exhibit fails: what is assembled is kept. *)
ExhibitFails ==
    /\ At("attachments") \/ (At("exhibits") /\ Len(turn.kept) < Len(Fetchable) /\ turn.room > 0)
    /\ turn' = [turn EXCEPT !.part = "sections", !.lost = TRUE]
    /\ UNCHANGED <<textDay, turns, table>>

(* The exhibits past the count cap are marked whatever became of the others. *)
OmissionMarkOfWhole(t)  == IF t.listed > MaxExhibits /\ ~ t.lost THEN {"omitted"} ELSE {}
OmissionMark(t)         == IF t.listed > MaxExhibits THEN {"omitted"} ELSE {}
FilingRead ==
    /\ At("sections")
    /\ \E found \in IF Filing.form = "10-Q" THEN BOOLEAN ELSE {FALSE} :
          turn' = [turn EXCEPT !.part = "filing", !.filings = Tail(@),
                      !.batch = Append(@, [id |-> Filing.id, owner |-> Symbol, kind |-> "filing",
                                           day |-> Filing.filed, kept |-> turn.kept,
                                           marks |-> turn.marks \cup OmissionMark(turn),
                                           lost |-> turn.lost, sections |-> found])]
    /\ UNCHANGED <<textDay, turns, table>>

(* The step succeeds only if every source of every target answered. *)
StepOutcome(answered) == turn.failed = {} /\ answered

(* The step ends: the unique items are stored in one transaction. *)
CalendarAndRecord ==
    /\ At("calendar")
    /\ \E answered \in BOOLEAN :
          LET items == Deduplicated(IF answered THEN Append(turn.items, CalendarItem) ELSE turn.items)
          IN  /\ table' = Upserted(items)
              /\ turn' = [mode |-> "stored", items |-> items, asked |-> turn.asked, held |-> turn.held,
                          failed |-> turn.failed, newsSince |-> turn.newsSince,
                          filingsSince |-> turn.filingsSince,
                          success |-> StepOutcome(answered)]
    /\ UNCHANGED <<textDay, turns>>

Bundle ==
    /\ At("bundle")
    /\ turn' = [mode |-> "bundle", items |-> turn.items, failed |-> turn.failed]
    /\ UNCHANGED <<textDay, turns, table>>

TextInit == textDay = 1 /\ turns = 0 /\ table = {} /\ turn = NoTurn

TextNext == \/ NextTextDay \/ BeginDaily \/ BeginFreshness
            \/ NewsAnswers \/ NewsFails \/ FilingsListed \/ FilingsFail \/ FilingsDone
            \/ NoticeRead \/ AttachmentsListed \/ ExhibitRead \/ BudgetSpent \/ ExhibitsDone
            \/ ExhibitFails \/ FilingRead \/ CalendarAndRecord \/ Bundle

TextSpec == TextInit /\ [][TextNext]_textVars
-----------------------------------------------------------------------------
(* latest_filing_dates: what the fundamentals step reads to see a new filing. *)
LatestFilingDate(x) ==
    LET days == {r.day : r \in {q \in table : q.kind = "filing" /\ q.owner = x /\ q.day <= textDay}}
    IN  IF days = {} THEN 0 ELSE CHOOSE d \in days : \A e \in days : e <= d

FilingOf(id) == CHOOSE f \in Range(Listing) : f.id = id
Chars(s) ==
    LET sum[n \in 0..Len(s)] == IF n = 0 THEN 0 ELSE sum[n - 1] + s[n]
    IN  sum[Len(s)]

(* A stored filing that a cap shortened says so.  Its text holds every        *)
(* exhibit whole, or it is marked: by the exhibit that did not fit, by the    *)
(* budget that ended before a later exhibit, or by the count cap, whose mark   *)
(* survives the failure of another exhibit.  A failed download alone leaves   *)
(* no mark.                                                                    *)
CutsAreMarked ==
    \A r \in table : r.kind = "filing" /\ FilingOf(r.id).form = "8-K" =>
        LET exhibits == FilingOf(r.id).exhibits
        IN  /\ ~ r.lost /\ Chars(r.kept) < Chars(exhibits) => r.marks # {}
            /\ r.kept # <<>> /\ Len(exhibits) > MaxExhibits => "omitted" \in r.marks
            /\ "cut" \in r.marks => Chars(r.kept) = ExhibitBudget

(* One dead source costs only its own texts: after a run, each target whose   *)
(* sources answered has every article of its window and its newest filings in *)
(* the table, whichever symbols before it failed; and a text that several     *)
(* targets share, a held one among them that answered, belongs to a held one. *)
AnsweredTargetsAreCollected ==
    turn.mode = "stored" =>
        \A x \in turn.asked \ turn.failed :
            LET stored == {r.id : r \in table}
                recent == {f \in Range(Listing) : x \in f.owners /\ f.filed \in turn.filingsSince..textDay}
            IN  /\ \A a \in News(x, turn.newsSince, textDay) :
                      a.id \in stored /\ (x \in turn.held => \E r \in table : r.id = a.id /\ r.owner \in turn.held)
                /\ \A f \in recent :
                      Cardinality({g \in recent : g.filed >= f.filed}) <= FilingLimit => f.id \in stored

(* A run that collected a symbol's filings leaves the trigger of the           *)
(* fundamentals step at its newest one.  A filing that two symbols share        *)
(* breaks it: source_id has no symbol, and one of them owns the row.            *)
TriggerSeesTheNewest ==
    turn.mode = "stored" =>
        \A x \in turn.asked \ turn.failed, f \in Range(Listing) :
            x \in f.owners /\ f.filed \in turn.filingsSince..textDay => LatestFilingDate(x) >= f.filed

(* A stored text never loses an exhibit it had.  The upsert breaks it: a       *)
(* later collection whose exhibit failed replaces the whole text, unmarked.     *)
TextsNeverShrink ==
    [][\A r \in table : \A q \in table' :
          r.id = q.id /\ r.kind = "filing" => Chars(q.kept) >= Chars(r.kept)]_textVars
=============================================================================
