---------------------------- MODULE AnalysisDesk ----------------------------
(***************************************************************************)
(* The qualitative half of a day.  A run exports analysis_input.json and   *)
(* archives its report context; copilot-export-slices cuts the input into  *)
(* one file per expert and symbol; each expert reads one slice and writes  *)
(* one fragment; the orchestrator keeps yesterday's filing readings where  *)
(* copilot-verify-analysis lets it, merges, and copilot-ingest-analysis    *)
(* rewrites the report.  Experts and orchestrator are not code: they may   *)
(* take a stale slice, invent a fact, merge what they did not check, or    *)
(* give reasons for a verdict that cite what the run never exported.       *)
(*                                                                         *)
(* A body is a value; a quote occurs in a body when it was taken from that *)
(* very body.  A digest stands for what it hashes.  A run's identity (run  *)
(* id, date, strategy, digest) is its number.  Calendar events, which any  *)
(* symbol may cite, are left out.                                          *)
(***************************************************************************)
EXTENDS Naturals, Sequences, FiniteSetsExt, SequencesExt, TLC

CONSTANTS
    AnalysisRuns,       \* runs, a set of numbers
    Exports,            \* Exports[r]: the candidates run r may export
    Facts,              \* what an expert may invent
    MaxCuts, MaxSlips   \* bounds

ASSUME AnalysisConstants ==
    /\ AnalysisRuns \subseteq Nat
    /\ {MaxCuts, MaxSlips} \subseteq Nat
    /\ \A r \in AnalysisRuns : \A candidates \in Exports[r] : IsFiniteSet(DOMAIN candidates)
    /\ \A f \in Facts : f = [source |-> f.source, quote |-> f.quote]

VARIABLES
    inputs,         \* inputs[r]: analysis_input.json of run r: its candidates
    contexts,       \* the runs whose report_context.json is archived
    slices,         \* the scratch directory: slice files
    cutting,        \* the slices still to be renamed into place
    fragments,      \* fragments[r]: analysis_work/ of run r
    results,        \* results[r]: analysis_result.json of run r
    reports,        \* reports[r]: what the report of run r says of its symbols
    attempts        \* cuts, and slips of experts and orchestrator, so far

deskVars == <<inputs, contexts, slices, cutting, fragments, results, reports, attempts>>

Kinds == {"news", "filings", "screening"}
NoDocument == [run |-> 0]
Nothing == <<>>

-----------------------------------------------------------------------------
(* The input, and its slices.                                              *)

Candidates(r) == DOMAIN inputs[r].candidates
Candidate(r, s) == inputs[r].candidates[s]
\* Source ids are unique within a candidate.
Bodies(candidate) == candidate.news @@ candidate.filings

BodiesFor(kind, candidate) ==
    CASE kind = "news" -> candidate.news
      [] kind = "filings" -> candidate.filings
      [] kind = "screening" -> Nothing

HasWork(kind, candidate) == kind = "screening" \/ BodiesFor(kind, candidate) # Nothing

Slice(r, kind, s) ==
    [run |-> r, kind |-> kind, symbol |-> s, bodies |-> BodiesFor(kind, Candidate(r, s))]

SlicesOf(r) ==
    {Slice(r, w[1], w[2]) :
        w \in {x \in Kinds \X Candidates(r) : HasWork(x[1], Candidate(r, x[2]))}}

SameFile(a, b) == a.kind = b.kind /\ a.symbol = b.symbol

-----------------------------------------------------------------------------
(* The checks of a fragment, and of a merged result.                       *)

\* A bug: a quote is not looked up in the body it cites.
VerifySymbolByProvenance(candidate, facts, cited, clean) ==
    /\ {f.source : f \in facts} \cup cited \subseteq DOMAIN Bodies(candidate)
    /\ clean

\* Provenance, evidence, language: what holds for a symbol's section, or the
\* whole section is withheld.  The reasons of its verdict are cited, too, but
\* quote nothing.
VerifySymbol(candidate, facts, cited, clean) ==
    /\ {f.source : f \in facts} \cup cited \subseteq DOMAIN Bodies(candidate)
    /\ \A f \in facts : f.quote = Bodies(candidate)[f.source]
    /\ clean

\* A bug: only the filings that the fragment says something about must match.
FilingBodiesAsAnalyzed(candidate, fragment) ==
    \A f \in fragment.facts :
        /\ f.source \in DOMAIN candidate.filings
        /\ fragment.declared[f.source] = candidate.filings[f.source]

\* A reading of filings answers for the very bodies of this input, whenever it
\* was written; every other fragment answers for its run alone.
FilingBodiesMatch(candidate, fragment) == fragment.declared = candidate.filings

FragmentSchema(fragment) ==
    fragment.kind = "filings" =>
        /\ fragment.declared # Nothing
        /\ \A f \in fragment.facts : f.source \in DOMAIN fragment.declared

\* A bug: the pre-flight check greps for phrases, and leaves the quotes to ingest.
VerifyFragmentByName(r, fragment) ==
    /\ FragmentSchema(fragment)
    /\ fragment.symbol \in Candidates(r)
    /\ IF fragment.kind = "filings"
       THEN FilingBodiesMatch(Candidate(r, fragment.symbol), fragment)
       ELSE fragment.run = r
    /\ fragment.clean

\* A fragment is checked as a symbol's section whose verdict has no reasons.
VerifyFragment(r, fragment) ==
    /\ FragmentSchema(fragment)
    /\ fragment.symbol \in Candidates(r)
    /\ IF fragment.kind = "filings"
       THEN FilingBodiesMatch(Candidate(r, fragment.symbol), fragment)
       ELSE fragment.run = r
    /\ VerifySymbol(Candidate(r, fragment.symbol), fragment.facts, {}, fragment.clean)

Fragment(r, kind, s) == {f \in fragments[r] : f.kind = kind /\ f.symbol = s}

-----------------------------------------------------------------------------
(* The daily run, and the slices.                                          *)

\* A run writes its input first and archives its report context later, unless
\* it dies in between; it is over before anyone cuts its slices.
ExportInput(r) ==
    /\ inputs[r] = NoDocument
    /\ \E candidates \in Exports[r] :
          inputs' = [inputs EXCEPT ![r] = [run |-> r, candidates |-> candidates]]
    /\ UNCHANGED <<contexts, slices, cutting, fragments, results, reports, attempts>>

ArchiveContext(r) ==
    /\ inputs[r] # NoDocument
    /\ contexts' = contexts \cup {r}
    /\ reports' = [reports EXCEPT ![r] = [s \in Candidates(r) |-> "pending"]]
    /\ r \notin contexts
    /\ \A x \in slices \cup ToSet(cutting) : x.run # r
    /\ UNCHANGED <<inputs, slices, cutting, fragments, results, attempts>>

\* Every slice is staged beside its destination before the first is renamed: a
\* cut that fails while it stages changes nothing.
CutSlices(r) ==
    /\ cutting = <<>>
    /\ inputs[r] # NoDocument
    /\ attempts.cuts < MaxCuts
    /\ attempts' = [attempts EXCEPT !.cuts = @ + 1]
    /\ cutting' = SetToSeq(SlicesOf(r))
    /\ UNCHANGED <<inputs, contexts, slices, fragments, results, reports>>

RenameSlice ==
    /\ cutting # <<>>
    /\ slices' = {x \in slices : ~SameFile(x, Head(cutting))} \cup {Head(cutting)}
    /\ cutting' = Tail(cutting)
    /\ UNCHANGED <<inputs, contexts, fragments, results, reports, attempts>>

\* The residual case: what was renamed stays, the rest is removed.
CutFails ==
    /\ cutting # <<>>
    /\ cutting' = <<>>
    /\ UNCHANGED <<inputs, contexts, slices, fragments, results, reports, attempts>>

-----------------------------------------------------------------------------
(* The experts and the orchestrator.                                       *)

FactsOf(bodies) == {[source |-> i, quote |-> bodies[i]] : i \in DOMAIN bodies}

Put(r, fragment) ==
    fragments' = [fragments EXCEPT ![r] =
        {f \in @ : ~SameFile(f, fragment)} \cup {fragment}]

\* An expert of run r reads a slice, whichever run left it there, and copies
\* its identity and digests.  It may slip: a fact it made up, or an order.
WriteFragment(r) ==
    \E slice \in slices :
        /\ inputs[r] # NoDocument
        /\ results[r] = NoDocument
        /\ \E invented \in {{}} \cup {{f} : f \in Facts}, clean \in BOOLEAN :
              LET slip == IF invented = {} /\ clean THEN 0 ELSE 1
              IN  /\ attempts.slips + slip <= MaxSlips
                  /\ attempts' = [attempts EXCEPT !.slips = @ + slip]
                  /\ Put(r, [kind |-> slice.kind, symbol |-> slice.symbol,
                             run |-> slice.run, clean |-> clean,
                             facts |-> FactsOf(slice.bodies) \cup invented,
                             declared |-> IF slice.kind = "filings" THEN slice.bodies
                                          ELSE Nothing,
                             read |-> slice.bodies])
        /\ UNCHANGED <<inputs, contexts, slices, cutting, results, reports>>

\* A fragment of another run is kept when it verifies against this input.
ReuseFragment(r, from) ==
    \E fragment \in fragments[from] :
        /\ inputs[r] # NoDocument
        /\ results[r] = NoDocument
        /\ Fragment(r, fragment.kind, fragment.symbol) = {}
        /\ VerifyFragment(r, fragment)
        /\ Put(r, fragment)
        /\ UNCHANGED <<inputs, contexts, slices, cutting, results, reports, attempts>>

\* What the orchestrator may give as reasons of a verdict: the ids they cite,
\* of this symbol, of another one or of none, and no order among them, or one.
VerdictReasons(r) ==
    LET exported == UNION {DOMAIN Bodies(Candidate(r, s)) : s \in Candidates(r)}
    IN  [cited : SUBSET (exported \cup {f.source : f \in Facts}), clean : BOOLEAN]

ReasonsHold(candidate, reasons) ==
    reasons.cited \subseteq DOMAIN Bodies(candidate) /\ reasons.clean

Section(r, s, reasons) ==
    LET parts == {f \in fragments[r] : f.symbol = s}
    IN  [facts |-> UNION {f.facts : f \in parts},
         reasons |-> reasons,
         clean |-> reasons.clean /\ \A f \in parts : f.clean,
         parts |-> parts]

\* Every expert with work has answered for every candidate.
Answered(r) ==
    \A kind \in Kinds, s \in Candidates(r) :
        HasWork(kind, Candidate(r, s)) => Fragment(r, kind, s) # {}

MergedResult(r, identity, reasons) ==
    [run |-> identity,
     checked |-> \A f \in fragments[r] : VerifyFragment(r, f),
     sections |-> [s \in DOMAIN reasons |-> Section(r, s, reasons[s])]]

\* The orchestrator merges what verified, and adds its verdicts; or it slips,
\* and merges without checking, under another identity, leaving a symbol out,
\* or with reasons that do not hold.
Merge(r) ==
    /\ inputs[r] # NoDocument
    /\ results[r] = NoDocument
    /\ Answered(r)
    /\ \E identity \in AnalysisRuns,
          symbols \in {Candidates(r)} \cup {Candidates(r) \ {s} : s \in Candidates(r)} :
       \E reasons \in [symbols -> VerdictReasons(r)] :
          LET result == MergedResult(r, identity, reasons)
              holds == \A s \in symbols : ReasonsHold(Candidate(r, s), reasons[s])
              slip == IF result.checked /\ holds /\ identity = r /\ symbols = Candidates(r)
                      THEN 0 ELSE 1
          IN  /\ attempts.slips + slip <= MaxSlips
              /\ attempts' = [attempts EXCEPT !.slips = @ + slip]
              /\ results' = [results EXCEPT ![r] = result]
    /\ UNCHANGED <<inputs, contexts, slices, cutting, fragments, reports>>

-----------------------------------------------------------------------------
(* Ingest.                                                                 *)

\* One run's three documents, covering every exported candidate.
SameAnalysis(r) ==
    /\ results[r].run = r
    /\ r \in contexts
    /\ DOMAIN results[r].sections = Candidates(r)

Outcome(r, s) ==
    LET section == results[r].sections[s]
    IN  IF VerifySymbol(Candidate(r, s), section.facts, section.reasons.cited,
                        section.clean)
        THEN "rendered" ELSE "withheld"

Ingest(r) ==
    /\ results[r] # NoDocument
    /\ SameAnalysis(r)
    /\ reports' = [reports EXCEPT ![r] = [s \in Candidates(r) |-> Outcome(r, s)]]
    /\ UNCHANGED <<inputs, contexts, slices, cutting, fragments, results, attempts>>

\* A refused result may be thrown away and merged again.
IngestRefuses(r) ==
    /\ results[r] # NoDocument
    /\ ~SameAnalysis(r)
    /\ results' = [results EXCEPT ![r] = NoDocument]
    /\ UNCHANGED <<inputs, contexts, slices, cutting, fragments, reports, attempts>>

DeskInit ==
    /\ inputs = [r \in AnalysisRuns |-> NoDocument]
    /\ contexts = {}
    /\ slices = {}
    /\ cutting = <<>>
    /\ fragments = [r \in AnalysisRuns |-> {}]
    /\ results = [r \in AnalysisRuns |-> NoDocument]
    /\ reports = [r \in AnalysisRuns |-> Nothing]
    /\ attempts = [cuts |-> 0, slips |-> 0]

DeskNext ==
    \/ \E r \in AnalysisRuns :
          \/ ExportInput(r)
          \/ ArchiveContext(r)
          \/ CutSlices(r)
          \/ WriteFragment(r)
          \/ \E from \in AnalysisRuns \ {r} : ReuseFragment(r, from)
          \/ Merge(r)
          \/ Ingest(r)
          \/ IngestRefuses(r)
    \/ RenameSlice
    \/ CutFails

DeskSpec == DeskInit /\ [][DeskNext]_deskVars

-----------------------------------------------------------------------------
Rendered(r) ==
    {s \in DOMAIN reports[r] : reports[r][s] = "rendered"}

(* Whatever the experts and the orchestrator did, and whatever an earlier  *)
(* run left in the scratch directory or in analysis_work/: a report states *)
(* only facts whose quote is in a body that its own run gave that symbol,  *)
(* rests its verdict on no other body, and has nothing that reads like an  *)
(* order.                                                                  *)
ReportRestsOnItsInput ==
    \A r \in AnalysisRuns : \A s \in Rendered(r) :
        /\ s \in Candidates(r)
        /\ results[r].sections[s].clean
        /\ \A f \in results[r].sections[s].facts :
              f \in FactsOf(Bodies(Candidate(r, s)))
        /\ results[r].sections[s].reasons.cited \subseteq DOMAIN Bodies(Candidate(r, s))

(* A merge of verified fragments rests on readings of exactly this run's   *)
(* bodies (Issue #261: a filing's reading may be older than the run, but   *)
(* covers every filing the run exports, and no other text), and ingest     *)
(* withholds a symbol of it only for the reasons the orchestrator itself   *)
(* added: for what the experts wrote the pre-flight check is "identical to *)
(* the check that will gate the report, not an approximation of it".       *)
PreflightIsTheGate ==
    \A r \in AnalysisRuns :
        results[r].run # 0 /\ results[r].checked =>
            \A s \in DOMAIN results[r].sections :
                LET section == results[r].sections[s]
                IN  /\ Outcome(r, s) = "rendered" <=>
                           ReasonsHold(Candidate(r, s), section.reasons)
                    /\ \A f \in section.parts :
                          f.read = BodiesFor(f.kind, Candidate(r, s))
=============================================================================
