----------------------------- MODULE RulesProofs -----------------------------
(* Seven areas of the rules, each with the invariant its step lemma keeps:     *)
(* what a report may quote (AnalysisDesk), the two tables of a signal's      *)
(* fate (Postmortem), what a green gate has run (DiffGate), what a record    *)
(* keeps through the releases of the database (StateSchema), what an RP      *)
(* number names (ProposalLedger), the books of a backtest (BacktestEngine),  *)
(* whose loops and sums are taken element by element, and what a confirmed   *)
(* Follow-Through Day rests on (MarketRegime), row by row.                   *)
EXTENDS AnalysisDesk, Postmortem, DiffGate, StateSchema, ProposalLedger,
        BacktestEngine, MarketRegime, SequenceTheorems, OrderFacts

(********** AnalysisDesk: export, slices, fragments, merge, ingest ***********)
\* A fact names a body and quotes it.
Quoted(f) == f = [source |-> f.source, quote |-> f.quote]

RunInput(r) == inputs[r] # NoDocument

\* Every slice that a run's input gives.
AllSlices == UNION {SlicesOf(r) : r \in {q \in AnalysisRuns : RunInput(q)}}

\* What an expert wrote rests on the bodies it read: those it declares, for
\* filings, and those of the run it names otherwise.
FaithfulFragment(f) ==
    /\ \A x \in f.facts : Quoted(x)
    /\ f.kind = "filings" => f.declared = f.read
    /\ f.kind # "filings" =>
          /\ f.run \in AnalysisRuns
          /\ RunInput(f.run)
          /\ f.read = BodiesFor(f.kind, Candidate(f.run, f.symbol))

\* A fragment that passed the preflight of run r, about symbol s.
VerifiedPart(r, s, f) ==
    /\ f.symbol = s
    /\ VerifyFragment(r, f)
    /\ f.read = BodiesFor(f.kind, Candidate(r, s))

DeskShape ==
    /\ inputs = [r \in AnalysisRuns |-> inputs[r]]
    /\ fragments = [r \in AnalysisRuns |-> fragments[r]]
    /\ results = [r \in AnalysisRuns |-> results[r]]
    /\ reports = [r \in AnalysisRuns |-> reports[r]]
    /\ \A r \in AnalysisRuns : RunInput(r) => IsFiniteSet(Candidates(r))

\* Scratch may hold slices of other runs, but none that no run was cut into.
SlicesInv ==
    /\ slices \subseteq AllSlices
    /\ cutting \in Seq(AllSlices)

FragmentsInv == \A r \in AnalysisRuns : \A f \in fragments[r] : FaithfulFragment(f)

\* A result is its fragments put together, and checked only if all of them are.
MergedInv ==
    \A r \in AnalysisRuns : results[r] # NoDocument =>
        /\ RunInput(r)
        /\ \A s \in DOMAIN results[r].sections :
              LET section == results[r].sections[s]
              IN  /\ \A f \in section.facts : Quoted(f)
                  /\ section.facts = UNION {f.facts : f \in section.parts}
                  /\ section.clean <=> section.reasons.clean /\ \A f \in section.parts : f.clean
                  /\ results[r].checked => \A f \in section.parts : VerifiedPart(r, s, f)

\* A report says of a symbol what its run's input and result still say now.
RenderedInv ==
    /\ \A r \in contexts : r \in AnalysisRuns => RunInput(r)
    /\ \A r \in AnalysisRuns : \A s \in Rendered(r) :
          /\ results[r] # NoDocument
          /\ SameAnalysis(r)
          /\ s \in Candidates(r)
          /\ VerifySymbol(Candidate(r, s), results[r].sections[s].facts,
                          results[r].sections[s].reasons.cited, results[r].sections[s].clean)

DeskInv == DeskShape /\ SlicesInv /\ FragmentsInv /\ MergedInv /\ RenderedInv
-----------------------------------------------------------------------------
\* The slices of a set are cut in some order, each of them once.
LEMMA SequenceOfASet ==
    ASSUME NEW S, IsFiniteSet(S)
    PROVE  SetToSeq(S) \in Seq(S)
<1>1. Cardinality(S) \in Nat
  BY FS_CardinalityType
<1>2. PICK f : f \in [1..Cardinality(S) -> S] /\ \A a, b \in 1..Cardinality(S) : f[a] = f[b] => a = b
  <2>1. ExistsBijection(1..Cardinality(S), S)
    BY FS_CardinalityType
  <2>2. PICK f \in Bijection(1..Cardinality(S), S) : TRUE
    BY <2>1 DEF ExistsBijection
  <2> QED BY <2>2 DEF Bijection, Injection, IsInjective
<1>3. \E g \in [1..Cardinality(S) -> S] : IsInjective(g)
  BY <1>2 DEF IsInjective
<1>4. SetToSeq(S) \in [1..Cardinality(S) -> S]
  BY <1>3 DEF SetToSeq
<1> QED BY <1>1, <1>4

\* An input is written once: what rests on an input that is there stays true of it.
InputsStay == \A r \in AnalysisRuns : RunInput(r) => inputs'[r] = inputs[r]

\* So the slices that may be cut only become more.
LEMMA SlicesStay ==
    ASSUME InputsStay
    PROVE  AllSlices \subseteq AllSlices'
<1> SUFFICES ASSUME NEW r \in AnalysisRuns, RunInput(r)
             PROVE  RunInput(r)' /\ SlicesOf(r)' = SlicesOf(r)
  BY DEF AllSlices
<1>1. inputs'[r] = inputs[r]
  BY DEF InputsStay
<1>2. RunInput(r)'
  BY <1>1 DEF RunInput
<1>3. Candidates(r)' = Candidates(r) /\ \A s : Candidate(r, s)' = Candidate(r, s)
  BY <1>1 DEF Candidates, Candidate
<1>4. SlicesOf(r)' = SlicesOf(r)
  BY <1>3 DEF SlicesOf, Slice
<1> QED BY <1>2, <1>4

\* A fragment that read the bodies of its run has read them for good.
LEMMA FragmentsStay ==
    ASSUME InputsStay, NEW f, FaithfulFragment(f)
    PROVE  FaithfulFragment(f)'
<1>1. CASE f.kind = "filings"
  BY <1>1 DEF FaithfulFragment
<1>2. CASE f.kind # "filings"
  <2>1. f.run \in AnalysisRuns /\ RunInput(f.run) /\ f.read = BodiesFor(f.kind, Candidate(f.run, f.symbol))
    BY <1>2 DEF FaithfulFragment
  <2>2. inputs'[f.run] = inputs[f.run]
    BY <2>1 DEF InputsStay
  <2>3. RunInput(f.run)' /\ f.read = BodiesFor(f.kind, Candidate(f.run, f.symbol)')
    BY <2>1, <2>2 DEF RunInput, Candidate
  <2> QED BY <1>2, <2>1, <2>3 DEF FaithfulFragment
<1> QED BY <1>1, <1>2

\* What verified against an input verifies against it later.
LEMMA PartsStay ==
    ASSUME NEW r \in AnalysisRuns, NEW s, NEW f, inputs'[r] = inputs[r], VerifiedPart(r, s, f)
    PROVE  VerifiedPart(r, s, f)'
<1>1. Candidates(r)' = Candidates(r) /\ \A q : Candidate(r, q)' = Candidate(r, q)
  BY DEF Candidates, Candidate
<1>2. VerifyFragment(r, f)' = VerifyFragment(r, f)
  BY <1>1 DEF VerifyFragment
<1> QED BY <1>1, <1>2 DEF VerifiedPart

\* What a merge recorded of a run, and what its report says, is about that
\* run's input, context, result and report alone.
LEMMA MergedStays ==
    ASSUME MergedInv, InputsStay, NEW r \in AnalysisRuns, results'[r] = results[r]
    PROVE  results'[r] # NoDocument =>
             /\ RunInput(r)'
             /\ \A s \in DOMAIN results'[r].sections :
                  LET section == results'[r].sections[s]
                  IN  /\ \A f \in section.facts : Quoted(f)
                      /\ section.facts = UNION {f.facts : f \in section.parts}
                      /\ section.clean <=> section.reasons.clean /\ \A f \in section.parts : f.clean
                      /\ results'[r].checked => \A f \in section.parts : VerifiedPart(r, s, f)'
<1> SUFFICES ASSUME results[r] # NoDocument PROVE
             /\ RunInput(r)'
             /\ \A s \in DOMAIN results[r].sections :
                  LET section == results[r].sections[s]
                  IN  /\ \A f \in section.facts : Quoted(f)
                      /\ section.facts = UNION {f.facts : f \in section.parts}
                      /\ section.clean <=> section.reasons.clean /\ \A f \in section.parts : f.clean
                      /\ results[r].checked => \A f \in section.parts : VerifiedPart(r, s, f)'
  OBVIOUS
<1>1. RunInput(r)
  BY DEF MergedInv
<1>2. inputs'[r] = inputs[r]
  BY <1>1 DEF InputsStay
<1>3. RunInput(r)'
  BY <1>1, <1>2 DEF RunInput
<1>4. \A s, f : VerifiedPart(r, s, f) => VerifiedPart(r, s, f)'
  BY <1>2, PartsStay
<1> QED BY <1>3, <1>4 DEF MergedInv

\* What a report renders stays backed while its run's documents stay.
LEMMA RenderedStays ==
    ASSUME RenderedInv, InputsStay, NEW r \in AnalysisRuns,
           results'[r] = results[r], reports'[r] = reports[r], contexts \subseteq contexts'
    PROVE  \A s \in Rendered(r)' :
             /\ results'[r] # NoDocument
             /\ SameAnalysis(r)'
             /\ s \in Candidates(r)'
             /\ VerifySymbol(Candidate(r, s)', results'[r].sections[s].facts,
                             results'[r].sections[s].reasons.cited,
                             results'[r].sections[s].clean)
<1>1. Rendered(r)' = Rendered(r)
  BY DEF Rendered
<1> SUFFICES ASSUME NEW s \in Rendered(r)
             PROVE  /\ results[r] # NoDocument
                    /\ SameAnalysis(r)'
                    /\ s \in Candidates(r)'
                    /\ VerifySymbol(Candidate(r, s)', results[r].sections[s].facts,
                                    results[r].sections[s].reasons.cited,
                                    results[r].sections[s].clean)
  BY <1>1
<1>2. results[r] # NoDocument /\ SameAnalysis(r) /\ s \in Candidates(r)
      /\ VerifySymbol(Candidate(r, s), results[r].sections[s].facts,
                      results[r].sections[s].reasons.cited, results[r].sections[s].clean)
  BY DEF RenderedInv
<1>3. RunInput(r)
  BY <1>2 DEF RenderedInv, SameAnalysis
<1>4. inputs'[r] = inputs[r]
  BY <1>3 DEF InputsStay
<1>5. Candidates(r)' = Candidates(r) /\ Candidate(r, s)' = Candidate(r, s)
  BY <1>4 DEF Candidates, Candidate
<1>6. SameAnalysis(r)'
  BY <1>2, <1>5 DEF SameAnalysis
<1> QED BY <1>2, <1>5, <1>6
-----------------------------------------------------------------------------
\* A slice that was cut carries the bodies of the run it names.
LEMMA SliceIsFaithful ==
    ASSUME NEW x \in AllSlices
    PROVE  /\ x.run \in AnalysisRuns
           /\ RunInput(x.run)
           /\ x.bodies = BodiesFor(x.kind, Candidate(x.run, x.symbol))
BY DEF AllSlices, SlicesOf, Slice

\* The facts of a body are quotes, and so is what an expert may invent.
LEMMA WrittenFragment ==
    ASSUME NEW x \in AllSlices, NEW invented, \A f \in invented : Quoted(f), NEW clean, NEW fr,
           fr = [kind |-> x.kind, symbol |-> x.symbol, run |-> x.run, clean |-> clean,
                 facts |-> FactsOf(x.bodies) \cup invented,
                 declared |-> IF x.kind = "filings" THEN x.bodies ELSE Nothing,
                 read |-> x.bodies]
    PROVE  FaithfulFragment(fr)
<1>1. /\ fr.kind = x.kind /\ fr.symbol = x.symbol /\ fr.run = x.run
      /\ fr.facts = FactsOf(x.bodies) \cup invented /\ fr.read = x.bodies
      /\ fr.declared = IF x.kind = "filings" THEN x.bodies ELSE Nothing
  OBVIOUS
<1>2. \A f \in FactsOf(x.bodies) : Quoted(f)
  BY DEF FactsOf, Quoted
<1> QED BY <1>1, <1>2, SliceIsFaithful DEF FaithfulFragment

\* A section is put together from verified fragments that read these bodies.
LEMMA VerifiedReading ==
    ASSUME NEW r \in AnalysisRuns, NEW f, FaithfulFragment(f), VerifyFragment(r, f)
    PROVE  VerifiedPart(r, f.symbol, f)
<1>1. CASE f.kind = "filings"
  BY <1>1 DEF VerifiedPart, VerifyFragment, FaithfulFragment, FilingBodiesMatch, BodiesFor
<1>2. CASE f.kind # "filings"
  BY <1>2 DEF VerifiedPart, VerifyFragment, FaithfulFragment
<1> QED BY <1>1, <1>2

\* Filing a faithful fragment, over another of its kind or not, keeps all faithful.
LEMMA PutKeepsFragments ==
    ASSUME FragmentsInv, InputsStay, fragments = [r \in AnalysisRuns |-> fragments[r]],
           NEW q \in AnalysisRuns, NEW fr, FaithfulFragment(fr), Put(q, fr)
    PROVE  FragmentsInv' /\ fragments' = [r \in AnalysisRuns |-> fragments'[r]]
<1>1. \A r \in AnalysisRuns : fragments'[r] \subseteq fragments[r] \cup {fr}
  BY DEF Put
<1>2. FragmentsInv'
  BY <1>1, FragmentsStay DEF FragmentsInv
<1> QED BY <1>2 DEF Put

\* Every step of the desk keeps the invariant: one case per action.
LEMMA DeskSteps == DeskInv /\ [DeskNext]_deskVars => DeskInv'
<1> USE AnalysisConstants
<1> SUFFICES ASSUME DeskInv, [DeskNext]_deskVars PROVE DeskInv'
  OBVIOUS
<1>0. DeskShape /\ SlicesInv /\ FragmentsInv /\ MergedInv /\ RenderedInv
  BY DEF DeskInv
<1>a. ASSUME inputs' = inputs
      PROVE  InputsStay /\ AllSlices' = AllSlices
  BY <1>a DEF InputsStay, AllSlices, RunInput, SlicesOf, Slice, Candidates, Candidate
<1>1. ASSUME NEW r \in AnalysisRuns, ExportInput(r) PROVE DeskInv'
  <2>1. InputsStay
    BY <1>1, <1>0 DEF ExportInput, InputsStay, RunInput, DeskShape
  <2>2. DeskShape'
    <3>1. PICK c \in Exports[r] : inputs' = [inputs EXCEPT ![r] = [run |-> r, candidates |-> c]]
      BY <1>1 DEF ExportInput
    <3>2. \A q \in AnalysisRuns : RunInput(q)' => IsFiniteSet(Candidates(q)')
      <4> SUFFICES ASSUME NEW q \in AnalysisRuns, RunInput(q)' PROVE IsFiniteSet(DOMAIN inputs'[q].candidates)
        BY DEF Candidates
      <4>1. CASE q = r
        <5>1. inputs'[q].candidates = c
          BY <4>1, <3>1, <1>0 DEF DeskShape
        <5> QED BY <5>1, <3>1
      <4>2. CASE q # r
        BY <4>2, <3>1, <1>0 DEF DeskShape, RunInput, Candidates
      <4> QED BY <4>1, <4>2
    <3> QED BY <3>1, <3>2, <1>0, <1>1 DEF DeskShape, ExportInput
  <2>3. SlicesInv'
    <3>1. AllSlices \subseteq AllSlices'
      BY <2>1, SlicesStay
    <3> QED BY <3>1, <1>0, <1>1 DEF SlicesInv, ExportInput
  <2>4. FragmentsInv'
    BY <2>1, <1>0, <1>1, FragmentsStay DEF FragmentsInv, ExportInput
  <2>5. MergedInv'
    BY <2>1, <1>0, <1>1, MergedStays DEF MergedInv, ExportInput
  <2>6. \A q \in contexts' : q \in AnalysisRuns => RunInput(q)'
    BY <1>0, <1>1, <2>1 DEF RenderedInv, ExportInput, InputsStay, RunInput
  <2>7. RenderedInv'
    BY <2>1, <2>6, <1>0, <1>1, RenderedStays DEF RenderedInv, ExportInput
  <2> QED BY <2>2, <2>3, <2>4, <2>5, <2>7 DEF DeskInv
<1>2. ASSUME NEW r \in AnalysisRuns, ArchiveContext(r) PROVE DeskInv'
  <2>0. inputs' = inputs /\ InputsStay /\ AllSlices' = AllSlices
    BY <1>2, <1>a DEF ArchiveContext
  <2>1. DeskShape' /\ SlicesInv'
    BY <1>0, <1>2, <2>0 DEF DeskShape, SlicesInv, ArchiveContext, RunInput, Candidates
  <2>2. FragmentsInv' /\ MergedInv'
    BY <2>0, <1>0, <1>2, FragmentsStay, MergedStays DEF FragmentsInv, MergedInv, ArchiveContext
  <2>3. RenderedInv'
    <3>1. \A q \in contexts' : q \in AnalysisRuns => RunInput(q)'
      BY <1>0, <1>2, <2>0 DEF RenderedInv, ArchiveContext, RunInput
    <3>2. Rendered(r)' = {}
      BY <1>0, <1>2 DEF ArchiveContext, Rendered, DeskShape
    <3>3. \A q \in AnalysisRuns \ {r} : reports'[q] = reports[q]
      BY <1>0, <1>2 DEF ArchiveContext, DeskShape
    <3>4. results' = results /\ contexts \subseteq contexts'
      BY <1>2 DEF ArchiveContext
    <3> QED BY <3>1, <3>2, <3>3, <3>4, <2>0, <1>0, RenderedStays DEF RenderedInv
  <2> QED BY <2>1, <2>2, <2>3 DEF DeskInv
<1>b. ASSUME UNCHANGED <<inputs, contexts, results, reports>>
      PROVE  MergedInv' /\ RenderedInv'
  <2>1. InputsStay
    BY <1>b, <1>a
  <2>2. \A q \in contexts' : q \in AnalysisRuns => RunInput(q)'
    BY <1>0, <1>b DEF RenderedInv, RunInput
  <2> QED BY <1>0, <1>b, <2>1, <2>2, MergedStays, RenderedStays DEF MergedInv, RenderedInv
<1>c. ASSUME UNCHANGED <<inputs, fragments>> PROVE FragmentsInv'
  BY <1>c, <1>a, <1>0, FragmentsStay DEF FragmentsInv
<1>3. ASSUME NEW r \in AnalysisRuns, CutSlices(r) PROVE DeskInv'
  <2>0. /\ UNCHANGED <<inputs, contexts, slices, fragments, results, reports>>
        /\ RunInput(r) /\ cutting' = SetToSeq(SlicesOf(r)) /\ AllSlices' = AllSlices
    BY <1>3, <1>a DEF CutSlices, RunInput
  <2>1. IsFiniteSet(SlicesOf(r))
    <3>1. IsFiniteSet(Kinds \X Candidates(r))
      <4>1. IsFiniteSet(Candidates(r))
        BY <2>0, <1>0 DEF DeskShape
      <4>2. IsFiniteSet({"news"}) /\ IsFiniteSet({"news", "filings"}) /\ IsFiniteSet(Kinds)
        <5>1. IsFiniteSet({"news"})
          BY FS_Singleton
        <5>2. {"news", "filings"} = {"news"} \cup {"filings"} /\ Kinds = {"news", "filings"} \cup {"screening"}
          BY DEF Kinds
        <5> QED BY <5>1, <5>2, FS_AddElement
      <4> QED BY <4>1, <4>2, FS_Product
    <3> DEFINE work == {x \in Kinds \X Candidates(r) : HasWork(x[1], Candidate(r, x[2]))}
    <3>2. IsFiniteSet(work)
      BY <3>1, FS_Subset
    <3>3. SlicesOf(r) = {Slice(r, w[1], w[2]) : w \in work}
      BY DEF SlicesOf
    <3> HIDE DEF work
    <3> DEFINE cut == [w \in work |-> Slice(r, w[1], w[2])]
    <3>4. cut \in Surjection(work, SlicesOf(r))
      BY <3>3 DEF Surjection
    <3> QED BY <3>2, <3>4, FS_Surjection
  <2>2. SlicesOf(r) \subseteq AllSlices
    BY <2>0 DEF AllSlices
  <2>3. cutting' \in Seq(AllSlices)
    BY <2>0, <2>1, <2>2, SequenceOfASet
  <2>4. SlicesInv'
    BY <2>0, <2>3, <1>0 DEF SlicesInv
  <2>5. DeskShape'
    BY <2>0, <1>0 DEF DeskShape, RunInput, Candidates
  <2> QED BY <2>0, <2>4, <2>5, <1>b, <1>c DEF DeskInv
<1>4. ASSUME RenameSlice \/ CutFails PROVE DeskInv'
  <2>0. UNCHANGED <<inputs, contexts, fragments, results, reports>> /\ cutting # <<>> /\ AllSlices' = AllSlices
    BY <1>4, <1>a DEF RenameSlice, CutFails
  <2>1. SlicesInv'
    <3>1. cutting \in Seq(AllSlices) /\ slices \subseteq AllSlices
      BY <1>0 DEF SlicesInv
    <3>2. CASE RenameSlice
      <4>1. Head(cutting) \in AllSlices /\ Tail(cutting) \in Seq(AllSlices)
        BY <2>0, <3>1
      <4>2. slices' \subseteq AllSlices /\ cutting' \in Seq(AllSlices)
        BY <3>1, <3>2, <4>1 DEF RenameSlice
      <4> QED BY <4>2, <2>0 DEF SlicesInv
    <3>3. CASE CutFails
      <4>1. slices' \subseteq AllSlices /\ cutting' \in Seq(AllSlices)
        BY <3>1, <3>3 DEF CutFails
      <4> QED BY <4>1, <2>0 DEF SlicesInv
    <3> QED BY <3>2, <3>3, <1>4
  <2>2. DeskShape'
    BY <2>0, <1>0 DEF DeskShape, RunInput, Candidates
  <2> QED BY <2>0, <2>1, <2>2, <1>b, <1>c DEF DeskInv
<1>5. ASSUME NEW r \in AnalysisRuns, WriteFragment(r) PROVE DeskInv'
  <2>0. UNCHANGED <<inputs, contexts, slices, cutting, results, reports>> /\ AllSlices' = AllSlices
    BY <1>5, <1>a DEF WriteFragment
  <2>1. PICK x \in slices, invented \in {{}} \cup {{f} : f \in Facts}, clean \in BOOLEAN :
           Put(r, [kind |-> x.kind, symbol |-> x.symbol, run |-> x.run, clean |-> clean,
                   facts |-> FactsOf(x.bodies) \cup invented,
                   declared |-> IF x.kind = "filings" THEN x.bodies ELSE Nothing,
                   read |-> x.bodies])
    BY <1>5 DEF WriteFragment
  <2>2. \A f \in invented : Quoted(f)
    BY <2>1 DEF Quoted
  <2>3. x \in AllSlices
    BY <1>0 DEF SlicesInv
  <2> DEFINE fr == [kind |-> x.kind, symbol |-> x.symbol, run |-> x.run, clean |-> clean,
                   facts |-> FactsOf(x.bodies) \cup invented,
                   declared |-> IF x.kind = "filings" THEN x.bodies ELSE Nothing,
                   read |-> x.bodies]
  <2>4. FaithfulFragment(fr)
    BY <2>2, <2>3, WrittenFragment
  <2>5. Put(r, fr)
    BY <2>1
  <2> HIDE DEF fr
  <2>6. FragmentsInv' /\ fragments' = [q \in AnalysisRuns |-> fragments'[q]]
    BY <2>0, <2>4, <2>5, <1>0, <1>a, PutKeepsFragments DEF DeskShape
  <2>7. DeskShape' /\ SlicesInv'
    BY <2>0, <2>6, <1>0 DEF DeskShape, RunInput, Candidates, SlicesInv
  <2> QED BY <2>0, <2>6, <2>7, <1>b DEF DeskInv
<1>6. ASSUME NEW r \in AnalysisRuns, NEW from \in AnalysisRuns, ReuseFragment(r, from) PROVE DeskInv'
  <2>0. UNCHANGED <<inputs, contexts, slices, cutting, results, reports>> /\ AllSlices' = AllSlices
    BY <1>6, <1>a DEF ReuseFragment
  <2>1. PICK fr \in fragments[from] : Put(r, fr)
    BY <1>6 DEF ReuseFragment
  <2>2. FaithfulFragment(fr)
    BY <1>0 DEF FragmentsInv
  <2>3. FragmentsInv' /\ fragments' = [q \in AnalysisRuns |-> fragments'[q]]
    BY <2>0, <2>1, <2>2, <1>0, <1>a, PutKeepsFragments DEF DeskShape
  <2>4. DeskShape' /\ SlicesInv'
    BY <2>0, <2>3, <1>0 DEF DeskShape, RunInput, Candidates, SlicesInv
  <2> QED BY <2>0, <2>3, <2>4, <1>b DEF DeskInv
<1>7. ASSUME NEW r \in AnalysisRuns, Merge(r) PROVE DeskInv'
  <2>0. /\ UNCHANGED <<inputs, contexts, slices, cutting, fragments, reports>>
        /\ RunInput(r) /\ results[r] = NoDocument /\ AllSlices' = AllSlices /\ InputsStay
    BY <1>7, <1>a DEF Merge, RunInput
  <2>1. PICK identity \in AnalysisRuns,
             symbols \in {Candidates(r)} \cup {Candidates(r) \ {s} : s \in Candidates(r)} :
           \E reasons \in [symbols -> VerdictReasons(r)] :
              results' = [results EXCEPT ![r] = MergedResult(r, identity, reasons)]
    BY <1>7 DEF Merge
  <2>2. PICK reasons \in [symbols -> VerdictReasons(r)] :
           results' = [results EXCEPT ![r] = MergedResult(r, identity, reasons)]
    BY <2>1
  <2> DEFINE merged == MergedResult(r, identity, reasons)
  <2>3. /\ results' = [results EXCEPT ![r] = merged]
        /\ merged.checked <=> \A f \in fragments[r] : VerifyFragment(r, f)
        /\ merged.sections = [s \in symbols |-> Section(r, s, reasons[s])]
    BY <2>2 DEF MergedResult
  <2>4. results'[r] = merged /\ \A q \in AnalysisRuns \ {r} : results'[q] = results[q]
    BY <2>3, <1>0 DEF DeskShape
  <2>5. ASSUME NEW s \in symbols
        PROVE  LET section == merged.sections[s]
               IN  /\ \A f \in section.facts : Quoted(f)
                   /\ section.facts = UNION {f.facts : f \in section.parts}
                   /\ section.clean <=> section.reasons.clean /\ \A f \in section.parts : f.clean
                   /\ merged.checked => \A f \in section.parts : VerifiedPart(r, s, f)'
    <3> DEFINE parts == {f \in fragments[r] : f.symbol = s}
    <3> DEFINE allClean == reasons[s].clean /\ \A f \in parts : f.clean
    <3>1. merged.sections[s] = [facts |-> UNION {f.facts : f \in parts}, reasons |-> reasons[s],
                                clean |-> allClean, parts |-> parts]
      BY <2>3, <2>5 DEF Section
    <3>2. /\ merged.sections[s].parts = parts
          /\ merged.sections[s].facts = UNION {f.facts : f \in parts}
          /\ merged.sections[s].reasons = reasons[s]
          /\ merged.sections[s].clean = allClean
      <4> HIDE DEF merged, allClean
      <4> QED BY <3>1
    <3>3. \A f \in parts : FaithfulFragment(f)
      BY <1>0 DEF FragmentsInv
    <3>4. \A x \in UNION {f.facts : f \in parts} : Quoted(x)
      BY <3>3 DEF FaithfulFragment
    <3>5. ASSUME merged.checked, NEW f \in parts PROVE VerifiedPart(r, s, f)'
      <4>1. VerifyFragment(r, f) /\ f.symbol = s
        BY <3>5, <2>3
      <4>2. VerifiedPart(r, s, f)
        BY <4>1, <3>3, VerifiedReading
      <4> QED BY <4>2, <2>0, PartsStay
    <3> QED BY <3>2, <3>4, <3>5
  <2>6. MergedInv'
    <3>1. \A q \in AnalysisRuns \ {r} : results'[q] = results[q]
      BY <2>4
    <3>2. RunInput(r)' /\ DOMAIN merged.sections = symbols
      BY <2>0, <2>3 DEF RunInput
    <3> QED BY <3>1, <3>2, <2>0, <2>4, <2>5, <1>0, MergedStays DEF MergedInv
  <2>7. RenderedInv'
    <3>1. \A q \in contexts' : q \in AnalysisRuns => RunInput(q)'
      BY <1>0, <2>0 DEF RenderedInv, RunInput
    <3>2. Rendered(r)' = {}
      BY <1>0, <2>0 DEF RenderedInv, Rendered
    <3> QED BY <3>1, <3>2, <2>0, <2>4, <1>0, RenderedStays DEF RenderedInv
  <2>8. DeskShape' /\ SlicesInv'
    BY <2>0, <2>3, <1>0 DEF DeskShape, RunInput, Candidates, SlicesInv
  <2> QED BY <2>0, <2>6, <2>7, <2>8, <1>c DEF DeskInv
<1>8. ASSUME NEW r \in AnalysisRuns, Ingest(r) PROVE DeskInv'
  <2>0. /\ UNCHANGED <<inputs, contexts, slices, cutting, fragments, results>>
        /\ results[r] # NoDocument /\ SameAnalysis(r) /\ AllSlices' = AllSlices /\ InputsStay
        /\ reports' = [reports EXCEPT ![r] = [s \in Candidates(r) |-> Outcome(r, s)]]
    BY <1>8, <1>a DEF Ingest
  <2>1. RenderedInv'
    <3>1. \A q \in contexts' : q \in AnalysisRuns => RunInput(q)'
      BY <1>0, <2>0 DEF RenderedInv, RunInput
    <3>2. ASSUME NEW s \in Rendered(r)'
          PROVE  /\ SameAnalysis(r)' /\ s \in Candidates(r)'
                 /\ VerifySymbol(Candidate(r, s)', results'[r].sections[s].facts,
                                 results'[r].sections[s].reasons.cited,
                                 results'[r].sections[s].clean)
      <4>1. s \in Candidates(r) /\ Outcome(r, s) = "rendered"
        BY <2>0, <1>0 DEF Rendered, DeskShape
      <4>2. VerifySymbol(Candidate(r, s), results[r].sections[s].facts,
                         results[r].sections[s].reasons.cited, results[r].sections[s].clean)
        BY <4>1 DEF Outcome
      <4> QED BY <4>1, <4>2, <2>0 DEF SameAnalysis, Candidates, Candidate
    <3>3. \A q \in AnalysisRuns \ {r} : reports'[q] = reports[q]
      BY <1>0, <2>0 DEF DeskShape
    <3> QED BY <3>1, <3>2, <3>3, <2>0, <1>0, RenderedStays DEF RenderedInv
  <2>2. MergedInv'
    BY <2>0, <1>0, MergedStays DEF MergedInv
  <2>3. DeskShape' /\ SlicesInv'
    BY <2>0, <1>0 DEF DeskShape, RunInput, Candidates, SlicesInv
  <2> QED BY <2>0, <2>1, <2>2, <2>3, <1>c DEF DeskInv
<1>9. ASSUME NEW r \in AnalysisRuns, IngestRefuses(r) PROVE DeskInv'
  <2>0. /\ UNCHANGED <<inputs, contexts, slices, cutting, fragments, reports>>
        /\ ~SameAnalysis(r) /\ AllSlices' = AllSlices /\ InputsStay
        /\ results' = [results EXCEPT ![r] = NoDocument]
    BY <1>9, <1>a DEF IngestRefuses
  <2>1. results'[r] = NoDocument /\ \A q \in AnalysisRuns \ {r} : results'[q] = results[q]
    BY <2>0, <1>0 DEF DeskShape
  <2>2. MergedInv'
    BY <2>0, <2>1, <1>0, MergedStays DEF MergedInv
  <2>3. RenderedInv'
    <3>1. \A q \in contexts' : q \in AnalysisRuns => RunInput(q)'
      BY <1>0, <2>0 DEF RenderedInv, RunInput
    <3>2. Rendered(r)' = {}
      BY <1>0, <2>0 DEF RenderedInv, Rendered
    <3> QED BY <3>1, <3>2, <2>0, <2>1, <1>0, RenderedStays DEF RenderedInv
  <2>4. DeskShape' /\ SlicesInv'
    BY <2>0, <1>0 DEF DeskShape, RunInput, Candidates, SlicesInv
  <2> QED BY <2>0, <2>2, <2>3, <2>4, <1>c DEF DeskInv
<1>10. ASSUME UNCHANGED deskVars PROVE DeskInv'
  <2>1. UNCHANGED <<inputs, contexts, slices, cutting, fragments, results, reports>> /\ AllSlices' = AllSlices
    BY <1>10, <1>a DEF deskVars
  <2>2. DeskShape' /\ SlicesInv'
    BY <2>1, <1>0 DEF DeskShape, RunInput, Candidates, SlicesInv
  <2> QED BY <2>1, <2>2, <1>b, <1>c DEF DeskInv
<1> QED BY <1>1, <1>2, <1>3, <1>4, <1>5, <1>6, <1>7, <1>8, <1>9, <1>10 DEF DeskNext

\* An empty desk satisfies it.
LEMMA DeskStarts == DeskInit => DeskInv
<1> SUFFICES ASSUME DeskInit PROVE DeskInv
  OBVIOUS
<1>1. DeskShape /\ SlicesInv /\ FragmentsInv /\ MergedInv
  BY DEF DeskInit, DeskShape, SlicesInv, FragmentsInv, MergedInv, RunInput
<1>2. RenderedInv
  BY DEF DeskInit, RenderedInv, Rendered, Nothing
<1> QED BY <1>1, <1>2 DEF DeskInv

\* A symbol is rendered only from the analysis of its own run, clean of trade
\* directives, every fact in it is a quote of a body the run exported for that
\* symbol and its verdict cites no other (validate.py), whatever experts invent,
\* slices of other runs are read and fragments carried over.
THEOREM ReportsAreQuoted == DeskSpec => []ReportRestsOnItsInput
<1>1. DeskInv => ReportRestsOnItsInput
  <2> SUFFICES ASSUME DeskInv, NEW r \in AnalysisRuns, NEW s \in Rendered(r)
               PROVE  /\ s \in Candidates(r)
                      /\ results[r].sections[s].clean
                      /\ \A f \in results[r].sections[s].facts :
                            f \in FactsOf(Bodies(Candidate(r, s)))
                      /\ results[r].sections[s].reasons.cited
                            \subseteq DOMAIN Bodies(Candidate(r, s))
    BY DEF ReportRestsOnItsInput
  <2>1. /\ results[r] # NoDocument /\ SameAnalysis(r) /\ s \in Candidates(r)
        /\ VerifySymbol(Candidate(r, s), results[r].sections[s].facts,
                        results[r].sections[s].reasons.cited, results[r].sections[s].clean)
    BY DEF DeskInv, RenderedInv
  <2>2. \A f \in results[r].sections[s].facts : Quoted(f)
    BY <2>1 DEF DeskInv, MergedInv, SameAnalysis
  <2> QED BY <2>1, <2>2 DEF VerifySymbol, Quoted, FactsOf
<1> QED BY <1>1, DeskStarts, DeskSteps, PTL DEF DeskSpec

\* Of a result whose fragments passed `verify-fragments` (verify_cli.py), ingest
\* withholds a symbol only for the reasons the orchestrator added to its verdict:
\* on what the experts wrote, the preflight and the check at ingest agree.
THEOREM PreflightHoldsAtIngest == DeskSpec => []PreflightIsTheGate
<1>1. DeskInv => PreflightIsTheGate
  <2> SUFFICES ASSUME DeskInv, NEW r \in AnalysisRuns, results[r].run # 0, results[r].checked,
                      NEW s \in DOMAIN results[r].sections
               PROVE  LET section == results[r].sections[s]
                      IN  /\ Outcome(r, s) = "rendered" <=>
                                 ReasonsHold(Candidate(r, s), section.reasons)
                          /\ \A f \in section.parts :
                                f.read = BodiesFor(f.kind, Candidate(r, s))
    BY DEF PreflightIsTheGate
  <2> DEFINE section == results[r].sections[s]
             known == DOMAIN Bodies(Candidate(r, s))
  <2>1. results[r] # NoDocument
    BY DEF NoDocument
  <2>2. /\ section.facts = UNION {f.facts : f \in section.parts}
        /\ section.clean <=> section.reasons.clean /\ \A f \in section.parts : f.clean
        /\ \A f \in section.parts : VerifiedPart(r, s, f)
    BY <2>1 DEF DeskInv, MergedInv
  <2>3. \A f \in section.parts : VerifySymbol(Candidate(r, s), f.facts, {}, f.clean)
    BY <2>2 DEF VerifiedPart, VerifyFragment
  <2>4. section.clean <=> section.reasons.clean
    BY <2>2, <2>3 DEF VerifySymbol
  <2>5. \A x \in section.facts : x.source \in known /\ x.quote = Bodies(Candidate(r, s))[x.source]
    BY <2>2, <2>3 DEF VerifySymbol
  <2>6. VerifySymbol(Candidate(r, s), section.facts, section.reasons.cited, section.clean)
          <=> section.reasons.cited \subseteq known /\ section.clean
    BY <2>5 DEF VerifySymbol
  <2>7. Outcome(r, s) = "rendered" <=> ReasonsHold(Candidate(r, s), section.reasons)
    BY <2>4, <2>6 DEF Outcome, ReasonsHold
  <2> QED BY <2>2, <2>7 DEF VerifiedPart
<1> QED BY <1>1, DeskStarts, DeskSteps, PTL DEF DeskSpec

(******************* Postmortem: the two tables of a pass ********************)
\* One decision, told by both tables.
SameStory(o, u) ==
    /\ u.decided = "candidate"
    /\ o.run = u.run /\ o.symbol = u.symbol /\ o.horizon = u.horizon /\ o.asOf = u.asOf
    /\ o.class = ClassifyReturn(u.base, u.close)

StoriesInv ==
    /\ \A o \in signalOutcomes : <<o.run, o.horizon>> \notin torn =>
          \E u \in universe : SameStory(o, u)
    /\ \A u \in universe : <<u.run, u.horizon>> \notin torn /\ u.decided = "candidate" =>
          \E o \in signalOutcomes : SameStory(o, u)

PassShape ==
    /\ runDay \in Nat
    /\ pass \in [at : Nat, writes : {"none", "outcomes", "universe"}, asOf : Nat]

\* Between the two replacements nothing moves that the second one reads.
HalfInv ==
    pass.writes = "universe" =>
        /\ <<Evaluated, Lag>> \in torn
        /\ {o \in signalOutcomes : o.run = Evaluated /\ o.horizon = Lag}
             = OutcomeRows(Evaluated, Lag, pass.asOf)

PostmortemInv == PassShape /\ StoriesInv /\ HalfInv

\* The two lists one horizon's pass computes tell the same decisions.
LEMMA RowsTellOneStory ==
    ASSUME NEW r, NEW h, NEW to
    PROVE  /\ \A o \in OutcomeRows(r, h, to) : o.run = r /\ o.horizon = h
           /\ \A u \in ControlRows(r, h, to) : u.run = r /\ u.horizon = h
           /\ \A o \in OutcomeRows(r, h, to) : \E u \in ControlRows(r, h, to) : SameStory(o, u)
           /\ \A u \in ControlRows(r, h, to) : u.decided = "candidate" =>
                 \E o \in OutcomeRows(r, h, to) : SameStory(o, u)
<1> DEFINE from == screened[r].date
           s == screened[r].screen
           SignalRow(x) == [run |-> r, symbol |-> x, horizon |-> h, asOf |-> to, names |-> SignalNames(s, x),
                          class |-> ClassifyReturn(closes[x][from], closes[x][to])]
           ControlRow(x) == [run |-> r, symbol |-> x, horizon |-> h, asOf |-> to, decided |-> OutcomeClass(s, x),
                          base |-> closes[x][from], close |-> closes[x][to]]
           judged == {y \in CandidateSymbols(s) : HasReturn(y, from, to)}
           known == {y \in Decided(s) : HasReturn(y, from, to)}
<1>1. /\ OutcomeRows(r, h, to) = {SignalRow(x) : x \in judged}
      /\ ControlRows(r, h, to) = {ControlRow(x) : x \in known}
  BY DEF OutcomeRows, ControlRows
<1>2. judged \subseteq known
  BY DEF Decided
<1>3. \A x \in known : OutcomeClass(s, x) = "candidate" <=> x \in judged
  BY DEF OutcomeClass, Decided
<1>4. \A x : /\ SignalRow(x).run = r /\ SignalRow(x).horizon = h
             /\ ControlRow(x).run = r /\ ControlRow(x).horizon = h
             /\ ControlRow(x).decided = OutcomeClass(s, x)
  OBVIOUS
<1>5. \A x : OutcomeClass(s, x) = "candidate" => SameStory(SignalRow(x), ControlRow(x))
  BY DEF SameStory
<1> HIDE DEF SignalRow, ControlRow, judged, known
<1> QED BY <1>1, <1>2, <1>3, <1>4, <1>5

\* Every step keeps the invariant; the two replacements are where it moves.
LEMMA PostmortemSteps == PostmortemInv /\ [PostmortemNext]_postmortemVars => PostmortemInv'
<1> SUFFICES ASSUME PostmortemInv, [PostmortemNext]_postmortemVars PROVE PostmortemInv'
  OBVIOUS
<1>0. PassShape /\ StoriesInv /\ HalfInv
  BY DEF PostmortemInv
<1>a. ASSUME UNCHANGED <<signalOutcomes, universe, torn>> PROVE StoriesInv'
  BY <1>0, <1>a DEF StoriesInv
<1>1. CASE NextSession \/ Requote
  <2>1. pass = NoPass /\ UNCHANGED <<signalOutcomes, universe, torn, pass>> /\ runDay' \in {runDay, runDay + 1}
    BY <1>1 DEF NextSession, Requote
  <2> QED BY <1>0, <1>a, <2>1 DEF PostmortemInv, PassShape, HalfInv, NoPass
<1>2. CASE Run
  <2>1. PICK d \in Asked : pass' = [at |-> 1, writes |-> "outcomes", asOf |-> d]
    BY <1>2 DEF Run
  <2>2. UNCHANGED <<signalOutcomes, universe, torn, runDay>> /\ d \in Nat
    BY <1>0, <1>2 DEF Run, Asked, PassShape
  <2> QED BY <1>0, <1>a, <2>1, <2>2 DEF PostmortemInv, PassShape, HalfInv
<1>3. CASE RunFails
  <2>1. pass = NoPass /\ UNCHANGED <<signalOutcomes, universe, torn, pass, runDay>>
    BY <1>3 DEF RunFails, MayStart
  <2> QED BY <1>0, <1>a, <2>1 DEF PostmortemInv, PassShape, HalfInv, NoPass
<1>b. ASSUME pass' = NoPass \/ Onward, runDay' = runDay PROVE PassShape' /\ HalfInv'
  <2>1. NoPass \in [at : Nat, writes : {"none", "outcomes", "universe"}, asOf : Nat]
        /\ NoPass.writes = "none"
    BY DEF NoPass
  <2>2. CASE pass' = NoPass
    BY <1>0, <1>b, <2>1, <2>2 DEF PassShape, HalfInv
  <2>3. CASE pass' = [pass EXCEPT !.at = @ + 1, !.writes = "outcomes"]
    <3>1. pass' \in [at : Nat, writes : {"none", "outcomes", "universe"}, asOf : Nat]
          /\ pass'.writes = "outcomes"
      <4> DEFINE onward == [pass EXCEPT !.at = pass.at + 1]
      <4>1. onward \in [at : Nat, writes : {"none", "outcomes", "universe"}, asOf : Nat]
        BY <1>0 DEF PassShape
      <4>2. pass' = [onward EXCEPT !.writes = "outcomes"]
        BY <2>3
      <4> HIDE DEF onward
      <4> QED BY <4>1, <4>2
    <3> QED BY <1>0, <1>b, <3>1 DEF PassShape, HalfInv
  <2> QED BY <1>b, <2>2, <2>3 DEF Onward
<1>4. CASE SkipHorizon
  BY <1>4, <1>a, <1>b DEF SkipHorizon, PostmortemInv
<1>5. CASE Interrupted
  BY <1>5, <1>a, <1>b DEF Interrupted, PostmortemInv
<1>6. CASE ReplaceSignalOutcomes
  <2> DEFINE r == Evaluated
             h == Lag
             slice == OutcomeRows(Evaluated, Lag, pass.asOf)
  <2>1. /\ signalOutcomes' = {o \in signalOutcomes : ~ (o.run = r /\ o.horizon = h)} \cup slice
        /\ pass' = [pass EXCEPT !.writes = "universe"]
        /\ torn' = torn \cup {<<r, h>>}
        /\ UNCHANGED <<runDay, closes, screened, universe>>
    BY <1>6 DEF ReplaceSignalOutcomes, ReplaceSlice
  <2>2. /\ pass' \in [at : Nat, writes : {"none", "outcomes", "universe"}, asOf : Nat]
        /\ pass'.at = pass.at /\ pass'.asOf = pass.asOf
    BY <2>1, <1>0 DEF PassShape
  <2>3. Lag' = h /\ Evaluated' = r
    BY <2>1, <2>2 DEF Lag, Evaluated, TargetTradingDay, BenchmarkDays, RunByDate
  <2>4. OutcomeRows(Evaluated, Lag, pass.asOf)' = slice
    BY <2>1, <2>2, <2>3 DEF OutcomeRows, HasReturn
  <2>5. \A o \in slice : o.run = r /\ o.horizon = h
    BY RowsTellOneStory
  <2> HIDE DEF slice, r, h
  <2>6. HalfInv'
    BY <2>1, <2>3, <2>4, <2>5 DEF HalfInv
  <2>7. StoriesInv'
    <3>1. ASSUME NEW o \in signalOutcomes', <<o.run, o.horizon>> \notin torn'
          PROVE  \E u \in universe' : SameStory(o, u)
      <4>1. o \in signalOutcomes /\ <<o.run, o.horizon>> \notin torn
        BY <2>1, <2>5, <3>1
      <4> QED BY <4>1, <1>0, <2>1 DEF StoriesInv
    <3>2. ASSUME NEW u \in universe', <<u.run, u.horizon>> \notin torn', u.decided = "candidate"
          PROVE  \E o \in signalOutcomes' : SameStory(o, u)
      <4>1. u \in universe /\ <<u.run, u.horizon>> \notin torn /\ <<u.run, u.horizon>> # <<r, h>>
        BY <2>1, <3>2
      <4>2. PICK o \in signalOutcomes : SameStory(o, u)
        BY <4>1, <3>2, <1>0 DEF StoriesInv
      <4>3. o \in signalOutcomes'
        BY <4>1, <4>2, <2>1 DEF SameStory
      <4> QED BY <4>2, <4>3
    <3> QED BY <3>1, <3>2 DEF StoriesInv
  <2> QED BY <1>0, <2>1, <2>2, <2>6, <2>7 DEF PostmortemInv, PassShape
<1>7. CASE ReplaceUniverseForwardReturns
  <2> DEFINE r == Evaluated
             h == Lag
             slice == ControlRows(Evaluated, Lag, pass.asOf)
             outcomes == OutcomeRows(Evaluated, Lag, pass.asOf)
  <2>1. /\ universe' = {u \in universe : ~ (u.run = r /\ u.horizon = h)} \cup slice
        /\ torn' = torn \ {<<r, h>>}
        /\ UNCHANGED signalOutcomes
        /\ pass.writes = "universe"
    BY <1>7 DEF ReplaceUniverseForwardReturns, ReplaceSlice
  <2>2. PassShape' /\ HalfInv'
    BY <1>7, <1>b DEF ReplaceUniverseForwardReturns
  <2>3. {o \in signalOutcomes : o.run = r /\ o.horizon = h} = outcomes
    BY <2>1, <1>0 DEF HalfInv
  <2>4. /\ \A u \in slice : u.run = r /\ u.horizon = h
        /\ \A o \in outcomes : \E u \in slice : SameStory(o, u)
        /\ \A u \in slice : u.decided = "candidate" => \E o \in outcomes : SameStory(o, u)
    BY RowsTellOneStory
  <2> HIDE DEF slice, outcomes, r, h
  <2>5. ASSUME NEW o \in signalOutcomes', <<o.run, o.horizon>> \notin torn'
        PROVE  \E u \in universe' : SameStory(o, u)
    <3>1. CASE o.run = r /\ o.horizon = h
      BY <2>1, <2>3, <2>4, <3>1
    <3>2. CASE ~(o.run = r /\ o.horizon = h)
      <4>1. <<o.run, o.horizon>> # <<r, h>>
        BY <3>2
      <4>2. o \in signalOutcomes /\ <<o.run, o.horizon>> \notin torn
        BY <4>1, <2>1, <2>5
      <4>3. PICK u \in universe : SameStory(o, u)
        BY <4>2, <1>0 DEF StoriesInv
      <4>4. u \in universe'
        BY <3>2, <4>3, <2>1 DEF SameStory
      <4> QED BY <4>3, <4>4
    <3> QED BY <3>1, <3>2
  <2>6. ASSUME NEW u \in universe', <<u.run, u.horizon>> \notin torn', u.decided = "candidate"
        PROVE  \E o \in signalOutcomes' : SameStory(o, u)
    <3>1. CASE u \in slice
      <4>1. PICK o \in outcomes : SameStory(o, u)
        BY <2>4, <2>6, <3>1
      <4> QED BY <4>1, <2>1, <2>3
    <3>2. CASE u \notin slice
      <4>1. u \in universe /\ ~(u.run = r /\ u.horizon = h)
        BY <2>1, <3>2
      <4>2. <<u.run, u.horizon>> # <<r, h>>
        BY <4>1
      <4>3. <<u.run, u.horizon>> \notin torn
        BY <4>2, <2>1, <2>6
      <4> QED BY <4>1, <4>3, <2>1, <2>6, <1>0 DEF StoriesInv
    <3> QED BY <3>1, <3>2
  <2> QED BY <2>2, <2>5, <2>6 DEF PostmortemInv, StoriesInv
<1>8. CASE UNCHANGED postmortemVars
  <2>1. UNCHANGED <<runDay, closes, screened, signalOutcomes, universe, pass, torn>>
    BY <1>8 DEF postmortemVars
  <2>2. Lag' = Lag /\ Evaluated' = Evaluated
    BY <2>1 DEF Lag, Evaluated, TargetTradingDay, BenchmarkDays, RunByDate
  <2>3. OutcomeRows(Evaluated, Lag, pass.asOf)' = OutcomeRows(Evaluated, Lag, pass.asOf)
    BY <2>1, <2>2 DEF OutcomeRows, HasReturn
  <2> QED BY <1>0, <1>a, <2>1, <2>2, <2>3 DEF PostmortemInv, PassShape, HalfInv
<1> QED BY <1>1, <1>2, <1>3, <1>4, <1>5, <1>6, <1>7, <1>8 DEF PostmortemNext

\* Outside a slice whose two replacements were cut apart, signal_outcomes and
\* universe_forward_returns tell of the same candidates, with the same sessions
\* and the classification of the same closes (postmortem/evaluate.py), through
\* requotes, late bars, failed and interrupted runs.
THEOREM TablesTellOneStory == PostmortemSpec => []TablesAgree
<1>1. PostmortemInit => PostmortemInv
  BY DEF PostmortemInit, PostmortemInv, PassShape, StoriesInv, HalfInv, NoPass
<1>2. PostmortemInv => TablesAgree
  <2> SUFFICES ASSUME PostmortemInv PROVE TablesAgree
    OBVIOUS
  <2> DEFINE Told(o) == <<o.run, o.symbol, o.horizon, o.asOf, o.class>>
             Shown(u) == <<u.run, u.symbol, u.horizon, u.asOf, ClassifyReturn(u.base, u.close)>>
             outcomes == {o \in signalOutcomes : <<o.run, o.horizon>> \notin torn}
             controls == {u \in {v \in universe : <<v.run, v.horizon>> \notin torn} : u.decided = "candidate"}
  <2>1. \A o, u : SameStory(o, u) => Told(o) = Shown(u)
    BY DEF SameStory
  <2>2. \A o \in outcomes : \E u \in controls : SameStory(o, u)
    <3> TAKE o \in outcomes
    <3>1. PICK u \in universe : SameStory(o, u)
      BY DEF PostmortemInv, StoriesInv
    <3>2. u \in controls
      BY <3>1 DEF SameStory
    <3> QED BY <3>1, <3>2
  <2>3. \A u \in controls : \E o \in outcomes : SameStory(o, u)
    <3> TAKE u \in controls
    <3>1. PICK o \in signalOutcomes : SameStory(o, u)
      BY DEF PostmortemInv, StoriesInv
    <3>2. o \in outcomes
      BY <3>1 DEF SameStory
    <3> QED BY <3>1, <3>2
  <2>4. TablesAgree <=> {Told(o) : o \in outcomes} = {Shown(u) : u \in controls}
    BY DEF TablesAgree
  <2> HIDE DEF Told, Shown, outcomes, controls
  <2> QED BY <2>1, <2>2, <2>3, <2>4
<1> QED BY <1>1, <1>2, PostmortemSteps, PTL DEF PostmortemSpec

(*********** DiffGate: what is selected, and what green says of it ***********)
\* Without origin/main, a commit on main is compared with itself.
BaseKnown == HasRemote \/ "main" \notin Branches

BranchInv == branch \in Branches

\* Whatever stage the work is at, a version the developer wrote is a change.
LEMMA WorkIsAChange ==
    ASSUME BaseKnown, BranchInv, NEW p \in Paths, Made(p)
    PROVE  p \in ChangedPaths
<1>1. worktree[p] # DiffBase[p]
  BY DEF BaseKnown, BranchInv, Made, DiffBase, ResolvedRef, MergeBase
<1>2. p \in Differs(DiffBase, head) \/ p \in Differs(head, index) \/ p \in Differs(index, worktree)
  BY <1>1 DEF Differs
<1> QED BY <1>2 DEF ChangedPaths, Made, Exists

\* A rule names tests that exist, and all of them when it names them all.
LEMMA ClassifiedTests ==
    ASSUME NEW p \in Paths, Exists(p)
    PROVE  /\ Classify(p).tests \subseteq Tests
           /\ Kind[p] \in {"package", "module"} => Importers(p) \subseteq Classify(p).tests
<1>1. /\ \A T : Only(T).tests = T
      /\ Everything.tests = Tests
  BY DEF Only, Everything
<1>2. \A T \in SUBSET Tests : OrEverything(T).tests \subseteq Tests /\ T \subseteq OrEverything(T).tests
  BY <1>1 DEF OrEverything
<1>3. Importers(p) \subseteq Tests /\ TestsOfPackage(p) \subseteq Tests
  BY DEF Importers, TestsOfPackage
<1>4. Kind[p] = "test" => p \in Tests
  BY DEF Tests
<1> HIDE DEF Only, Everything, OrEverything
<1>5. CASE Kind[p] = "test"
  BY <1>1, <1>4, <1>5 DEF Classify
<1>6. CASE Kind[p] = "test helper"
  BY <1>1, <1>3, <1>6 DEF Classify
<1>7. CASE Kind[p] = "package"
  BY <1>2, <1>3, <1>7 DEF Classify
<1>8. CASE Kind[p] = "module"
  BY <1>2, <1>3, <1>8 DEF Classify
<1>9. CASE Kind[p] = "script"
  BY <1>2, <1>9 DEF Classify
<1>10. CASE Kind[p] \in {"workflow", "shell", "docs"}
  BY <1>1, <1>10 DEF Classify
<1>11. CASE Kind[p] \notin {"test", "test helper", "package", "module", "script", "workflow", "shell", "docs"}
  BY <1>1, <1>11 DEF Classify
<1> QED BY <1>5, <1>6, <1>7, <1>8, <1>9, <1>10, <1>11

\* A selection is a set of tests, and holds the importers of every changed module.
LEMMA SelectedTests ==
    ASSUME NEW changed, changed \subseteq {q \in Paths : Exists(q)}
    PROVE  /\ Select(changed).tests \subseteq Tests
           /\ \A p \in changed \cap Source : Importers(p) \subseteq Select(changed).tests
<1> DEFINE rules == {Classify(p) : p \in changed}
           tests == (UNION {r.tests : r \in rules}) \cup (Tests \cap ContractTests)
                    \cup (IF changed \cap Source # {} THEN Tests \cap SmokeTests ELSE {})
           whole == (\E r \in rules : r.all) \/ Estimate(tests) > Budget
<1>1. Select(changed) = IF changed = {} THEN Only(Tests \cap SanityTests)
                        ELSE IF whole THEN Everything ELSE Only(tests)
  BY DEF Select
<1>0. \A p \in changed : Classify(p).tests \subseteq Tests
  BY ClassifiedTests
<1>2. tests \subseteq Tests
  <2> SUFFICES ASSUME NEW t \in tests PROVE t \in Tests
    OBVIOUS
  <2>1. ASSUME NEW r \in rules, t \in r.tests PROVE t \in Tests
    BY <1>0, <2>1
  <2>2. CASE changed \cap Source # {}
    BY <2>1, <2>2
  <2>3. CASE changed \cap Source = {}
    BY <2>1, <2>3
  <2> QED BY <2>2, <2>3
<1>3. \A p \in changed \cap Source : Importers(p) \subseteq tests
  BY ClassifiedTests DEF Source
<1>4. \A p : Importers(p) \subseteq Tests
  BY DEF Importers
<1>5. (\A T : Only(T).tests = T) /\ Everything.tests = Tests
  BY DEF Only, Everything
<1> HIDE DEF whole, tests
<1> QED BY <1>1, <1>2, <1>3, <1>4, <1>5

\* With a base to compare with, a green gate has run, on their latest contents,
\* every test file that imports a changed module and, if it could read the
\* coverage report, one that loads it.
THEOREM GreenMeansTested ==
    ASSUME BaseKnown
    PROVE  GateSpec => []GreenTestsTheWork
<1>1. GateInit => BranchInv
  BY DEF GateInit, BranchInv
<1>2. BranchInv /\ [GateNext]_gateVars => BranchInv'
  BY DEF BranchInv, GateNext, Edit, Stage, Fetch, Commit, MergeIntoMain, gateVars
<1>3. BranchInv => GreenTestsTheWork
  <2> SUFFICES ASSUME BranchInv, NEW reportRead \in BOOLEAN, Green(reportRead),
                      NEW p \in Source, Made(p)
               PROVE  /\ \A t \in Importers(p) : ~Fails(t)
                      /\ reportRead => \E t \in Tests : p \in Loaded(t) /\ ~Fails(t)
    BY DEF GreenTestsTheWork
  <2> DEFINE selected == Select(ChangedPaths).tests
  <2>1. p \in ChangedPaths \cap Source
    BY WorkIsAChange DEF Source
  <2>2. ChangedPaths \subseteq {q \in Paths : Exists(q)}
    BY DEF ChangedPaths, Differs
  <2>3. selected \subseteq Tests /\ Importers(p) \subseteq selected
    BY <2>1, <2>2, SelectedTests
  <2>4. /\ \A t \in selected : ~Fails(t)
        /\ reportRead => \E t \in selected : p \in Loaded(t)
    BY <2>1 DEF Green, Exercised
  <2> QED BY <2>3, <2>4
<1> QED BY <1>1, <1>2, <1>3, PTL DEF GateSpec

(************ StateSchema: init_schema over a file of any release ************)
\* Concatenation, as the list below needs it.
LEMMA Concatenated ==
    ASSUME NEW S, NEW a \in Seq(S), NEW b \in Seq(S)
    PROVE  /\ a \o b \in Seq(S)
           /\ Len(a \o b) = Len(a) + Len(b)
           /\ \A i \in 1..Len(a) : (a \o b)[i] = a[i]
           /\ \A i \in 1..Len(b) : (a \o b)[Len(a) + i] = b[i]
OBVIOUS

\* The statements of init_schema, one by one.
LEMMA StatementList ==
    /\ Len(Statements) = 21
    /\ Statements[1] = Add({"no_trade"})
    /\ Statements[2] = Fill({"no_trade"}, "no_trade")
    /\ Statements[3] = Add({"exhibit_truncated"})
    /\ Statements[4] = Add({"news_supply"})
    /\ Statements[5] = Add({"recommendation"})
    /\ Statements[6] = Fill({"recommendation"}, "recommendation")
    /\ Statements[7] = Add({"max_hold_days"})
    /\ Statements[8] = Fill({"max_hold_days"}, "max_hold_days")
    /\ Statements[9] = Add({"benchmark_return"})
    /\ Statements[10] = Add({"score"})
    /\ Statements[11] = Add({"execution_state"})
    /\ Statements[12] = Fill({"score"}, "score")
    /\ Statements[13] = Add({"pivot_proximity"})
    /\ Statements[14] = Add({"dd15"})
    /\ Statements[15] = Add({"spy_close"})
    /\ Statements[16] = Add({"spy_sma200"})
    /\ Statements[17] = Fill({"dd15", "spy_close"}, "dd15")
    /\ Statements[18] = Add({"multiplier"})
    /\ Statements[19] = Fill({"multiplier"}, "multiplier")
    /\ Statements[20] = [kind |-> "views"]
    /\ Statements[21] = [kind |-> "reasons"]
<1> DEFINE P == PositionStatements
           C == CandidateStatements
           R == RegimeStatements
           E == ExposureStatements
           T == <<[kind |-> "views"], [kind |-> "reasons"]>>
           S == {Add({"no_trade"})} \cup {P[i] : i \in 1..9} \cup {C[i] : i \in 1..4}
                \cup {R[i] : i \in 1..4} \cup {E[i] : i \in 1..2} \cup {T[i] : i \in 1..2}
<1>1. /\ Len(P) = 9 /\ Len(C) = 4 /\ Len(R) = 4 /\ Len(E) = 2 /\ Len(T) = 2
  BY DEF PositionStatements, CandidateStatements, RegimeStatements, ExposureStatements
<1>2. P \in Seq(S) /\ C \in Seq(S) /\ R \in Seq(S) /\ E \in Seq(S) /\ T \in Seq(S)
  BY DEF PositionStatements, CandidateStatements, RegimeStatements, ExposureStatements
<1>3. Statements = P \o C \o R \o E \o T
  BY DEF Statements
<1>4. /\ P[1] = Add({"no_trade"})
      /\ P[2] = Fill({"no_trade"}, "no_trade")
      /\ P[3] = Add({"exhibit_truncated"})
      /\ P[4] = Add({"news_supply"})
      /\ P[5] = Add({"recommendation"})
      /\ P[6] = Fill({"recommendation"}, "recommendation")
      /\ P[7] = Add({"max_hold_days"})
      /\ P[8] = Fill({"max_hold_days"}, "max_hold_days")
      /\ P[9] = Add({"benchmark_return"})
  BY DEF PositionStatements
<1>5. /\ C[1] = Add({"score"})
      /\ C[2] = Add({"execution_state"})
      /\ C[3] = Fill({"score"}, "score")
      /\ C[4] = Add({"pivot_proximity"})
  BY DEF CandidateStatements
<1>6. /\ R[1] = Add({"dd15"})
      /\ R[2] = Add({"spy_close"})
      /\ R[3] = Add({"spy_sma200"})
      /\ R[4] = Fill({"dd15", "spy_close"}, "dd15")
  BY DEF RegimeStatements
<1>7. /\ E[1] = Add({"multiplier"})
      /\ E[2] = Fill({"multiplier"}, "multiplier")
      /\ T[1] = [kind |-> "views"]
      /\ T[2] = [kind |-> "reasons"]
  BY DEF ExposureStatements
<1> HIDE DEF P, C, R, E, T, S
<1> DEFINE PC == P \o C
           PCR == PC \o R
           PCRE == PCR \o E
<1>8. /\ PC \in Seq(S) /\ Len(PC) = 13
      /\ \A i \in 1..9 : PC[i] = P[i]
      /\ \A i \in 1..4 : PC[9 + i] = C[i]
  <2>1. /\ PC \in Seq(S) /\ Len(PC) = Len(P) + Len(C)
        /\ \A i \in 1..Len(P) : PC[i] = P[i]
        /\ \A i \in 1..Len(C) : PC[Len(P) + i] = C[i]
    BY <1>2, Concatenated
  <2> HIDE DEF PC
  <2> QED BY <1>1, <2>1
<1> HIDE DEF PC
<1>9. /\ PCR \in Seq(S) /\ Len(PCR) = 17
      /\ \A i \in 1..13 : PCR[i] = PC[i]
      /\ \A i \in 1..4 : PCR[13 + i] = R[i]
  <2>0. PC \in Seq(S)
    BY <1>8
  <2>1. /\ PCR \in Seq(S) /\ Len(PCR) = Len(PC) + Len(R)
        /\ \A i \in 1..Len(PC) : PCR[i] = PC[i]
        /\ \A i \in 1..Len(R) : PCR[Len(PC) + i] = R[i]
    BY <2>0, <1>2, Concatenated
  <2> HIDE DEF PCR
  <2> QED BY <1>1, <2>1, <1>8
<1> HIDE DEF PCR
<1>10. /\ PCRE \in Seq(S) /\ Len(PCRE) = 19
       /\ \A i \in 1..17 : PCRE[i] = PCR[i]
       /\ \A i \in 1..2 : PCRE[17 + i] = E[i]
  <2>0. PCR \in Seq(S)
    BY <1>9
  <2>1. /\ PCRE \in Seq(S) /\ Len(PCRE) = Len(PCR) + Len(E)
        /\ \A i \in 1..Len(PCR) : PCRE[i] = PCR[i]
        /\ \A i \in 1..Len(E) : PCRE[Len(PCR) + i] = E[i]
    BY <2>0, <1>2, Concatenated
  <2> HIDE DEF PCRE
  <2> QED BY <1>1, <2>1, <1>9
<1> HIDE DEF PCRE
<1>11. Statements = PCRE \o T
  BY <1>3 DEF PC, PCR, PCRE
<1>12. /\ Len(Statements) = 21
       /\ \A i \in 1..19 : Statements[i] = PCRE[i]
       /\ \A i \in 1..2 : Statements[19 + i] = T[i]
  <2>0. PCRE \in Seq(S)
    BY <1>10
  <2>1. /\ Statements \in Seq(S) /\ Len(Statements) = Len(PCRE) + Len(T)
        /\ \A i \in 1..Len(PCRE) : Statements[i] = PCRE[i]
        /\ \A i \in 1..Len(T) : Statements[Len(PCRE) + i] = T[i]
    BY <2>0, <1>2, <1>11, Concatenated
  <2> QED BY <1>1, <2>1, <1>10
<1>13. /\ \A i \in 1..9 : Statements[i] = P[i]
       /\ \A i \in 1..4 : Statements[9 + i] = C[i]
       /\ \A i \in 1..4 : Statements[13 + i] = R[i]
       /\ \A i \in 1..2 : Statements[17 + i] = E[i]
  <2>1. \A i \in 1..9 : Statements[i] = P[i]
    <3> TAKE i \in 1..9
    <3>1. i \in 1..19 /\ i \in 1..17 /\ i \in 1..13
      OBVIOUS
    <3>2. Statements[i] = PCRE[i]
      BY <3>1, <1>12
    <3>3. PCRE[i] = PCR[i]
      BY <3>1, <1>10
    <3>4. PCR[i] = PC[i]
      BY <3>1, <1>9
    <3>5. PC[i] = P[i]
      BY <1>8
    <3> QED BY <3>2, <3>3, <3>4, <3>5
  <2>2. \A i \in 1..4 : Statements[9 + i] = C[i]
    <3> TAKE i \in 1..4
    <3>1. 9 + i \in 1..19 /\ 9 + i \in 1..17 /\ 9 + i \in 1..13
      OBVIOUS
    <3>2. Statements[9 + i] = PCRE[9 + i]
      BY <3>1, <1>12
    <3>3. PCRE[9 + i] = PCR[9 + i]
      BY <3>1, <1>10
    <3>4. PCR[9 + i] = PC[9 + i]
      BY <3>1, <1>9
    <3>5. PC[9 + i] = C[i]
      BY <1>8
    <3> QED BY <3>2, <3>3, <3>4, <3>5
  <2>3. \A i \in 1..4 : Statements[13 + i] = R[i]
    <3> TAKE i \in 1..4
    <3>1. 13 + i \in 1..19 /\ 13 + i \in 1..17
      OBVIOUS
    <3>2. Statements[13 + i] = PCRE[13 + i]
      BY <3>1, <1>12
    <3>3. PCRE[13 + i] = PCR[13 + i]
      BY <3>1, <1>10
    <3>4. PCR[13 + i] = R[i]
      BY <1>9
    <3> QED BY <3>2, <3>3, <3>4
  <2>4. \A i \in 1..2 : Statements[17 + i] = E[i]
    <3> TAKE i \in 1..2
    <3>1. 17 + i \in 1..19
      OBVIOUS
    <3>2. Statements[17 + i] = PCRE[17 + i]
      BY <3>1, <1>12
    <3>3. PCRE[17 + i] = E[i]
      BY <1>10
    <3> QED BY <3>2, <3>3
  <2> QED BY <2>1, <2>2, <2>3, <2>4
<1>14. /\ Statements[10] = C[1] /\ Statements[11] = C[2] /\ Statements[12] = C[3] /\ Statements[13] = C[4]
       /\ Statements[14] = R[1] /\ Statements[15] = R[2] /\ Statements[16] = R[3] /\ Statements[17] = R[4]
       /\ Statements[18] = E[1] /\ Statements[19] = E[2]
       /\ Statements[20] = T[1] /\ Statements[21] = T[2]
  BY <1>12, <1>13
<1>15. /\ Statements[1] = P[1] /\ Statements[2] = P[2] /\ Statements[3] = P[3]
       /\ Statements[4] = P[4] /\ Statements[5] = P[5] /\ Statements[6] = P[6]
       /\ Statements[7] = P[7] /\ Statements[8] = P[8] /\ Statements[9] = P[9]
  BY <1>13
<1> QED BY <1>4, <1>5, <1>6, <1>7, <1>12, <1>14, <1>15
-----------------------------------------------------------------------------
\* What every row keeps, whatever release wrote it and however far it was migrated.
RowInv(row) ==
    /\ row = [fact |-> row.fact, release |-> row.release, horizons |-> row.horizons,
              cell |-> row.cell, json |-> row.json, reasonRows |-> row.reasonRows]
    /\ row.release \in 0..Current
    /\ row.fact \in RunFacts[row.release]
    /\ \A c \in InJson : row.json[c] = row.fact[c]
    /\ \A c \in Columns : row.cell[c] \in {NULL, row.fact[c]}
    /\ \A c \in Columns : Since[c] <= row.release => row.cell[c] = row.fact[c]
    /\ row.cell["dd15"] # NULL => row.cell["spy_close"] = row.fact["spy_close"]
    /\ row.reasonRows \in {0, row.fact.reasons}
    /\ row.horizons \subseteq {5, 20}

\* What a statement of init_schema leaves behind.
Established(k) ==
    LET s == Statements[k]
    IN  /\ s.kind = "add" => s.names \subseteq columns
        /\ s.kind = "fill" => \A r \in DOMAIN rows : \A c \in s.names : rows[r].cell[c] = rows[r].fact[c]
        /\ s.kind = "views" => views
        /\ s.kind = "reasons" => \A r \in DOMAIN rows : rows[r].reasonRows = rows[r].fact.reasons

SchemaInv ==
    /\ columns \subseteq Columns
    /\ rows = [r \in DOMAIN rows |-> rows[r]]
    /\ \A r \in DOMAIN rows : RowInv(rows[r])
    /\ next \in 0..21
    /\ next # 0 => \A k \in 1..21 : k < next => Established(k)
    /\ views => \A k \in 1..19 : Established(k)
    /\ ready => next = 0 /\ \A k \in 1..21 : Established(k)

Rebuilt(row, cell, horizons, reasonRows) ==
    [fact |-> row.fact, release |-> row.release, horizons |-> horizons,
     cell |-> cell, json |-> row.json, reasonRows |-> reasonRows]

\* A row lost nothing a migration had restored, or has everything.
Kept(old, new) ==
    /\ new.fact = old.fact
    /\ \A c \in Backfilled : old.cell[c] = old.fact[c] => new.cell[c] = new.fact[c]
    /\ old.reasonRows = old.fact.reasons => new.reasonRows = new.fact.reasons
Whole(row) ==
    /\ \A c \in Backfilled : row.cell[c] = row.fact[c]
    /\ row.reasonRows = row.fact.reasons
-----------------------------------------------------------------------------
\* The columns, when they came, and how they are filled.
LEMMA ColumnFacts ==
    /\ \A c \in Columns : Since[c] \in 0..5
    /\ DOMAIN OnlyValue = {"no_trade", "recommendation", "max_hold_days"}
    /\ Backfilled \subseteq Columns
    /\ \A c \in Backfilled : c \in DOMAIN OnlyValue \/ c \in InJson
    /\ \A c \in Backfilled : c \notin VerdictColumns /\ c \notin OutcomeColumns
    /\ InJson \subseteq Columns
    /\ "dd15" \in Columns /\ "spy_close" \in Columns
    /\ "dd15" \notin VerdictColumns /\ "spy_close" \notin VerdictColumns
    /\ "dd15" \notin OutcomeColumns /\ "spy_close" \notin OutcomeColumns
    /\ Since["dd15"] = 3 /\ Since["spy_close"] = 3 /\ Since["pivot_proximity"] = 4
    /\ "dd15" \in InJson /\ "spy_close" \in InJson
    /\ "dd15" \in Backfilled /\ "spy_close" \in Backfilled
    /\ \A c \in InJson : c = "pivot_proximity" \/ c \in Backfilled
BY DEF Columns, PositionColumns, VerdictColumns, OutcomeColumns, CandidateColumns,
       SnapshotColumns, Since, OnlyValue, Backfilled, InJson

\* What each statement of the list can be.
LEMMA StatementKinds ==
    ASSUME NEW k \in 1..21, NEW s, s = Statements[k]
    PROVE  /\ s.kind \in {"add", "fill", "views", "reasons"}
           /\ s.kind = "add" => s.names \subseteq Columns
           /\ s.kind = "fill" =>
                 /\ s.guard \in Backfilled
                 /\ \/ s.names = {s.guard} /\ s.guard # "dd15"
                    \/ s.names = {"dd15", "spy_close"} /\ s.guard = "dd15"
           /\ s.kind = "views" <=> k = 20
<1>1. \A names : Add(names).kind = "add" /\ Add(names).names = names
  BY DEF Add
<1>2. \A names, guard : Fill(names, guard).kind = "fill" /\ Fill(names, guard).names = names
                        /\ Fill(names, guard).guard = guard
  BY DEF Fill
<1>3. {"no_trade", "recommendation", "max_hold_days", "score", "dd15", "multiplier"} \subseteq Backfilled
  BY DEF Backfilled, OnlyValue
<1>4. {"no_trade", "exhibit_truncated", "news_supply", "recommendation", "max_hold_days",
       "benchmark_return", "score", "execution_state", "pivot_proximity", "dd15", "spy_close",
       "spy_sma200", "multiplier"} \subseteq Columns
  BY DEF Columns, PositionColumns, VerdictColumns, OutcomeColumns, CandidateColumns, SnapshotColumns
<1>5. CASE k \in {1, 3, 4, 5, 7, 9, 10, 11, 13, 14, 15, 16, 18}
  <2>1. \E c \in Columns : s = Add({c})
    BY <1>4, <1>5, StatementList
  <2> QED BY <2>1, <1>1, <1>5
<1>6. CASE k \in {2, 6, 8, 12, 19}
  <2>1. \E c \in Backfilled \ {"dd15"} : s = Fill({c}, c)
    BY <1>3, <1>6, StatementList
  <2> QED BY <2>1, <1>2, <1>6
<1>7. CASE k = 17
  <2>1. s = Fill({"dd15", "spy_close"}, "dd15")
    BY <1>7, StatementList
  <2> QED BY <2>1, <1>2, <1>3, <1>7
<1>8. CASE k \in {20, 21}
  BY <1>8, StatementList
<1> QED BY <1>5, <1>6, <1>7, <1>8

\* What a fill writes is what the run saw: its only value then, or its JSON's.
LEMMA FillValueIsTheFact ==
    ASSUME NEW e \in 0..Current, NEW f \in RunFacts[e], NEW json, NEW c \in Backfilled,
           c \in InJson => json[c] = f[c], c \in DOMAIN OnlyValue => e < Since[c]
    PROVE  FillValue(json, c) = f[c]
<1>1. CASE c \in DOMAIN OnlyValue
  BY <1>1, SchemaFacts DEF FillValue
<1>2. CASE c \notin DOMAIN OnlyValue
  BY <1>2, ColumnFacts DEF FillValue
<1> QED BY <1>1, <1>2

\* A row of release e in a file of release d.
LEMMA RowAsWritten ==
    ASSUME NEW e \in 0..Current, NEW d \in 0..Current, e <= d, NEW f \in RunFacts[e]
    PROVE  /\ RowInv(RowOf(f, e, d))
           /\ d = Current => Whole(RowOf(f, e, d))
<1> DEFINE row == RowOf(f, e, d)
           cell == [c \in Columns |->
                      CASE Since[c] <= e -> f[c]
                        [] e < Since[c] /\ Since[c] <= d /\ c \in Backfilled -> FillValue(f, c)
                        [] OTHER -> NULL]
           json == [c \in InJson |-> f[c]]
           reasonRows == IF Reasons <= d THEN f.reasons ELSE 0
<1>1. row = [fact |-> f, release |-> e, horizons |-> {}, cell |-> cell, json |-> json,
             reasonRows |-> reasonRows]
  BY DEF RowOf
<1>2. \A c \in Backfilled : e < Since[c] => FillValue(f, c) = f[c]
  BY FillValueIsTheFact
<1>4. \A c \in Columns : Since[c] \in Nat /\ e \in Nat /\ d \in Nat
  BY ColumnFacts DEF Current
<1>3. \A c \in Columns : Since[c] <= e => cell[c] = f[c]
  BY <1>4
<1>5. \A c \in Columns : e < Since[c] /\ Since[c] <= d /\ c \in Backfilled => cell[c] = f[c]
  BY <1>2, <1>4
<1>6. \A c \in Columns : e < Since[c] /\ ~ (Since[c] <= d /\ c \in Backfilled) => cell[c] = NULL
  BY <1>4
<1> HIDE DEF cell, json, reasonRows
<1>7. \A c \in Columns : cell[c] \in {NULL, f[c]}
  BY <1>3, <1>4, <1>5, <1>6
<1>8. cell["dd15"] # NULL => cell["spy_close"] = f["spy_close"]
  BY <1>3, <1>4, <1>5, <1>6, ColumnFacts
<1>9. \A c \in InJson : json[c] = f[c]
  BY DEF json
<1>10. reasonRows \in {0, f.reasons} /\ (d = Current => reasonRows = f.reasons)
  BY DEF reasonRows, Reasons, Current
<1>11. RowInv(row)
  BY <1>1, <1>3, <1>7, <1>8, <1>9, <1>10 DEF RowInv
<1>12. d = Current => Whole(row)
  BY <1>1, <1>3, <1>4, <1>5, <1>10, ColumnFacts DEF Whole, Current
<1> QED BY <1>11, <1>12

\* Replacing cells and reason rows by no less keeps a row's invariant.
LEMMA RowRebuilt ==
    ASSUME NEW row, RowInv(row), NEW cell, NEW horizons, NEW reasonRows,
           \A c \in Columns : cell[c] \in {NULL, row.fact[c]},
           \A c \in Columns : Since[c] <= row.release => cell[c] = row.fact[c],
           \A c \in Backfilled : row.cell[c] = row.fact[c] => cell[c] = row.fact[c],
           cell["dd15"] # NULL => cell["spy_close"] = row.fact["spy_close"],
           reasonRows \in {0, row.fact.reasons},
           row.reasonRows = row.fact.reasons => reasonRows = row.fact.reasons,
           horizons \subseteq {5, 20}
    PROVE  LET new == Rebuilt(row, cell, horizons, reasonRows)
           IN  RowInv(new) /\ Kept(row, new) /\ new.cell = cell /\ new.reasonRows = reasonRows
                /\ new.fact = row.fact
<1> DEFINE new == Rebuilt(row, cell, horizons, reasonRows)
<1>1. /\ new.fact = row.fact /\ new.release = row.release /\ new.horizons = horizons
      /\ new.cell = cell /\ new.json = row.json /\ new.reasonRows = reasonRows
      /\ new = [fact |-> new.fact, release |-> new.release, horizons |-> new.horizons,
                cell |-> new.cell, json |-> new.json, reasonRows |-> new.reasonRows]
  BY DEF Rebuilt
<1> HIDE DEF new
<1>2. RowInv(new)
  BY <1>1 DEF RowInv
<1>3. Kept(row, new)
  BY <1>1 DEF Kept
<1> QED BY <1>1, <1>2, <1>3 DEF new

\* Setting two fields of a row, spelled out.
LEMMA RowMatured ==
    ASSUME NEW row, RowInv(row), NEW cell, NEW horizons
    PROVE  [row EXCEPT !.horizons = horizons, !.cell = cell]
             = Rebuilt(row, cell, horizons, row.reasonRows)
<1>1. row = [fact |-> row.fact, release |-> row.release, horizons |-> row.horizons,
             cell |-> row.cell, json |-> row.json, reasonRows |-> row.reasonRows]
  BY DEF RowInv
<1>2. PICK a, b, c, d, e, g : row = [fact |-> a, release |-> b, horizons |-> c,
                                    cell |-> d, json |-> e, reasonRows |-> g]
  BY <1>1
<1>3. row.fact = a /\ row.release = b /\ row.horizons = c /\ row.json = e /\ row.reasonRows = g
  BY <1>2
<1> DEFINE mid == [row EXCEPT !.horizons = horizons]
<1>5. mid = [fact |-> a, release |-> b, horizons |-> horizons, cell |-> d, json |-> e, reasonRows |-> g]
  BY <1>2
<1>6. [row EXCEPT !.horizons = horizons, !.cell = cell] = [mid EXCEPT !.cell = cell]
  OBVIOUS
<1> HIDE DEF mid
<1>7. [mid EXCEPT !.cell = cell]
        = [fact |-> a, release |-> b, horizons |-> horizons, cell |-> cell, json |-> e, reasonRows |-> g]
  BY <1>5
<1> QED BY <1>3, <1>6, <1>7 DEF Rebuilt

\* The same for the fields a collection sets.
LEMMA RowRecollected ==
    ASSUME NEW row, RowInv(row), NEW cell, NEW reasonRows
    PROVE  [row EXCEPT !.cell = cell, !.reasonRows = reasonRows]
             = Rebuilt(row, cell, row.horizons, reasonRows)
<1>1. row = [fact |-> row.fact, release |-> row.release, horizons |-> row.horizons,
             cell |-> row.cell, json |-> row.json, reasonRows |-> row.reasonRows]
  BY DEF RowInv
<1>2. PICK a, b, c, d, e, g : row = [fact |-> a, release |-> b, horizons |-> c,
                                    cell |-> d, json |-> e, reasonRows |-> g]
  BY <1>1
<1>3. row.fact = a /\ row.release = b /\ row.horizons = c /\ row.json = e /\ row.reasonRows = g
  BY <1>2
<1> DEFINE mid == [row EXCEPT !.cell = cell]
<1>5. mid = [fact |-> a, release |-> b, horizons |-> c, cell |-> cell, json |-> e, reasonRows |-> g]
  BY <1>2
<1>6. [row EXCEPT !.cell = cell, !.reasonRows = reasonRows] = [mid EXCEPT !.reasonRows = reasonRows]
  OBVIOUS
<1> HIDE DEF mid
<1>7. [mid EXCEPT !.reasonRows = reasonRows]
        = [fact |-> a, release |-> b, horizons |-> c, cell |-> cell, json |-> e, reasonRows |-> reasonRows]
  BY <1>5
<1> QED BY <1>3, <1>6, <1>7 DEF Rebuilt

\* What a statement left is there for good: no later write takes it away.
LEMMA EstablishedStays ==
    ASSUME columns \subseteq columns', views => views',
           \A r \in DOMAIN rows' : \/ r \in DOMAIN rows /\ Kept(rows[r], rows'[r])
                                  \/ Whole(rows'[r]),
           NEW k \in 1..21, Established(k)
    PROVE  Established(k)'
<1> DEFINE s == Statements[k]
<1>1. s.kind = "fill" => s.names \subseteq Backfilled
  BY StatementKinds, ColumnFacts
<1>2. s.kind = "fill" => \A r \in DOMAIN rows' : \A c \in s.names : rows'[r].cell[c] = rows'[r].fact[c]
  BY <1>1 DEF Established, Kept, Whole
<1>3. s.kind = "reasons" => \A r \in DOMAIN rows' : rows'[r].reasonRows = rows'[r].fact.reasons
  BY DEF Established, Kept, Whole
<1> QED BY <1>2, <1>3 DEF Established

\* The guard of a fill tells whether its columns are still empty.
LEMMA FillRow ==
    ASSUME NEW k \in 1..21, NEW s, s = Statements[k], s.kind = "fill", NEW r,
           RowInv(rows[r])
    PROVE  LET new == IF Unfilled(r, s.guard) THEN Filled(r, s.names) ELSE rows[r]
           IN  RowInv(new) /\ Kept(rows[r], new) /\ \A c \in s.names : new.cell[c] = new.fact[c]
<1> DEFINE row == rows[r]
           e == row.release
           cell == [c \in Columns |-> IF c \in s.names THEN FillValue(row.json, c) ELSE row.cell[c]]
<1>1. /\ s.guard \in Backfilled
      /\ \/ s.names = {s.guard} /\ s.guard # "dd15"
         \/ s.names = {"dd15", "spy_close"} /\ s.guard = "dd15"
  BY StatementKinds
<1>2. CASE Unfilled(r, s.guard)
  <2>1. \A c \in s.names : c \in Backfilled
    BY <1>1, ColumnFacts
  <2>2. row.cell[s.guard] = NULL
    BY <1>2 DEF Unfilled
  <2>3. \A c \in s.names : c \in DOMAIN OnlyValue => e < Since[c]
    <3> SUFFICES ASSUME NEW c \in s.names, c \in DOMAIN OnlyValue PROVE e < Since[c]
      OBVIOUS
    <3>1. c = s.guard /\ c \in Columns
      BY <1>1, <2>1, ColumnFacts
    <3>2. row.fact[c] # NULL
      BY SchemaFacts DEF RowInv
    <3>3. row.cell[c] # row.fact[c]
      BY <2>2, <3>1, <3>2
    <3>4. Since[c] \in Nat /\ e \in Nat
      BY <3>1, ColumnFacts DEF RowInv, Current
    <3> QED BY <3>1, <3>3, <3>4 DEF RowInv
  <2>4. \A c \in s.names : FillValue(row.json, c) = row.fact[c]
    BY <2>1, <2>3, FillValueIsTheFact, ColumnFacts DEF RowInv
  <2>5. \A c \in s.names : c \in Columns /\ cell[c] = row.fact[c]
    BY <2>1, <2>4, ColumnFacts
  <2>6. \A c \in Columns : c \notin s.names => cell[c] = row.cell[c]
    OBVIOUS
  <2>7. Filled(r, s.names) = Rebuilt(row, cell, row.horizons, row.reasonRows)
    BY DEF Filled, Rebuilt, RowInv
  <2> HIDE DEF cell
  <2>8. cell["dd15"] # NULL => cell["spy_close"] = row.fact["spy_close"]
    BY <1>1, <2>5, <2>6, ColumnFacts DEF RowInv
  <2>9. /\ \A c \in Columns : cell[c] \in {NULL, row.fact[c]}
        /\ \A c \in Columns : Since[c] <= row.release => cell[c] = row.fact[c]
        /\ \A c \in Backfilled : row.cell[c] = row.fact[c] => cell[c] = row.fact[c]
    BY <2>5, <2>6, ColumnFacts DEF RowInv
  <2>10. row.reasonRows \in {0, row.fact.reasons} /\ row.horizons \subseteq {5, 20}
    BY DEF RowInv
  <2> DEFINE new == Rebuilt(row, cell, row.horizons, row.reasonRows)
  <2>11. RowInv(new) /\ Kept(row, new) /\ new.cell = cell /\ new.fact = row.fact
    BY <2>8, <2>9, <2>10, RowRebuilt
  <2> QED BY <1>2, <2>5, <2>7, <2>11
<1>3. CASE ~Unfilled(r, s.guard)
  <2>1. \A c \in s.names : row.cell[c] = row.fact[c]
    BY <1>1, <1>3, ColumnFacts DEF Unfilled, RowInv
  <2> QED BY <1>3, <2>1 DEF Kept
<1> QED BY <1>2, <1>3

\* The reason rows are projected once, and completely.
LEMMA ProjectRow ==
    ASSUME NEW r, RowInv(rows[r])
    PROVE  /\ RowInv(Projected(r)) /\ Kept(rows[r], Projected(r))
           /\ Projected(r).reasonRows = Projected(r).fact.reasons
<1>1. CASE rows[r].reasonRows = 0
  <2> DEFINE row == rows[r]
             new == Rebuilt(row, row.cell, row.horizons, row.fact.reasons)
  <2>1. Projected(r) = new
    BY <1>1 DEF Projected, Rebuilt, RowInv
  <2>2. /\ \A c \in Columns : row.cell[c] \in {NULL, row.fact[c]}
        /\ \A c \in Columns : Since[c] <= row.release => row.cell[c] = row.fact[c]
        /\ row.cell["dd15"] # NULL => row.cell["spy_close"] = row.fact["spy_close"]
        /\ row.horizons \subseteq {5, 20}
    BY DEF RowInv
  <2>3. RowInv(new) /\ Kept(row, new) /\ new.reasonRows = row.fact.reasons /\ new.fact = row.fact
    <3> HIDE DEF row
    <3> QED BY <2>2, RowRebuilt DEF row
  <2> HIDE DEF new
  <2> QED BY <2>1, <2>3
<1>2. CASE rows[r].reasonRows # 0
  BY <1>2 DEF Projected, RowInv, Kept
<1> QED BY <1>1, <1>2

\* Executing a statement establishes it.
LEMMA Executed ==
    ASSUME SchemaInv, NEW k \in 1..21, Execute(Statements[k])
    PROVE  /\ columns \subseteq columns' /\ columns' \subseteq Columns
           /\ rows' = [r \in DOMAIN rows' |-> rows'[r]] /\ DOMAIN rows' = DOMAIN rows
           /\ \A r \in DOMAIN rows : RowInv(rows'[r]) /\ Kept(rows[r], rows'[r])
           /\ views => views'
           /\ views' => views \/ k = 20
           /\ Established(k)'
<1> DEFINE s == Statements[k]
<1>1. \A r \in DOMAIN rows : RowInv(rows[r]) /\ Kept(rows[r], rows[r])
  BY DEF SchemaInv, Kept
<1>2. CASE s.kind = "add"
  <2>1. columns' = columns \cup s.names /\ rows' = rows /\ views' = views
    BY <1>2 DEF Execute
  <2> QED BY <1>1, <1>2, <2>1, StatementKinds DEF SchemaInv, Established
<1>3. CASE s.kind = "fill"
  <2>1. /\ rows' = [r \in DOMAIN rows |-> IF Unfilled(r, s.guard) THEN Filled(r, s.names) ELSE rows[r]]
        /\ columns' = columns /\ views' = views
    BY <1>3 DEF Execute
  <2>2. \A r \in DOMAIN rows : RowInv(rows'[r]) /\ Kept(rows[r], rows'[r])
                              /\ \A c \in s.names : rows'[r].cell[c] = rows'[r].fact[c]
    BY <1>1, <1>3, <2>1, FillRow
  <2>3. Established(k)'
    BY <1>3, <2>1, <2>2 DEF Established
  <2> QED BY <2>1, <2>2, <2>3 DEF SchemaInv
<1>4. CASE s.kind = "views"
  <2>1. views' = TRUE /\ columns' = columns /\ rows' = rows
    BY <1>4 DEF Execute
  <2> QED BY <1>1, <1>4, <2>1, StatementKinds DEF SchemaInv, Established
<1>5. CASE s.kind = "reasons"
  <2>1. rows' = [r \in DOMAIN rows |-> Projected(r)] /\ columns' = columns /\ views' = views
    BY <1>5 DEF Execute
  <2>2. \A r \in DOMAIN rows : RowInv(rows'[r]) /\ Kept(rows[r], rows'[r])
                              /\ rows'[r].reasonRows = rows'[r].fact.reasons
    BY <1>1, <2>1, ProjectRow
  <2>3. Established(k)'
    BY <1>5, <2>1, <2>2 DEF Established
  <2> QED BY <2>1, <2>2, <2>3 DEF SchemaInv
<1> QED BY <1>2, <1>3, <1>4, <1>5, StatementKinds

\* A file that some release left satisfies the invariant.
LEMMA SchemaStarts == SchemaInit => SchemaInv
<1> SUFFICES ASSUME SchemaInit PROVE SchemaInv
  OBVIOUS
<1>1. PICK e \in 0..Current, kept \in SUBSET Runs :
         /\ columns = {c \in Columns : Since[c] <= e}
         /\ views = (e = Current)
         /\ rows \in [kept -> UNION {{RowOf(f, d, e) : f \in RunFacts[d]} : d \in 0..e}]
  BY DEF SchemaInit
<1>2. next = 0 /\ ready = FALSE
  BY DEF SchemaInit
<1>3. ASSUME NEW r \in DOMAIN rows
      PROVE  RowInv(rows[r]) /\ (e = Current => Whole(rows[r]))
  <2>1. PICK d \in 0..e : \E f \in RunFacts[d] : rows[r] = RowOf(f, d, e)
    BY <1>1, <1>3
  <2>2. d \in 0..Current /\ d <= e
    BY DEF Current
  <2> QED BY <2>1, <2>2, RowAsWritten
<1>4. ASSUME views, NEW k \in 1..19 PROVE Established(k)
  <2>1. e = Current
    BY <1>1, <1>4
  <2>2. columns = Columns
    BY <1>1, <2>1, ColumnFacts DEF Current
  <2>3. k \in 1..21 /\ k # 20
    OBVIOUS
  <2>4. Statements[k].kind = "fill" => Statements[k].names \subseteq Backfilled
    BY <2>3, StatementKinds, ColumnFacts
  <2>5. Statements[k].kind = "add" => Statements[k].names \subseteq columns
    BY <2>2, <2>3, StatementKinds
  <2> QED BY <1>3, <1>4, <2>1, <2>4, <2>5 DEF Established, Whole
<1> QED BY <1>1, <1>2, <1>3, <1>4 DEF SchemaInv

\* A step that leaves the statement counter, the views and the columns alone and
\* loses nothing of a row that a migration restored.
LEMMA RowsStay ==
    ASSUME SchemaInv, columns' = columns, views' = views,
           rows' = [r \in DOMAIN rows' |-> rows'[r]],
           \A r \in DOMAIN rows' : RowInv(rows'[r]),
           \A r \in DOMAIN rows' : \/ r \in DOMAIN rows /\ Kept(rows[r], rows'[r])
                                  \/ Whole(rows'[r]),
           next' = next \/ next' = 0,
           next' # 0 => next' = next,
           ready' => ready /\ next' = 0
    PROVE  SchemaInv'
<1>1. \A k \in 1..21 : Established(k) => Established(k)'
  BY EstablishedStays
<1> QED BY <1>1 DEF SchemaInv

\* Every statement of init_schema and every later write keeps it.
LEMMA SchemaSteps == SchemaInv /\ [SchemaNext]_schemaVars => SchemaInv'
<1> SUFFICES ASSUME SchemaInv, [SchemaNext]_schemaVars PROVE SchemaInv'
  OBVIOUS
<1>0. \A r \in DOMAIN rows : RowInv(rows[r]) /\ Kept(rows[r], rows[r])
  BY DEF SchemaInv, Kept
<1>1. CASE Open
  <2>1. UNCHANGED <<columns, rows, views, ready>> /\ next' = 1 /\ ~ready
    BY <1>1 DEF Open
  <2>2. \A k \in 1..21 : Established(k) => Established(k)'
    BY <2>1 DEF Established
  <2> QED BY <2>1, <2>2 DEF SchemaInv
<1>2. CASE NextStatement
  <2>1. /\ next # 0 /\ Execute(Statements[next])
        /\ next' = IF next = 21 THEN 0 ELSE next + 1
        /\ ready' = (next = 21)
    BY <1>2, StatementList DEF NextStatement
  <2>2. PICK n \in 1..21 : n = next
    BY <2>1 DEF SchemaInv
  <2>9. Execute(Statements[n])
    BY <2>1, <2>2
  <2>3. /\ columns \subseteq columns' /\ columns' \subseteq Columns
        /\ rows' = [r \in DOMAIN rows' |-> rows'[r]] /\ DOMAIN rows' = DOMAIN rows
        /\ \A r \in DOMAIN rows : RowInv(rows'[r]) /\ Kept(rows[r], rows'[r])
        /\ views => views'
        /\ views' => views \/ n = 20
        /\ Established(n)'
    BY <2>9, Executed
  <2>4. \A k \in 1..21 : Established(k) => Established(k)'
    BY <2>3, EstablishedStays
  <2>5. \A k \in 1..21 : k <= n => Established(k)'
    <3> TAKE k \in 1..21
    <3>1. CASE k < n
      BY <2>1, <2>2, <2>4, <3>1 DEF SchemaInv
    <3>2. CASE k = n
      BY <2>3, <3>2
    <3> QED BY <2>2, <3>1, <3>2
  <2>6. views' => \A k \in 1..19 : Established(k)'
    BY <2>3, <2>4, <2>5 DEF SchemaInv
  <2>7. ready' => next' = 0 /\ \A k \in 1..21 : Established(k)'
    <3>1. ready' => next = 21 /\ next' = 0
      BY <2>1
    <3>2. ready' => \A k \in 1..21 : k <= n
      BY <2>2, <3>1
    <3> QED BY <2>5, <3>1, <3>2
  <2>8. next' \in 0..21 /\ (next' # 0 => \A k \in 1..21 : k < next' => Established(k)')
    BY <2>1, <2>2, <2>5
  <2> QED BY <2>3, <2>6, <2>7, <2>8 DEF SchemaInv
<1>3. CASE CloseStore
  <2>1. UNCHANGED <<columns, rows, views>> /\ next' = 0 /\ ready' = FALSE
    BY <1>3 DEF CloseStore
  <2> QED BY <1>0, <2>1, RowsStay DEF SchemaInv
<1>4. ASSUME NEW r \in Runs, RecordRun(r) PROVE SchemaInv'
  <2>1. PICK f \in RunFacts[Current] :
           rows' = [q \in DOMAIN rows \cup {r} |-> IF q = r THEN RowOf(f, Current, Current) ELSE rows[q]]
    BY <1>4 DEF RecordRun
  <2>2. UNCHANGED <<columns, views, next, ready>> /\ ready
    BY <1>4 DEF RecordRun
  <2>3. RowInv(RowOf(f, Current, Current)) /\ Whole(RowOf(f, Current, Current))
    BY RowAsWritten DEF Current
  <2>4. \A q \in DOMAIN rows' : \/ q \in DOMAIN rows /\ rows'[q] = rows[q]
                               \/ rows'[q] = RowOf(f, Current, Current)
    BY <2>1
  <2>5. rows' = [q \in DOMAIN rows' |-> rows'[q]]
    BY <2>1
  <2>6. next = 0
    BY <2>2 DEF SchemaInv
  <2> QED BY <1>0, <2>2, <2>3, <2>4, <2>5, <2>6, RowsStay
<1>5. ASSUME NEW r \in DOMAIN rows, Reevaluate(r) PROVE SchemaInv'
  <2>1. PICK h \in {5, 20} : rows' = [rows EXCEPT ![r] =
           [@ EXCEPT !.horizons = rows[r].horizons \cup {h}, !.cell = Restated(r, OutcomeColumns)]]
    BY <1>5 DEF Reevaluate
  <2>2. UNCHANGED <<columns, views, next, ready>> /\ ready
    BY <1>5 DEF Reevaluate
  <2> DEFINE cell == Restated(r, OutcomeColumns)
             new == Rebuilt(rows[r], cell, rows[r].horizons \cup {h}, rows[r].reasonRows)
  <2>3. RowInv(rows[r])
    BY <1>0
  <2>7. rows' = [rows EXCEPT ![r] = [rows[r] EXCEPT !.horizons = rows[r].horizons \cup {h}, !.cell = cell]]
    BY <2>1
  <2>5. /\ \A c \in Columns : cell[c] = rows[r].fact[c] \/ cell[c] = rows[r].cell[c]
        /\ \A c \in Columns : c \notin OutcomeColumns => cell[c] = rows[r].cell[c]
    BY DEF Restated
  <2> HIDE DEF cell
  <2>4. rows' = [rows EXCEPT ![r] = new]
    BY <2>3, <2>7, RowMatured
  <2>10. /\ \A c \in Columns : cell[c] \in {NULL, rows[r].fact[c]}
         /\ \A c \in Columns : Since[c] <= rows[r].release => cell[c] = rows[r].fact[c]
    BY <2>3, <2>5 DEF RowInv
  <2>11. \A c \in Backfilled : rows[r].cell[c] = rows[r].fact[c] => cell[c] = rows[r].fact[c]
    BY <2>5, ColumnFacts
  <2>12. cell["dd15"] # NULL => cell["spy_close"] = rows[r].fact["spy_close"]
    BY <2>3, <2>5, ColumnFacts DEF RowInv
  <2>13. rows[r].reasonRows \in {0, rows[r].fact.reasons} /\ rows[r].horizons \cup {h} \subseteq {5, 20}
    BY <2>3 DEF RowInv
  <2>6. RowInv(new) /\ Kept(rows[r], new)
    BY <2>3, <2>10, <2>11, <2>12, <2>13, RowRebuilt
  <2> HIDE DEF new
  <2>8. /\ DOMAIN rows' = DOMAIN rows /\ rows' = [q \in DOMAIN rows' |-> rows'[q]]
        /\ \A q \in DOMAIN rows : rows'[q] = IF q = r THEN new ELSE rows[q]
    BY <2>4
  <2>9. next = 0
    BY <2>2 DEF SchemaInv
  <2> QED BY <1>0, <2>2, <2>6, <2>8, <2>9, RowsStay
<1>6. ASSUME NEW r \in DOMAIN rows, Recollect(r) PROVE SchemaInv'
  <2>1. PICK carried \in SUBSET VerdictColumns :
           /\ \A name \in VerdictColumns \ carried : Since[name] > rows[r].release
           /\ rows' = [rows EXCEPT ![r] =
                 [@ EXCEPT !.cell = [c \in Columns |->
                               IF c \in VerdictColumns \ carried THEN NULL ELSE Restated(r, carried)[c]],
                           !.reasonRows = rows[r].fact.reasons]]
    BY <1>6 DEF Recollect
  <2>2. UNCHANGED <<columns, views, next, ready>> /\ ready
    BY <1>6 DEF Recollect
  <2> DEFINE cell == [c \in Columns |->
                        IF c \in VerdictColumns \ carried THEN NULL ELSE Restated(r, carried)[c]]
             new == Rebuilt(rows[r], cell, rows[r].horizons, rows[r].fact.reasons)
  <2>3. RowInv(rows[r])
    BY <1>0
  <2>4. rows' = [rows EXCEPT ![r] = [rows[r] EXCEPT !.cell = cell, !.reasonRows = rows[r].fact.reasons]]
    BY <2>1
  <2>5. /\ \A c \in VerdictColumns \ carried : c \in Columns => cell[c] = NULL
        /\ \A c \in carried : c \in Columns => cell[c] = rows[r].fact[c]
        /\ \A c \in Columns : c \notin VerdictColumns => cell[c] = rows[r].cell[c]
    BY DEF Restated
  <2> HIDE DEF cell
  <2>6. \A c \in Columns : Since[c] <= rows[r].release => cell[c] = rows[r].fact[c]
    <3> SUFFICES ASSUME NEW c \in Columns, Since[c] <= rows[r].release
                 PROVE  cell[c] = rows[r].fact[c]
      OBVIOUS
    <3>1. Since[c] \in Nat /\ rows[r].release \in Nat
      BY <2>3, ColumnFacts DEF RowInv, Current
    <3>2. c \notin VerdictColumns \ carried
      BY <2>1, <3>1
    <3> QED BY <2>3, <2>5, <3>2 DEF RowInv
  <2>7. \A c \in Columns : cell[c] \in {NULL, rows[r].fact[c]}
    BY <2>3, <2>5 DEF RowInv
  <2>8. RowInv(new) /\ Kept(rows[r], new)
    BY <2>3, <2>5, <2>6, <2>7, RowRebuilt, ColumnFacts DEF RowInv
  <2>9. rows' = [rows EXCEPT ![r] = new]
    <3> DEFINE all == rows[r].fact.reasons
    <3>1. rows' = [rows EXCEPT ![r] = [rows[r] EXCEPT !.cell = cell, !.reasonRows = all]]
      BY <2>4
    <3> HIDE DEF all
    <3>2. [rows[r] EXCEPT !.cell = cell, !.reasonRows = all] = Rebuilt(rows[r], cell, rows[r].horizons, all)
      BY <2>3, RowRecollected
    <3> QED BY <3>1, <3>2 DEF all
  <2> HIDE DEF new
  <2>10. /\ DOMAIN rows' = DOMAIN rows /\ rows' = [q \in DOMAIN rows' |-> rows'[q]]
         /\ \A q \in DOMAIN rows : rows'[q] = IF q = r THEN new ELSE rows[q]
    BY <2>9
  <2>11. next = 0
    BY <2>2 DEF SchemaInv
  <2> QED BY <1>0, <2>2, <2>8, <2>10, <2>11, RowsStay
<1>7. CASE UNCHANGED schemaVars
  <2>1. UNCHANGED <<columns, rows, views, next, ready>>
    BY <1>7 DEF schemaVars
  <2>2. \A k \in 1..21 : Established(k) => Established(k)'
    BY <2>1 DEF Established
  <2> QED BY <2>1, <2>2 DEF SchemaInv
<1> QED BY <1>1, <1>2, <1>3, <1>4, <1>5, <1>6, <1>7 DEF SchemaNext

\* init_schema has completed: every column is there, and filled where it can be.
LEMMA MigratedFile ==
    ASSUME \A k \in 1..19 : Established(k)
    PROVE  /\ Columns \subseteq columns
           /\ \A r \in DOMAIN rows : \A c \in Backfilled : rows[r].cell[c] = rows[r].fact[c]
<1>1. \A names : Add(names).kind = "add" /\ Add(names).names = names
  BY DEF Add
<1>2. \A names, guard : Fill(names, guard).kind = "fill" /\ Fill(names, guard).names = names
  BY DEF Fill
<1>3. \A k \in 1..19 : \A c : Statements[k] = Add({c}) => c \in columns
  BY <1>1 DEF Established
<1>4. \A k \in 1..19 : \A names, guard : Statements[k] = Fill(names, guard) =>
         \A r \in DOMAIN rows : \A c \in names : rows[r].cell[c] = rows[r].fact[c]
  BY <1>2 DEF Established
<1>5. {"no_trade", "exhibit_truncated", "news_supply", "recommendation", "max_hold_days",
       "benchmark_return", "score", "execution_state", "pivot_proximity", "dd15", "spy_close",
       "spy_sma200", "multiplier"} \subseteq columns
  BY <1>3, StatementList
<1>6. Columns \subseteq columns
  BY <1>5 DEF Columns, PositionColumns, VerdictColumns, OutcomeColumns, CandidateColumns, SnapshotColumns
<1>7. ASSUME NEW r \in DOMAIN rows
      PROVE  \A c \in {"no_trade", "recommendation", "max_hold_days", "score", "dd15", "spy_close", "multiplier"} :
               rows[r].cell[c] = rows[r].fact[c]
  <2>1. \A c \in {"no_trade"} : rows[r].cell[c] = rows[r].fact[c]
    BY <1>4, StatementList
  <2>2. \A c \in {"recommendation"} : rows[r].cell[c] = rows[r].fact[c]
    BY <1>4, StatementList
  <2>3. \A c \in {"max_hold_days"} : rows[r].cell[c] = rows[r].fact[c]
    BY <1>4, StatementList
  <2>4. \A c \in {"score"} : rows[r].cell[c] = rows[r].fact[c]
    BY <1>4, StatementList
  <2>5. \A c \in {"dd15", "spy_close"} : rows[r].cell[c] = rows[r].fact[c]
    BY <1>4, StatementList
  <2>6. \A c \in {"multiplier"} : rows[r].cell[c] = rows[r].fact[c]
    BY <1>4, StatementList
  <2> QED BY <2>1, <2>2, <2>3, <2>4, <2>5, <2>6
<1>8. Backfilled = {"no_trade", "recommendation", "max_hold_days", "score", "dd15", "spy_close", "multiplier"}
  BY DEF Backfilled, OnlyValue
<1> QED BY <1>6, <1>7, <1>8

\* The scorecard joins at most one candidate to a verdict.
LEMMA ScorecardRows ==
    ASSUME NEW r, RowInv(rows[r])
    PROVE  /\ Cardinality(Scorecard(r)) = Cardinality(SchemaHorizons(r))
           /\ \A row \in Scorecard(r) :
                 rows[r].fact.strategy \in rows[r].fact.strategies =>
                    row.candidate.score = rows[r].fact.score
<1> DEFINE H == SchemaHorizons(r)
           Scores(k) == [strategy |-> k,
                         score |-> Coalesce(Cell(r, "score"), Json(r, "score")),
                         pivot_proximity |-> Coalesce(Cell(r, "pivot_proximity"), Json(r, "pivot_proximity")),
                         execution_state |-> Cell(r, "execution_state")]
           own == rows[r].fact.strategy
           joined == IF own \in rows[r].fact.strategies THEN Scores(own) ELSE MissingCandidate
           D == IF CandidateRow(r) = {} THEN {MissingCandidate} ELSE CandidateRow(r)
           Entry(h, c) == [horizon |-> h, candidate |-> c, dd15 |-> Cell(r, "dd15"),
                           spy_close |-> Cell(r, "spy_close"), news_supply |-> Cell(r, "news_supply")]
           entry == [h \in H |-> Entry(h, joined)]
<1>1. \A k : Scores(k).strategy = k /\ Scores(k).score = Coalesce(Cell(r, "score"), Json(r, "score"))
  OBVIOUS
<1>2. CandidateRow(r) = {c \in {Scores(k) : k \in rows[r].fact.strategies} : c.strategy = own}
  BY DEF CandidateRow, CandidateView
<1>3. \A h, c : Entry(h, c).horizon = h /\ Entry(h, c).candidate = c
  OBVIOUS
<1>4. Scorecard(r) = {Entry(h, c) : h \in H, c \in D}
  BY DEF Scorecard
<1> HIDE DEF Scores
<1>5. D = {joined}
  <2>1. CASE own \in rows[r].fact.strategies
    <3>1. CandidateRow(r) = {Scores(own)}
      BY <1>1, <1>2, <2>1
    <3> QED BY <2>1, <3>1
  <2>2. CASE own \notin rows[r].fact.strategies
    <3>1. CandidateRow(r) = {}
      BY <1>1, <1>2, <2>2
    <3> QED BY <2>2, <3>1
  <2> QED BY <2>1, <2>2
<1> HIDE DEF Entry, joined, H, D
<1>6. Scorecard(r) = {Entry(h, joined) : h \in H}
  BY <1>4, <1>5
<1>7. IsFiniteSet(H)
  <2>1. IsFiniteSet({5, 20}) /\ IsFiniteSet({0})
    <3>1. IsFiniteSet({5}) /\ IsFiniteSet({0})
      BY FS_Singleton
    <3>2. {5, 20} = {5} \cup {20}
      OBVIOUS
    <3> QED BY <3>1, <3>2, FS_AddElement
  <2>2. H \subseteq {0} \/ H \subseteq {5, 20}
    BY DEF RowInv, H, SchemaHorizons
  <2> QED BY <2>1, <2>2, FS_Subset
<1>8. entry \in Bijection(H, Scorecard(r))
  BY <1>3, <1>6 DEF Bijection, Injection, Surjection, IsInjective
<1>9. Cardinality(Scorecard(r)) = Cardinality(H)
  BY <1>7, <1>8, FS_Bijection DEF ExistsBijection
<1>10. ASSUME own \in rows[r].fact.strategies PROVE joined.score = rows[r].fact.score
  <2>1. "score" \in Columns /\ "score" \in InJson
    BY DEF Columns, CandidateColumns, InJson
  <2>2. Json(r, "score") = rows[r].fact.score /\ Cell(r, "score") \in {NULL, rows[r].fact.score}
    BY <2>1 DEF Json, Cell, RowInv
  <2> QED BY <1>1, <1>10, <2>2 DEF Coalesce, joined
<1>11. \A row \in Scorecard(r) : row.candidate = joined
  BY <1>3, <1>6
<1> QED BY <1>9, <1>10, <1>11 DEF H

\* A cell is empty or what the run saw, the scorecard has one row per horizon,
\* and once init_schema has completed every fact that was recorded is in its
\* column and every reason in its row: for any mixture of releases, and
\* however often an earlier migration was cut off.
THEOREM RecordsSurviveMigration == SchemaSpec => []MigrationKeepsTheRecord
<1>1. SchemaInv => MigrationKeepsTheRecord
  <2> SUFFICES ASSUME SchemaInv, NEW r \in DOMAIN rows
               PROVE  LET f == rows[r].fact
                          card == Scorecard(r)
                      IN  /\ \A c \in columns : Cell(r, c) \in {NULL, f[c]}
                          /\ rows[r].reasonRows \in {0, f.reasons}
                          /\ Cardinality(card) = Cardinality(SchemaHorizons(r))
                          /\ \A row \in card :
                               f.strategy \in f.strategies => row.candidate.score = f.score
                          /\ views => TrackedPosition(r).recommendation = f.recommendation
                          /\ ready =>
                               /\ \A c \in Columns : Recorded(r, c) => Cell(r, c) = f[c]
                               /\ StorePosition(r).recommendation = f.recommendation
                               /\ StorePosition(r).no_trade = f.no_trade
                               /\ rows[r].reasonRows = f.reasons
    BY DEF MigrationKeepsTheRecord
  <2> DEFINE f == rows[r].fact
  <2>1. RowInv(rows[r])
    BY DEF SchemaInv
  <2>2. \A c \in columns : Cell(r, c) \in {NULL, f[c]}
    BY <2>1 DEF Cell, RowInv, SchemaInv
  <2>3. f.recommendation # NULL /\ f.no_trade # NULL
    BY <2>1, SchemaFacts, ColumnFacts DEF RowInv
  <2>4. {"recommendation", "no_trade"} \subseteq Backfilled \cap Columns
    BY ColumnFacts DEF Backfilled
  <2>5. ASSUME views \/ ready PROVE Columns \subseteq columns /\ \A c \in Backfilled : rows[r].cell[c] = f[c]
    <3>1. \A k \in 1..19 : Established(k)
      BY <2>5 DEF SchemaInv
    <3> QED BY <3>1, MigratedFile
  <2>6. views => TrackedPosition(r).recommendation = f.recommendation
    BY <2>3, <2>4, <2>5 DEF TrackedPosition, Cell, Coalesce
  <2>7. ready => StorePosition(r).recommendation = f.recommendation /\ StorePosition(r).no_trade = f.no_trade
    BY <2>3, <2>4, <2>5 DEF StorePosition, Cell, Coalesce
  <2>8. ASSUME ready, NEW c \in Columns, Recorded(r, c) PROVE Cell(r, c) = f[c]
    <3>1. Cell(r, c) = rows[r].cell[c]
      BY <2>5, <2>8 DEF Cell
    <3>2. CASE Since[c] <= rows[r].release
      BY <2>1, <3>1, <3>2 DEF RowInv
    <3>3. CASE c \in Backfilled
      BY <2>5, <2>8, <3>1, <3>3
    <3>4. CASE ~(Since[c] <= rows[r].release) /\ c = "pivot_proximity"
      <4>1. rows[r].release < Since.pivot_proximity
        BY <2>1, <3>4, ColumnFacts DEF RowInv, Current
      <4>2. f.pivot_proximity = NULL
        BY <2>1, <4>1, SchemaFacts DEF RowInv
      <4> QED BY <2>1, <3>1, <3>4, <4>2 DEF RowInv
    <3> QED BY <2>8, <3>2, <3>3, <3>4, ColumnFacts DEF Recorded, Backfilled
  <2>9. ready => rows[r].reasonRows = f.reasons
    <3>1. Statements[21].kind = "reasons"
      BY StatementList
    <3> QED BY <3>1 DEF SchemaInv, Established
  <2> QED BY <2>1, <2>2, <2>6, <2>7, <2>8, <2>9, ScorecardRows DEF RowInv
<1> QED BY <1>1, SchemaStarts, SchemaSteps, PTL DEF SchemaSpec

(*************** ProposalLedger: numbers, full texts and rows ****************)
(* What an ingest holds; positions are those of the result it answers.       *)
Items == [number : 1..MaxNumber, key : Keys, justified : BOOLEAN, isNew : BOOLEAN]
Positions == {D \in SUBSET Nat : IsFiniteSet(D)}

LedgerShape ==
    /\ proposals \in Seq(Row)
    /\ fullTexts \subseteq FullText
    /\ answer = [d \in AsOfs |-> answer[d]]
    /\ \A d \in AsOfs : answer[d] # NoFile => answer[d].proposals \in Seq(Offers)
    /\ ingest.stage = "validated" => \E D \in Positions : ingest.proposals \in [D -> Offers]
    /\ ingest.stage = "documents" =>
          /\ ingest = [stage |-> ingest.stage, asOf |-> ingest.asOf, digest |-> ingest.digest,
                       narrated |-> ingest.narrated, recorded |-> ingest.recorded,
                       todo |-> ingest.todo]
          /\ \E D \in Positions : ingest.recorded \in [D -> Items] /\ ingest.todo \subseteq D

(* The keys that full texts give a number. *)
TextKeys(n) == {d.key : d \in {t \in fullTexts : t.number = n}}

(* While an ingest writes, a number of a new proposal is no row's and no   *)
(* other new proposal's, and any full text that has it is the proposal's.  *)
NumberedInv ==
    ingest.stage = "documents" =>
        LET item == ingest.recorded IN
        \A i \in DOMAIN item :
           IF item[i].isNew
           THEN /\ \A r \in Rows : r.number # item[i].number
                /\ \A j \in DOMAIN item :
                      item[j].isNew /\ item[j].number = item[i].number => i = j
                /\ TextKeys(item[i].number) \subseteq {item[i].key}
                /\ i \notin ingest.todo => TextKeys(item[i].number) = {item[i].key}
           ELSE \E r \in Rows : r.number = item[i].number /\ r.key = item[i].key

LedgerInv == LedgerShape /\ NumberedInv /\ NumbersNameOneProposal
-----------------------------------------------------------------------------
(* Positions in order. *)

(* Fewer positions come before one of them than there are, and fewer       *)
(* before an earlier one.                                                  *)
LEMMA RankGrows ==
    ASSUME NEW S \in Positions
    PROVE  /\ \A i \in S : Rank(i, S) \in 0..(Cardinality(S) - 1)
           /\ \A i, j \in S : Rank(i, S) = Rank(j, S) => i = j
  <1> DEFINE before(i) == {j \in S : j < i}
  <1>1. IsFiniteSet(S) /\ Cardinality(S) \in Nat /\ S \subseteq Nat
    BY FS_CardinalityType DEF Positions
  <1>2. ASSUME NEW T \in SUBSET S, NEW U \in SUBSET T, T # U
        PROVE  Cardinality(U) \in Nat /\ Cardinality(U) < Cardinality(T)
    <2>1. IsFiniteSet(T) /\ IsFiniteSet(U)
      BY <1>1, FS_Subset
    <2>2. Cardinality(T) \in Nat /\ Cardinality(U) \in Nat
      BY <2>1, FS_CardinalityType
    <2>3. Cardinality(U) <= Cardinality(T) /\ Cardinality(U) # Cardinality(T)
      BY <1>2, <2>1, FS_Subset
    <2> QED BY <2>2, <2>3
  <1>3. ASSUME NEW i \in S
        PROVE  Rank(i, S) \in 0..(Cardinality(S) - 1)
    <2>1. before(i) \in SUBSET S /\ S \in SUBSET S /\ i \notin before(i)
      BY <1>1
    <2>2. Cardinality(before(i)) \in Nat /\ Cardinality(before(i)) < Cardinality(S)
      <3> HIDE DEF before
      <3> QED BY <1>2, <2>1
    <2> QED BY <1>1, <2>2 DEF Rank
  <1>4. ASSUME NEW i \in S, NEW j \in S, i < j
        PROVE  Rank(i, S) < Rank(j, S)
    <2>0. ~(i < i) /\ \A x \in S : x < i => x < j
      BY <1>1, <1>4
    <2>1. before(j) \in SUBSET S /\ before(i) \in SUBSET before(j)
          /\ i \in before(j) /\ i \notin before(i)
      BY <1>4, <2>0, Zenon
    <2>2. Cardinality(before(i)) < Cardinality(before(j))
      <3> HIDE DEF before
      <3> QED BY <1>2, <2>1
    <2> QED BY <2>2 DEF Rank
  <1>5. ASSUME NEW i \in S, NEW j \in S, Rank(i, S) = Rank(j, S)
        PROVE  i = j
    <2>1. ~(i < j) /\ ~(j < i)
      BY <1>3, <1>4, <1>5
    <2> QED BY <1>1, <2>1
  <1> QED BY <1>3, <1>5

(* So there is one with any number of positions before it, and the set in  *)
(* order lists each of them once.                                          *)
LEMMA InOrderLists ==
    ASSUME NEW S \in Positions
    PROVE  /\ Cardinality(S) \in Nat
           /\ InOrder(S) \in [1..Cardinality(S) -> S]
           /\ \A k, l \in 1..Cardinality(S) : InOrder(S)[k] = InOrder(S)[l] => k = l
           /\ \A i \in S : \E k \in 1..Cardinality(S) : InOrder(S)[k] = i
  <1> DEFINE n == Cardinality(S)
             rank == [i \in S |-> Rank(i, S)]
             ranks == {rank[i] : i \in S}
  <1>1. IsFiniteSet(S) /\ n \in Nat
    BY FS_CardinalityType DEF Positions
  <1>2. /\ \A i \in S : Rank(i, S) \in 0..(n - 1)
        /\ \A i, j \in S : Rank(i, S) = Rank(j, S) => i = j
    BY RankGrows
  <1>3. ranks \subseteq 0..(n - 1) /\ rank \in Bijection(S, ranks)
    BY <1>2 DEF Bijection, Injection, Surjection, IsInjective
  <1>4. Cardinality(ranks) = n
    <2> HIDE DEF rank, ranks
    <2> QED BY <1>1, <1>3, FS_Bijection DEF ExistsBijection
  <1>5. IsFiniteSet(0..(n - 1)) /\ Cardinality(0..(n - 1)) = n
    <2>1. 0 \in Int /\ n - 1 \in Int
      BY <1>1
    <2> HIDE DEF n
    <2> QED BY <1>1, <2>1, FS_Interval
  <1>6. ranks = 0..(n - 1)
    <2> HIDE DEF rank, ranks, n
    <2> QED BY <1>3, <1>4, <1>5, FS_Subset
  <1>7. ASSUME NEW k \in 1..n
        PROVE  InOrder(S)[k] \in S /\ Rank(InOrder(S)[k], S) = k - 1
    <2>1. k - 1 \in 0..(n - 1)
      BY <1>1
    <2>2. \E i \in S : Rank(i, S) = k - 1
      BY <1>6, <2>1
    <2>3. InOrder(S)[k] = CHOOSE i \in S : Rank(i, S) = k - 1
      BY DEF InOrder
    <2> QED BY <2>2, <2>3
  <1>8. InOrder(S) \in [1..n -> S]
    BY <1>7 DEF InOrder
  <1>9. \A k, l \in 1..n : InOrder(S)[k] = InOrder(S)[l] => k = l
    <2> TAKE k, l \in 1..n
    <2> HAVE InOrder(S)[k] = InOrder(S)[l]
    <2>1. k - 1 = l - 1
      BY <1>7
    <2> QED BY <1>1, <2>1
  <1>10. ASSUME NEW i \in S
         PROVE  \E k \in 1..n : InOrder(S)[k] = i
    <2>1. Rank(i, S) + 1 \in 1..n /\ (Rank(i, S) + 1) - 1 = Rank(i, S)
      BY <1>1, <1>2
    <2>2. InOrder(S)[Rank(i, S) + 1] = i
      BY <1>2, <1>7, <2>1
    <2> QED BY <2>1, <2>2
  <1> QED BY <1>1, <1>8, <1>9, <1>10
-----------------------------------------------------------------------------
(* The ledger. *)

(* A new number is above every row's and every full text's.                *)
LEMMA NextNumberIsFree ==
    ASSUME LedgerShape
    PROVE  /\ NextNumber \in Nat /\ NextNumber >= 1
           /\ \A r \in Rows : r.number < NextNumber /\ r.number \in Nat
           /\ \A t \in fullTexts : t.number < NextNumber /\ t.number \in Nat
  <1> DEFINE taken == {r.number : r \in Rows} \cup {d.number : d \in fullTexts} \cup {0}
  <1>1. Rows \subseteq Row
    BY DEF LedgerShape, Rows, ToSet
  <1>2. MaxNumber \in Nat
    BY ProposalConstants
  <1>3. taken \in SUBSET Nat /\ \A n \in taken : n <= MaxNumber
    BY <1>1, <1>2 DEF LedgerShape, Row, FullText
  <1>4. 0 \in taken /\ (\A r \in Rows : r.number \in taken) /\ (\A t \in fullTexts : t.number \in taken)
    OBVIOUS
  <1> HIDE DEF taken
  <1>5. PICK last \in taken : last = Max(taken) /\ \A n \in taken : n <= last
    BY <1>2, <1>3, <1>4, GreatestNatural
  <1>6. NextNumber = last + 1
    BY <1>5 DEF NextNumber, taken
  <1>7. \A n \in taken : n \in Nat /\ n < NextNumber
    BY <1>3, <1>5, <1>6
  <1>8. NextNumber \in Nat /\ NextNumber >= 1
    BY <1>3, <1>5, <1>6
  <1> QED BY <1>4, <1>7, <1>8

(* The number found for a key is an open row's of that key.                *)
LEMMA RpIdIsARow ==
    ASSUME LedgerShape, NEW key, RpIdForKey(key) # 0
    PROVE  \E r \in Rows : r.number = RpIdForKey(key) /\ r.key = key
  <1> DEFINE open == {i \in 1..Len(proposals) : proposals[i] \in OpenRows(key)}
             at == SelectInSeq(proposals, LAMBDA r : r \in OpenRows(key))
  <1>1. at = IF open # {} THEN Min(open) ELSE 0
    BY DEF SelectInSeq
  <1>2. RpIdForKey(key) = IF at = 0 THEN 0 ELSE proposals[at].number
    BY DEF RpIdForKey
  <1>3. open \in SUBSET Nat
    OBVIOUS
  <1> HIDE DEF open, at
  <1>4. at \in open
    BY <1>1, <1>2, <1>3, LeastNatural
  <1>5. proposals[at] \in OpenRows(key)
    BY <1>4 DEF open
  <1> QED BY <1>2, <1>4, <1>5 DEF OpenRows

(* A proposal that is recorded as new was not there, and has a number of   *)
(* its own.                                                                *)
LEMMA NumberedItems ==
    ASSUME LedgerShape, NEW D \in Positions, NEW list \in [D -> Offers],
           NextNumber + Cardinality(D) <= MaxNumber + 1
    PROVE  LET item == Numbered(list) IN
           /\ item \in [D -> Items]
           /\ \A i \in D : IF item[i].isNew THEN item[i].number >= NextNumber
                           ELSE \E r \in Rows : r.number = item[i].number /\ r.key = item[i].key
           /\ \A i, j \in D : /\ item[i].isNew /\ item[j].isNew
                              /\ item[i].number = item[j].number
                              => i = j
  <1> DEFINE new == {i \in D : RpIdForKey(list[i].key) = 0}
             number(i) == IF i \in new THEN NextNumber + Rank(i, new)
                          ELSE RpIdForKey(list[i].key)
             item == Numbered(list)
  <1>1. item = [i \in D |-> [number |-> number(i), key |-> list[i].key,
                              justified |-> list[i].justified, isNew |-> i \in new]]
    BY DEF Numbered
  <1>2. NextNumber \in Nat /\ NextNumber >= 1 /\ MaxNumber \in Nat
    BY NextNumberIsFree, ProposalConstants
  <1>3. new \in Positions /\ Cardinality(new) \in Nat /\ Cardinality(D) \in Nat
        /\ Cardinality(new) <= Cardinality(D)
    <2>1. IsFiniteSet(D) /\ D \subseteq Nat /\ new \in SUBSET D
      BY DEF Positions
    <2> HIDE DEF new
    <2>2. IsFiniteSet(new) /\ Cardinality(new) <= Cardinality(D)
      BY <2>1, FS_Subset
    <2> QED BY <2>1, <2>2, FS_CardinalityType DEF Positions
  <1>4. \A i \in D : list[i].key \in Keys /\ list[i].justified \in BOOLEAN
    BY ProposalConstants
  <1>5. ASSUME NEW i \in D \ new
        PROVE  \E r \in Rows : r.number = number(i) /\ r.key = list[i].key
    BY <1>5, RpIdIsARow
  <1>6. /\ \A i \in new : Rank(i, new) \in 0..(Cardinality(new) - 1)
        /\ \A i, j \in new : Rank(i, new) = Rank(j, new) => i = j
    <2> HIDE DEF new
    <2> QED BY <1>3, RankGrows
  <1>7. \A i \in new : number(i) = NextNumber + Rank(i, new)
    OBVIOUS
  <1>8. Rows \subseteq Row
    BY DEF LedgerShape, Rows, ToSet
  <1>9. \A i \in D : i \in new \/ i \in D \ new
    OBVIOUS
  <1>10. new \subseteq D
    OBVIOUS
  <1> HIDE DEF new, number, item
  <1>11. \A i \in D : number(i) \in 1..MaxNumber
    <2> TAKE i \in D
    <2>1. CASE i \in new
      BY <2>1, <1>2, <1>3, <1>6, <1>7
    <2>2. CASE i \in D \ new
      BY <2>2, <1>5, <1>8 DEF Row
    <2> QED BY <2>1, <2>2, <1>9
  <1>12. item \in [D -> Items]
    BY <1>1, <1>4, <1>11 DEF Items
  <1>13. \A i \in D : /\ item[i].isNew <=> i \in new
                      /\ item[i].number = number(i) /\ item[i].key = list[i].key
    BY <1>1
  <1>14. \A i \in new : number(i) >= NextNumber
    BY <1>2, <1>3, <1>6, <1>7
  <1>15. \A i, j \in new : number(i) = number(j) => i = j
    BY <1>2, <1>3, <1>6, <1>7
  <1>16. \A i \in D : IF item[i].isNew THEN item[i].number >= NextNumber
                      ELSE \E r \in Rows : r.number = item[i].number /\ r.key = item[i].key
    <2> TAKE i \in D
    <2>1. ASSUME item[i].isNew PROVE item[i].number >= NextNumber
      <3>1. i \in new /\ item[i].number = number(i)
        BY <2>1, <1>13, Zenon
      <3> QED BY <3>1, <1>14
    <2>2. ASSUME ~item[i].isNew
          PROVE  \E r \in Rows : r.number = item[i].number /\ r.key = item[i].key
      <3>1. i \in D \ new
        BY <2>2, <1>9, <1>13, Zenon
      <3>2. \E r \in Rows : r.number = number(i) /\ r.key = list[i].key
        BY <3>1, <1>5
      <3>3. item[i].number = number(i) /\ item[i].key = list[i].key
        BY <1>13
      <3> QED BY <3>2, <3>3
    <2> QED BY <2>1, <2>2
  <1>17. \A i, j \in D : /\ item[i].isNew /\ item[j].isNew
                         /\ item[i].number = item[j].number
                         => i = j
    BY <1>13, <1>15
  <1> QED BY <1>12, <1>16, <1>17 DEF item
-----------------------------------------------------------------------------
(* The invariant is inductive.                                             *)
LEMMA LedgerStarts == ProposalInit => LedgerInv
  <1> SUFFICES ASSUME ProposalInit PROVE LedgerInv
    OBVIOUS
  <1>1. proposals = <<>> /\ fullTexts = {} /\ Rows = {} /\ ingest.stage = "none"
    BY DEF ProposalInit, Rows, ToSet, NoIngest
  <1>2. LedgerShape
    BY <1>1 DEF ProposalInit, LedgerShape
  <1>3. NumberedInv /\ NumbersNameOneProposal
    BY <1>1 DEF NumberedInv, NumbersNameOneProposal
  <1> QED BY <1>2, <1>3 DEF LedgerInv

(* Rows that stay and texts that stay keep what the invariant says.        *)
LEMMA LedgerStays ==
    ASSUME LedgerInv, UNCHANGED <<proposals, fullTexts>>
    PROVE  /\ Rows' = Rows /\ NumbersNameOneProposal'
           /\ \A n : TextKeys(n)' = TextKeys(n)
           /\ NextNumber' = NextNumber
  BY DEF LedgerInv, Rows, NumbersNameOneProposal, TextKeys, NextNumber

(* A full text is written under a number no row has, and its row is        *)
(* appended when it is there; nobody else moves in between.                *)
LEMMA LedgerSteps ==
    ASSUME ~Overlaps
    PROVE  LedgerInv /\ [ProposalNext]_proposalVars => LedgerInv'
  <1> SUFFICES ASSUME LedgerInv, [ProposalNext]_proposalVars PROVE LedgerInv'
    OBVIOUS
  <1>0. LedgerShape /\ NumberedInv /\ NumbersNameOneProposal
    BY DEF LedgerInv
  <1>a. NoIngest.stage = "none"
    BY DEF NoIngest
  <1>1. ASSUME NEW d \in AsOfs, Export(d)
        PROVE  LedgerInv'
    <2>1. UNCHANGED <<answer, proposals, fullTexts, ingest>>
      BY <1>1 DEF Export
    <2>2. LedgerShape' /\ NumberedInv'
      BY <1>0, <2>1, LedgerStays DEF LedgerShape, NumberedInv
    <2> QED BY <2>1, <2>2, LedgerStays DEF LedgerInv
  <1>2. ASSUME NEW d \in AsOfs, AnswerDossier(d)
        PROVE  LedgerInv'
    <2>1. UNCHANGED <<proposals, fullTexts, ingest>>
      BY <1>2 DEF AnswerDossier
    <2>2. PICK list \in SeqOf(Offers, Cardinality(Keys)), narrated \in SUBSET Surprises :
             answer' = [answer EXCEPT ![d] =
                 [digest |-> dossier[d].digest, proposals |-> list, narrated |-> narrated]]
      BY <1>2 DEF AnswerDossier
    <2>3. list \in Seq(Offers)
      <3>1. PICK m \in 0..Cardinality(Keys) : list \in [1..m -> Offers]
        BY DEF SeqOf
      <3> QED BY <3>1
    <2>4. /\ answer' = [e \in AsOfs |-> answer'[e]]
          /\ \A e \in AsOfs : answer'[e] # NoFile => answer'[e].proposals \in Seq(Offers)
      BY <1>0, <2>2, <2>3 DEF LedgerShape
    <2>5. LedgerShape' /\ NumberedInv'
      BY <1>0, <2>1, <2>4, LedgerStays DEF LedgerShape, NumberedInv
    <2> QED BY <2>1, <2>5, LedgerStays DEF LedgerInv
  <1>3. ASSUME NEW d \in AsOfs, BeginIngest(d)
        PROVE  LedgerInv'
    <2> DEFINE list == answer[d].proposals
               kept == RestrictDomain(list, LAMBDA i : Survives(list[i]))
    <2>1. UNCHANGED <<answer, proposals, fullTexts>> /\ answer[d] # NoFile
      BY <1>3 DEF BeginIngest
    <2>2. ingest'.stage = "validated" /\ ingest'.proposals = kept
      BY <1>3 DEF BeginIngest
    <2>3. list \in Seq(Offers)
      BY <1>0, <2>1 DEF LedgerShape
    <2>4. \E D \in Positions : kept \in [D -> Offers]
      <3> DEFINE D == {i \in DOMAIN list : Survives(list[i])}
      <3>1. kept = [i \in D |-> list[i]]
        BY DEF RestrictDomain, Restrict
      <3>2. DOMAIN list = 1..Len(list) /\ Len(list) \in Nat /\ \A i \in DOMAIN list : list[i] \in Offers
        BY <2>3
      <3>3. IsFiniteSet(DOMAIN list)
        <4> HIDE DEF list
        <4>1. 1 \in Int /\ Len(list) \in Int
          BY <3>2
        <4>2. IsFiniteSet(1..Len(list))
          BY <4>1, FS_Interval
        <4> QED BY <3>2, <4>2
      <3>4. D \in SUBSET DOMAIN list /\ DOMAIN list \subseteq Nat
        BY <3>2
      <3>5. \A i \in D : list[i] \in Offers
        BY <3>2
      <3> HIDE DEF D, list, kept
      <3>6. D \in Positions
        BY <3>3, <3>4, FS_Subset DEF Positions
      <3> QED BY <3>1, <3>5, <3>6
    <2>5. LedgerShape'
      <3> HIDE DEF kept
      <3> QED BY <1>0, <2>1, <2>2, <2>4 DEF LedgerShape
    <2>6. NumberedInv'
      BY <2>2 DEF NumberedInv
    <2> QED BY <2>1, <2>5, <2>6, LedgerStays DEF LedgerInv
  <1>4. ASSUME Number PROVE LedgerInv'
    <2> DEFINE item == Numbered(ingest.proposals)
               todo == {i \in DOMAIN item : item[i].isNew \/ ~HasFullText(item[i])}
    <2>1. /\ UNCHANGED <<answer, proposals, fullTexts>>
          /\ ingest.stage = "validated"
          /\ NextNumber + Cardinality(DOMAIN ingest.proposals) <= MaxNumber + 1
      BY <1>4 DEF Number
    <2>2. /\ ingest'.stage = "documents" /\ ingest'.recorded = item /\ ingest'.todo = todo
          /\ ingest' = [stage |-> ingest'.stage, asOf |-> ingest'.asOf, digest |-> ingest'.digest,
                        narrated |-> ingest'.narrated, recorded |-> ingest'.recorded,
                        todo |-> ingest'.todo]
      BY <1>4 DEF Number
    <2>3. PICK D \in Positions : ingest.proposals \in [D -> Offers]
      BY <1>0, <2>1 DEF LedgerShape
    <2>4. /\ item \in [D -> Items]
          /\ \A i \in D : IF item[i].isNew THEN item[i].number >= NextNumber
                          ELSE \E r \in Rows : r.number = item[i].number /\ r.key = item[i].key
          /\ \A i, j \in D : /\ item[i].isNew /\ item[j].isNew
                             /\ item[i].number = item[j].number
                             => i = j
      <3>1. DOMAIN ingest.proposals = D
        BY <2>3
      <3> QED BY <1>0, <2>1, <2>3, <3>1, NumberedItems
    <2>5. todo \subseteq D /\ \A i \in D : item[i].isNew => i \in todo
      <3>1. DOMAIN item = D
        BY <2>4
      <3> HIDE DEF item
      <3> QED BY <3>1
    <2> HIDE DEF item, todo
    <2>6. LedgerShape'
      BY <1>0, <2>1, <2>2, <2>4, <2>5 DEF LedgerShape
    <2>7. /\ NextNumber \in Nat
          /\ \A r \in Rows : r.number < NextNumber /\ r.number \in Nat
          /\ \A t \in fullTexts : t.number < NextNumber /\ t.number \in Nat
      <3>1. MaxNumber \in Nat
        BY ProposalConstants
      <3> QED BY <1>0, <3>1, NextNumberIsFree
    <2>8. ASSUME NEW i \in D, item[i].isNew
          PROVE  (\A r \in Rows : r.number # item[i].number) /\ TextKeys(item[i].number) = {}
      <3>1. item[i].number \in Nat /\ item[i].number >= NextNumber
        BY <2>4, <2>8, ProposalConstants DEF Items
      <3>2. (\A r \in Rows : r.number # item[i].number) /\ \A t \in fullTexts : t.number # item[i].number
        BY <2>7, <3>1
      <3> QED BY <3>2 DEF TextKeys
    <2>9. NumberedInv'
      <3>1. DOMAIN item = D
        BY <2>4
      <3>2. Rows' = Rows /\ \A n : TextKeys(n)' = TextKeys(n)
        BY <2>1, LedgerStays
      <3>3. ASSUME NEW i \in D
            PROVE  IF item[i].isNew
                   THEN /\ \A r \in Rows : r.number # item[i].number
                        /\ \A j \in D : item[j].isNew /\ item[j].number = item[i].number => i = j
                        /\ TextKeys(item[i].number) \subseteq {item[i].key}
                        /\ i \notin todo => TextKeys(item[i].number) = {item[i].key}
                   ELSE \E r \in Rows : r.number = item[i].number /\ r.key = item[i].key
        BY <2>4, <2>5, <2>8
      <3> QED BY <2>2, <3>1, <3>2, <3>3 DEF NumberedInv
    <2> QED BY <2>1, <2>6, <2>9, LedgerStays DEF LedgerInv
  <1>5. ASSUME WriteFullText PROVE LedgerInv'
    <2>0. PICK item : item = ingest.recorded
      OBVIOUS
    <2> DEFINE at == Min(ingest.todo)
               written == [number |-> item[at].number, key |-> item[at].key,
                           justified |-> item[at].justified]
    <2>1. /\ UNCHANGED <<answer, proposals>>
          /\ ingest.stage = "documents" /\ ingest.todo # {}
          /\ fullTexts' = {d \in fullTexts : d.number # item[at].number \/ d.key # item[at].key}
                \cup {written}
          /\ ingest' = [ingest EXCEPT !.todo = ingest.todo \ {at}]
      BY <1>5, <2>0 DEF WriteFullText
    <2>2. PICK D \in Positions : item \in [D -> Items] /\ ingest.todo \subseteq D
      BY <1>0, <2>0, <2>1 DEF LedgerShape
    <2>3. at \in ingest.todo /\ at \in D
      BY <2>1, <2>2, LeastNatural DEF Positions
    <2>4. item[at] \in Items /\ written \in FullText
      BY <2>2, <2>3 DEF Items, FullText
    <2>5. PICK n \in 1..MaxNumber, k \in Keys : n = item[at].number /\ k = item[at].key
      BY <2>4 DEF Items
    <2>6. written.number = n /\ written.key = k
      BY <2>5
    <2>7. /\ fullTexts' = {d \in fullTexts : d.number # n \/ d.key # k} \cup {written}
          /\ written \in FullText
      BY <2>1, <2>4, <2>5
    <2>8. /\ ingest'.stage = "documents" /\ ingest'.recorded = item
          /\ ingest'.todo = ingest.todo \ {at}
          /\ ingest' = [stage |-> ingest'.stage, asOf |-> ingest'.asOf, digest |-> ingest'.digest,
                        narrated |-> ingest'.narrated, recorded |-> ingest'.recorded,
                        todo |-> ingest'.todo]
      <3> DEFINE left == ingest.todo \ {at}
      <3>1. ingest = [stage |-> ingest.stage, asOf |-> ingest.asOf, digest |-> ingest.digest,
                      narrated |-> ingest.narrated, recorded |-> ingest.recorded,
                      todo |-> ingest.todo]
        BY <1>0, <2>1 DEF LedgerShape
      <3>2. ingest' = [ingest EXCEPT !.todo = left]
        BY <2>1
      <3> HIDE DEF left, at
      <3>3. ingest' = [stage |-> ingest.stage, asOf |-> ingest.asOf, digest |-> ingest.digest,
                       narrated |-> ingest.narrated, recorded |-> ingest.recorded,
                       todo |-> left]
        BY <3>1, <3>2
      <3> QED BY <2>0, <2>1, <3>3 DEF left
    <2> HIDE DEF at, written
    <2>9. \A m : TextKeys(m)' = IF m = n THEN TextKeys(n) \cup {k} ELSE TextKeys(m)
      <3> TAKE m
      <3>1. CASE m = n
        BY <2>6, <2>7, <3>1 DEF TextKeys
      <3>2. CASE m # n
        BY <2>6, <2>7, <3>2 DEF TextKeys
      <3> QED BY <3>1, <3>2
    <2>10. Rows' = Rows
      BY <2>1 DEF Rows
    <2>11. LedgerShape'
      <3>1. ingest.todo \ {at} \subseteq D /\ item \in [D -> Items] /\ D \in Positions
        BY <2>2
      <3> QED BY <1>0, <2>1, <2>7, <2>8, <3>1 DEF LedgerShape
    <2>12. DOMAIN item = D /\ item[at].number = n /\ item[at].key = k
      BY <2>2, <2>5
    <2>13. ASSUME NEW i \in D
           PROVE  IF item[i].isNew
                  THEN /\ \A r \in Rows : r.number # item[i].number
                       /\ \A j \in D : item[j].isNew /\ item[j].number = item[i].number => i = j
                       /\ TextKeys(item[i].number) \subseteq {item[i].key}
                       /\ i \notin ingest.todo => TextKeys(item[i].number) = {item[i].key}
                  ELSE \E r \in Rows : r.number = item[i].number /\ r.key = item[i].key
      BY <1>0, <2>0, <2>1, <2>12 DEF NumberedInv
    <2>14. ASSUME NEW i \in D, item[i].isNew
           PROVE  /\ TextKeys(item[i].number)' \subseteq {item[i].key}
                  /\ i \notin ingest'.todo => TextKeys(item[i].number)' = {item[i].key}
      <3>1. /\ TextKeys(item[i].number) \subseteq {item[i].key}
            /\ i \notin ingest.todo => TextKeys(item[i].number) = {item[i].key}
        BY <2>13, <2>14
      <3>2. CASE item[i].number = n
        <4>1. item[at].isNew => i = at
          BY <2>3, <2>12, <2>13, <2>14, <3>2
        <4>2. item[at].isNew
          <5>1. ASSUME ~item[at].isNew PROVE FALSE
            <6>1. \E r \in Rows : r.number = n
              BY <2>3, <2>12, <2>13, <5>1
            <6> QED BY <2>13, <2>14, <3>2, <6>1
          <5> QED BY <5>1
        <4>3. TextKeys(item[i].number)' = TextKeys(n) \cup {k} /\ item[i].key = k
          BY <2>9, <2>12, <3>2, <4>1, <4>2
        <4> QED BY <3>1, <3>2, <4>3
      <3>3. CASE item[i].number # n
        <4>1. TextKeys(item[i].number)' = TextKeys(item[i].number) /\ i # at
          BY <2>9, <2>12, <3>3
        <4> QED BY <3>1, <4>1, <2>8
      <3> QED BY <3>2, <3>3
    <2>15. NumberedInv'
      <3>1. \A i \in D : IF item[i].isNew
                  THEN /\ \A r \in Rows : r.number # item[i].number
                       /\ \A j \in D : item[j].isNew /\ item[j].number = item[i].number => i = j
                       /\ TextKeys(item[i].number)' \subseteq {item[i].key}
                       /\ i \notin ingest'.todo => TextKeys(item[i].number)' = {item[i].key}
                  ELSE \E r \in Rows : r.number = item[i].number /\ r.key = item[i].key
        BY <2>13, <2>14
      <3> QED BY <2>8, <2>10, <2>12, <3>1 DEF NumberedInv
    <2>16. \A r \in Rows : TextKeys(r.number)' = {r.key} \ {Unkeyed}
      <3> TAKE r \in Rows
      <3>1. TextKeys(r.number) = {r.key} \ {Unkeyed}
        BY <1>0 DEF NumbersNameOneProposal, TextKeys
      <3>2. CASE r.number = n
        <4>1. ~item[at].isNew
          BY <2>3, <2>12, <2>13, <3>2
        <4>2. PICK q \in Rows : q.number = n /\ q.key = k
          BY <2>3, <2>12, <2>13, <4>1
        <4>3. k # Unkeyed
          BY ProposalConstants
        <4>4. TextKeys(n) = {k}
          BY <1>0, <4>2, <4>3 DEF NumbersNameOneProposal, TextKeys
        <4> QED BY <2>9, <3>1, <3>2, <4>4
      <3> QED BY <2>9, <3>1, <3>2
    <2>17. NumbersNameOneProposal'
      BY <1>0, <2>1, <2>10, <2>16 DEF NumbersNameOneProposal, TextKeys
    <2> QED BY <2>11, <2>15, <2>17 DEF LedgerInv
  <1>6. ASSUME AppendRows PROVE LedgerInv'
    <2> DEFINE item == ingest.recorded
               new == {i \in DOMAIN item : item[i].isNew}
               added == InOrder(new)
               m == Cardinality(new)
               tail == [l \in DOMAIN added |->
                          [number |-> item[added[l]].number, key |-> item[added[l]].key,
                           status |-> Proposed]]
    <2>1. /\ UNCHANGED <<answer, fullTexts>>
          /\ ingest.stage = "documents" /\ ingest.todo = {}
          /\ proposals' = proposals \o tail
          /\ ingest' = [ingest EXCEPT !.stage = "report"]
      BY <1>6 DEF AppendRows
    <2>2. PICK D \in Positions : item \in [D -> Items]
      BY <1>0, <2>1 DEF LedgerShape
    <2>3. ingest'.stage = "report"
      BY <1>0, <2>1 DEF LedgerShape
    <2>4. new \in Positions /\ new \subseteq D
      <3>1. IsFiniteSet(D) /\ D \subseteq Nat /\ new \in SUBSET D
        BY <2>2 DEF Positions
      <3> HIDE DEF new
      <3> QED BY <3>1, FS_Subset DEF Positions
    <2>5. \A i \in new : item[i] \in Items /\ item[i].isNew /\ i \in DOMAIN item
      BY <2>2
    <2>b. item = ingest.recorded /\ m = Cardinality(new) /\ added = InOrder(new)
      OBVIOUS
    <2> HIDE DEF item, new, added, m
    <2>6. /\ m \in Nat /\ added \in [1..m -> new]
          /\ \A k, l \in 1..m : added[k] = added[l] => k = l
      BY <2>4, <2>b, InOrderLists
    <2>7. \A i \in new :
             /\ \A r \in Rows : r.number # item[i].number
             /\ \A j \in new : item[j].number = item[i].number => i = j
             /\ TextKeys(item[i].number) = {item[i].key}
      BY <1>0, <2>1, <2>5, <2>b DEF NumberedInv
    <2>8. /\ DOMAIN tail = 1..m
          /\ \A l \in 1..m : /\ tail[l] \in Row /\ tail[l].number = item[added[l]].number
                             /\ tail[l].key = item[added[l]].key /\ added[l] \in new
      <3>1. \A l \in 1..m : added[l] \in new /\ item[added[l]] \in Items
        BY <2>5, <2>6
      <3> QED BY <2>6, <3>1 DEF Items, Row, Statuses
    <2>9. tail \in Seq(Row) /\ Len(tail) = m
      <3>1. tail \in [1..m -> Row]
        BY <2>8
      <3> HIDE DEF tail
      <3> QED BY <2>6, <3>1
    <2> HIDE DEF tail
    <2>10. proposals \in Seq(Row)
      BY <1>0 DEF LedgerShape
    <2>11. /\ proposals' \in Seq(Row)
           /\ Len(proposals') = Len(proposals) + m
           /\ \A i \in 1..Len(proposals) : proposals'[i] = proposals[i]
           /\ \A l \in 1..m : proposals'[Len(proposals) + l] = tail[l]
      BY <2>1, <2>6, <2>9, <2>10
    <2>12. ASSUME NEW i \in DOMAIN proposals'
           PROVE  \/ i \in DOMAIN proposals /\ proposals'[i] = proposals[i]
                  \/ \E l \in 1..m : i = Len(proposals) + l /\ proposals'[i] = tail[l]
      <3>1. CASE i <= Len(proposals)
        BY <2>10, <2>11, <3>1
      <3>2. CASE ~(i <= Len(proposals))
        <4>1. i - Len(proposals) \in 1..m /\ i = Len(proposals) + (i - Len(proposals))
          BY <2>6, <2>10, <2>11, <3>2
        <4> QED BY <2>11, <4>1
      <3> QED BY <3>1, <3>2
    <2>13. LedgerShape' /\ NumberedInv'
      BY <1>0, <2>1, <2>3, <2>11 DEF LedgerShape, NumberedInv
    <2>14. \A i \in DOMAIN proposals : proposals[i] \in Rows
      BY DEF Rows, ToSet
    <2>15. ASSUME NEW i \in DOMAIN proposals', NEW j \in DOMAIN proposals',
                  proposals'[i].number = proposals'[j].number
           PROVE  i = j
      <3>1. \A a \in DOMAIN proposals, l \in 1..m : proposals[a].number # tail[l].number
        BY <2>7, <2>8, <2>14
      <3>2. \A k, l \in 1..m : tail[k].number = tail[l].number => k = l
        BY <2>6, <2>7, <2>8
      <3>3. \A a, b \in DOMAIN proposals : proposals[a].number = proposals[b].number => a = b
        BY <1>0 DEF NumbersNameOneProposal
      <3>4. CASE i \in DOMAIN proposals /\ proposals'[i] = proposals[i]
        BY <2>12, <2>15, <3>1, <3>3, <3>4
      <3>5. ASSUME NEW k \in 1..m, i = Len(proposals) + k, proposals'[i] = tail[k]
            PROVE  i = j
        BY <2>12, <2>15, <3>1, <3>2, <3>5
      <3> QED BY <2>12, <3>4, <3>5
    <2>16. ASSUME NEW r \in Rows'
           PROVE  TextKeys(r.number)' = {r.key} \ {Unkeyed}
      <3>1. \A n : TextKeys(n)' = TextKeys(n)
        BY <2>1 DEF TextKeys
      <3>2. PICK i \in DOMAIN proposals' : r = proposals'[i]
        BY DEF Rows, ToSet
      <3>3. CASE i \in DOMAIN proposals /\ proposals'[i] = proposals[i]
        <4>1. r \in Rows
          BY <2>14, <3>2, <3>3
        <4>2. TextKeys(r.number) = {r.key} \ {Unkeyed}
          BY <1>0, <4>1 DEF NumbersNameOneProposal, TextKeys
        <4> QED BY <3>1, <4>2
      <3>4. ASSUME NEW l \in 1..m, proposals'[i] = tail[l]
            PROVE  TextKeys(r.number)' = {r.key} \ {Unkeyed}
        <4>1. added[l] \in new /\ r.number = item[added[l]].number /\ r.key = item[added[l]].key
          BY <2>8, <3>2, <3>4
        <4>2. TextKeys(r.number) = {r.key} /\ r.key \in Keys
          BY <2>5, <2>7, <4>1 DEF Items
        <4> QED BY <3>1, <4>2, ProposalConstants
      <3> QED BY <2>12, <3>3, <3>4
    <2>17. NumbersNameOneProposal'
      BY <2>15, <2>16 DEF NumbersNameOneProposal, TextKeys
    <2> QED BY <2>13, <2>17 DEF LedgerInv
  <1>7. ASSUME PersistNarrations \/ IngestDies PROVE LedgerInv'
    <2>1. UNCHANGED <<answer, proposals, fullTexts>> /\ ingest'.stage = "none"
      BY <1>7, <1>a DEF PersistNarrations, IngestDies
    <2>2. LedgerShape' /\ NumberedInv'
      BY <1>0, <2>1 DEF LedgerShape, NumberedInv
    <2> QED BY <2>1, <2>2, LedgerStays DEF LedgerInv
  <1>8. ASSUME Decide PROVE LedgerInv'
    <2>1. /\ UNCHANGED <<answer, fullTexts, ingest>> /\ ingest = NoIngest
      BY <1>8 DEF Decide, Undisturbed
    <2>2. PICK i \in DOMAIN proposals, status \in Statuses :
             proposals' = [proposals EXCEPT ![i].status = status]
      BY <1>8 DEF Decide
    <2>3. proposals \in Seq(Row) /\ proposals[i] \in Row
      BY <1>0, <2>2 DEF LedgerShape
    <2>4. /\ proposals' \in Seq(Row)
          /\ DOMAIN proposals' = DOMAIN proposals
          /\ \A j \in DOMAIN proposals : /\ proposals'[j].number = proposals[j].number
                                         /\ proposals'[j].key = proposals[j].key
      <3>1. [proposals[i] EXCEPT !.status = status] \in Row
        BY <2>3 DEF Row
      <3>2. /\ [proposals[i] EXCEPT !.status = status].number = proposals[i].number
            /\ [proposals[i] EXCEPT !.status = status].key = proposals[i].key
        BY <2>3 DEF Row
      <3>3. proposals' = [proposals EXCEPT ![i] = [proposals[i] EXCEPT !.status = status]]
        BY <2>2
      <3> QED BY <2>2, <2>3, <3>1, <3>2, <3>3
    <2>5. LedgerShape' /\ NumberedInv'
      BY <1>0, <1>a, <2>1, <2>4 DEF LedgerShape, NumberedInv
    <2>6. NumbersNameOneProposal'
      <3>1. \A i_1, j_1 \in DOMAIN proposals' : proposals'[i_1].number = proposals'[j_1].number => i_1 = j_1
        BY <1>0, <2>4 DEF NumbersNameOneProposal
      <3>2. \A r \in Rows' : \E q \in Rows : q.number = r.number /\ q.key = r.key
        BY <2>4 DEF Rows, ToSet
      <3> QED BY <1>0, <2>1, <3>1, <3>2 DEF NumbersNameOneProposal
    <2> QED BY <2>5, <2>6 DEF LedgerInv
  <1>9. ASSUME WriteRowByHand PROVE LedgerInv'
    <2> DEFINE row == [number |-> NextNumber, key |-> Unkeyed, status |-> "settled"]
    <2>1. /\ UNCHANGED <<answer, fullTexts, ingest>> /\ ingest = NoIngest
          /\ proposals' = Append(proposals, row) /\ NextNumber <= MaxNumber
      BY <1>9 DEF WriteRowByHand, Undisturbed
    <2>2. /\ NextNumber \in Nat /\ NextNumber >= 1 /\ MaxNumber \in Nat
          /\ \A r \in Rows : r.number < NextNumber /\ r.number \in Nat
          /\ \A t \in fullTexts : t.number < NextNumber /\ t.number \in Nat
      <3>1. MaxNumber \in Nat
        BY ProposalConstants
      <3> QED BY <1>0, <3>1, NextNumberIsFree
    <2>3. row \in Row /\ row.number = NextNumber /\ row.key = Unkeyed
      BY <2>1, <2>2 DEF Row, Statuses
    <2> HIDE DEF row
    <2>4. proposals \in Seq(Row)
      BY <1>0 DEF LedgerShape
    <2>5. LedgerShape' /\ NumberedInv'
      BY <1>0, <1>a, <2>1, <2>3, <2>4 DEF LedgerShape, NumberedInv
    <2>6. TextKeys(NextNumber) = {}
      BY <2>2 DEF TextKeys
    <2>7. Rows' = Rows \cup {row}
      BY <2>1, <2>4 DEF Rows, ToSet
    <2>8. \A i \in DOMAIN proposals : proposals[i].number # NextNumber
      BY <2>2 DEF Rows, ToSet
    <2>9. \A i, j \in DOMAIN proposals' : proposals'[i].number = proposals'[j].number => i = j
      BY <1>0, <2>1, <2>3, <2>4, <2>8 DEF NumbersNameOneProposal
    <2>10. \A r \in Rows' : TextKeys(r.number)' = {r.key} \ {Unkeyed}
      <3>1. \A n : TextKeys(n)' = TextKeys(n)
        BY <2>1 DEF TextKeys
      <3>2. \A r \in Rows : TextKeys(r.number) = {r.key} \ {Unkeyed}
        BY <1>0 DEF NumbersNameOneProposal, TextKeys
      <3> QED BY <2>3, <2>6, <2>7, <3>1, <3>2
    <2>11. NumbersNameOneProposal'
      BY <2>9, <2>10 DEF NumbersNameOneProposal, TextKeys
    <2> QED BY <2>5, <2>11 DEF LedgerInv
  <1>10. CASE UNCHANGED proposalVars
    <2>1. UNCHANGED <<answer, proposals, fullTexts, ingest>>
      BY <1>10 DEF proposalVars
    <2>2. LedgerShape' /\ NumberedInv'
      BY <1>0, <2>1, LedgerStays DEF LedgerShape, NumberedInv
    <2> QED BY <2>1, <2>2, LedgerStays DEF LedgerInv
  <1> QED BY <1>1, <1>2, <1>3, <1>4, <1>5, <1>6, <1>7, <1>8, <1>9, <1>10 DEF ProposalNext
\* With nobody else at work on the ledger while an ingest runs, an RP number
\* names one proposal for ever: through ingests killed between a full text and
\* its row, repeated, or of other retrospectives, decisions and rows by hand.
THEOREM NumbersAreNeverReused ==
    ASSUME ~Overlaps
    PROVE  ProposalSpec => []NumbersNameOneProposal
  <1>1. LedgerInv => NumbersNameOneProposal
    BY DEF LedgerInv
  <1> QED BY <1>1, LedgerStarts, LedgerSteps, PTL DEF ProposalSpec

(********** BacktestEngine: the books of the portfolio simulator *************)
(* Every element's part of a sum, added one by one.                        *)
LEMMA SumUnfolds ==
    ASSUME NEW N \in Nat, NEW a \in [1..N -> Int]
    PROVE  \E f \in [0..N -> Int] :
               /\ f[0] = 0
               /\ \A n \in 1..N : f[n] = f[n - 1] + a[n]
               /\ SumOf(a) = f[N]
  <1> DEFINE step == [n \in 1..N |-> [x \in Int |-> x + a[n]]]
             Is(f) == f = [i \in 0..Len(a) |-> IF i = 0 THEN 0 ELSE f[i - 1] + a[i]]
  <1>1. a \in Seq(Int) /\ Len(a) = N
    OBVIOUS
  <1>2. PICK f \in [0..N -> Int] : Iterates(f, 0, step, N)
    <2>1. \A n \in 1..N, x \in Int : step[n][x] \in Int
      OBVIOUS
    <2> HIDE DEF step
    <2>2. StaysIn(Int, step, N)
      BY <2>1, Zenon DEF StaysIn
    <2>3. \E f \in [0..N -> Int] : Iterates(f, 0, step, N)
      <3>1. 0 \in Int
        OBVIOUS
      <3> QED BY <2>2, <3>1, RecursionExists
    <2> QED BY <2>3
  <1>3. f[0] = 0 /\ \A n \in 1..N : f[n] = f[n - 1] + a[n]
    <2>1. f[0] = 0 /\ \A n \in 1..N : f[n] = step[n][f[n - 1]]
      <3> HIDE DEF step
      <3> QED BY <1>2 DEF Iterates
    <2>2. \A n \in 1..N : f[n - 1] \in Int
      OBVIOUS
    <2> QED BY <2>1, <2>2
  <1>4. Is(f)
    BY <1>1, <1>3
  <1> DEFINE after == CHOOSE g : Is(g)
  <1>5. Is(after)
    BY <1>4
  <1>6. SumOf(a) = after[N]
    BY <1>1 DEF SumOf, AfterEach
  <1>7. /\ after[0] = 0
        /\ \A n \in 1..N : after[n] = after[n - 1] + a[n]
        /\ after = [n \in 0..N |-> after[n]]
    <2> HIDE DEF after
    <2> QED BY <1>1, <1>5
  <1> DEFINE G == {n \in 0..N : after[n] \in Int}
  <1> HIDE DEF after
  <1>8. 0 \in G /\ \A n \in 1..N : n - 1 \in G => n \in G
    <2>1. 0 \in G
      BY <1>7
    <2>2. ASSUME NEW n \in 1..N, n - 1 \in G PROVE n \in G
      <3>1. after[n - 1] \in Int /\ a[n] \in Int /\ n \in 0..N
        BY <2>2
      <3>2. after[n] = after[n - 1] + a[n]
        BY <1>7
      <3> QED BY <3>1, <3>2
    <2> HIDE DEF G
    <2> QED BY <2>1, <2>2
  <1>9. \A n \in 0..N : n \in G
    <2> HIDE DEF G
    <2> QED BY <1>8, Induction
  <1> QED BY <1>6, <1>7, <1>9

LEMMA SumIsWhole ==
    ASSUME NEW N \in Nat, NEW a \in [1..N -> Int]
    PROVE  SumOf(a) \in Int
  <1> N \in 0..N
    OBVIOUS
  <1> QED BY SumUnfolds

LEMMA SumOfNone ==
    ASSUME NEW a \in [1..0 -> Int]
    PROVE  SumOf(a) = 0
  <1> QED BY SumUnfolds

(* Two sums of the same beginnings have the same value there.              *)
LEMMA SumOfOneMore ==
    ASSUME NEW N \in Nat, NEW a \in [1..N -> Int], NEW b \in [1..(N + 1) -> Int],
           \A i \in 1..N : b[i] = a[i]
    PROVE  SumOf(b) = SumOf(a) + b[N + 1]
  <1>1. PICK f \in [0..N -> Int] :
            f[0] = 0 /\ (\A n \in 1..N : f[n] = f[n - 1] + a[n]) /\ SumOf(a) = f[N]
    BY SumUnfolds
  <1>2. PICK g \in [0..(N + 1) -> Int] :
            g[0] = 0 /\ (\A n \in 1..(N + 1) : g[n] = g[n - 1] + b[n]) /\ SumOf(b) = g[N + 1]
    <2>1. N + 1 \in Nat
      OBVIOUS
    <2> QED BY <2>1, SumUnfolds
  <1> DEFINE G == {n \in 0..N : f[n] = g[n]}
  <1>3. 0 \in G /\ \A n \in 1..N : n - 1 \in G => n \in G
    BY <1>1, <1>2
  <1>4. \A n \in 0..N : n \in G
    <2> HIDE DEF G
    <2> QED BY <1>3, Induction
  <1> QED BY <1>1, <1>2, <1>4

LEMMA SumOfPairs ==
    ASSUME NEW N \in Nat, NEW a \in [1..N -> Int], NEW b \in [1..N -> Int],
           NEW c \in [1..N -> Int], \A i \in 1..N : c[i] = a[i] + b[i]
    PROVE  SumOf(c) = SumOf(a) + SumOf(b)
  <1>1. PICK f \in [0..N -> Int] :
            f[0] = 0 /\ (\A n \in 1..N : f[n] = f[n - 1] + a[n]) /\ SumOf(a) = f[N]
    BY SumUnfolds
  <1>2. PICK g \in [0..N -> Int] :
            g[0] = 0 /\ (\A n \in 1..N : g[n] = g[n - 1] + b[n]) /\ SumOf(b) = g[N]
    BY SumUnfolds
  <1>3. PICK h \in [0..N -> Int] :
            h[0] = 0 /\ (\A n \in 1..N : h[n] = h[n - 1] + c[n]) /\ SumOf(c) = h[N]
    BY SumUnfolds
  <1> DEFINE G == {n \in 0..N : h[n] = f[n] + g[n]}
  <1>4. 0 \in G /\ \A n \in 1..N : n - 1 \in G => n \in G
    BY <1>1, <1>2, <1>3
  <1>5. \A n \in 0..N : n \in G
    <2> HIDE DEF G
    <2> QED BY <1>4, Induction
  <1> QED BY <1>1, <1>2, <1>3, <1>5

LEMMA SumOfOnes ==
    ASSUME NEW N \in Nat, NEW a \in [1..N -> Int], \A i \in 1..N : a[i] = 1
    PROVE  SumOf(a) = N
  <1>1. PICK f \in [0..N -> Int] :
            f[0] = 0 /\ (\A n \in 1..N : f[n] = f[n - 1] + a[n]) /\ SumOf(a) = f[N]
    BY SumUnfolds
  <1> DEFINE G == {n \in 0..N : f[n] = n}
  <1>2. 0 \in G /\ \A n \in 1..N : n - 1 \in G => n \in G
    BY <1>1
  <1>3. \A n \in 0..N : n \in G
    <2> HIDE DEF G
    <2> QED BY <1>2, Induction
  <1> QED BY <1>1, <1>3

LEMMA LoopStays ==
    ASSUME NEW N \in Nat, NEW S, NEW g, g = [n \in 0..N |-> g[n]], g[0] \in S,
           \A n \in 1..N : g[n - 1] \in S => g[n] \in S
    PROVE  g \in [0..N -> S]
  <1> DEFINE G == {n \in 0..N : g[n] \in S}
  <1>1. 0 \in G
    OBVIOUS
  <1>2. ASSUME NEW n \in 1..N, n - 1 \in G PROVE n \in G
    BY <1>2
  <1>3. \A n \in 0..N : n \in G
    <2> HIDE DEF G
    <2> QED BY <1>1, <1>2, Induction
  <1>4. \A n \in 0..N : g[n] \in S
    BY <1>3
  <1> QED BY <1>4

-----------------------------------------------------------------------------
Position ==
    [symbol : Tickers, entered : Nat, entryPrice : Int, shares : Nat \ {0},
     stop : Int, initialStop : Int, riskBasis : Int, commission : Int,
     daysHeld : Nat, basis : Int]

ClosedPosition ==
    [symbol : Tickers, shares : Nat \ {0}, entryPrice : Int, exitPrice : Int,
     reason : ExitReasons, initialStop : Int, riskBasis : Int, daysHeld : Nat,
     commission : Int]

CostOf(p) == p.shares * p.entryPrice + p.commission
CostsOf(positions) == Total(positions, CostOf)
PnlsOf(closed) == Total(closed, Pnl)

\* A position within the caps of the equity it was sized by.
Sized(p) ==
    /\ p.riskBasis > p.initialStop * Money
    /\ p.shares * (p.riskBasis - p.initialStop * Money) * 100 <= p.basis * RiskPct
    /\ plan.dayOrder => p.shares * p.entryPrice * 100 <= p.basis * CapPct

OpenPositions == {p \in Position : Sized(p)}
ClosedPositions == {t \in ClosedPosition : PlannedRisk(t) > 0}

EntryBooks == [cash : Int, held : Seq(OpenPositions), blocks : [BlockReasons -> Seq(Nat)]]

(* Each loop of a day, as the values it runs through.                      *)
Blocking(base, list) == AfterEach(base, list, BlockIfHeld)
BlocksStay(list, S) == \A n \in 1..Len(list), b \in S : BlockIfHeld(b, list[n]) \in S
BlockRun(f, base, list) ==
    f[0] = base /\ \A n \in 1..Len(list) : f[n] = BlockIfHeld(f[n - 1], list[n])

LEMMA BlockLoop ==
    ASSUME NEW list, Len(list) \in Nat, NEW S, NEW base \in S, BlocksStay(list, S)
    PROVE  \E f \in [0..Len(list) -> S] :
               BlockRun(f, base, list) /\ Blocking(base, list) = f[Len(list)]
  <1> DEFINE N == Len(list)
             step == [n \in 1..N |-> [b \in S |-> BlockIfHeld(b, list[n])]]
             Is(f) == f = [i \in 0..N |->
                               IF i = 0 THEN base ELSE BlockIfHeld(f[i - 1], list[i])]
             after == CHOOSE g : Is(g)
  <1>1. PICK f \in [0..N -> S] :
            f[0] = base /\ \A n \in 1..N : f[n] = BlockIfHeld(f[n - 1], list[n])
    <2>1. StaysIn(S, step, N)
      BY DEF StaysIn, BlocksStay
    <2>2. \E f \in [0..N -> S] : Iterates(f, base, step, N)
      <3> HIDE DEF step
      <3> QED BY <2>1, RecursionExists
    <2>3. PICK f \in [0..N -> S] : Iterates(f, base, step, N)
      BY <2>2
    <2>4. \A n \in 1..N : f[n - 1] \in S /\ f[n] = step[n][f[n - 1]]
      <3>1. \A n \in 1..N : f[n - 1] \in S
        OBVIOUS
      <3> HIDE DEF step
      <3> QED BY <2>3, <3>1 DEF Iterates
    <2>5. f[0] = base
      BY <2>3 DEF Iterates
    <2> QED BY <2>4, <2>5
  <1>2. Is(f)
    BY <1>1
  <1>3. Is(after)
    BY <1>2
  <1>4. Blocking(base, list) = after[N]
    BY DEF Blocking, AfterEach
  <1> HIDE DEF after
  <1>5. after = [i \in 0..N |-> IF i = 0 THEN base ELSE BlockIfHeld(after[i - 1], list[i])]
    BY <1>3
  <1> HIDE DEF N, Is
  <1>6. /\ after[0] = base
        /\ \A n \in 1..N : after[n] = BlockIfHeld(after[n - 1], list[n])
    <2>1. N \in Nat
      BY DEF N
    <2> QED BY <1>5, <2>1
  <1>7. after = [n \in 0..N |-> after[n]]
    BY <1>5
  <1>8. after \in [0..N -> S]
    <2>1. ASSUME NEW n \in 1..N, after[n - 1] \in S PROVE after[n] \in S
      BY <1>6, <2>1 DEF BlocksStay, N
    <2>2. N \in Nat
      BY DEF N
    <2> QED BY <1>6, <1>7, <2>1, <2>2, LoopStays
  <1> QED BY <1>4, <1>6, <1>8 DEF BlockRun, N

Considering(base, list) == AfterEach(base, list, Consider)
ConsidersStay(list, S) == \A n \in 1..Len(list), b \in S : Consider(b, list[n]) \in S
ConsiderRun(f, base, list) ==
    f[0] = base /\ \A n \in 1..Len(list) : f[n] = Consider(f[n - 1], list[n])

LEMMA ConsiderLoop ==
    ASSUME NEW list, Len(list) \in Nat, NEW S, NEW base \in S, ConsidersStay(list, S)
    PROVE  \E f \in [0..Len(list) -> S] :
               ConsiderRun(f, base, list) /\ Considering(base, list) = f[Len(list)]
  <1> DEFINE N == Len(list)
             step == [n \in 1..N |-> [b \in S |-> Consider(b, list[n])]]
             Is(f) == f = [i \in 0..N |->
                               IF i = 0 THEN base ELSE Consider(f[i - 1], list[i])]
             after == CHOOSE g : Is(g)
  <1>1. PICK f \in [0..N -> S] :
            f[0] = base /\ \A n \in 1..N : f[n] = Consider(f[n - 1], list[n])
    <2>1. StaysIn(S, step, N)
      BY DEF StaysIn, ConsidersStay
    <2>2. \E f \in [0..N -> S] : Iterates(f, base, step, N)
      <3> HIDE DEF step
      <3> QED BY <2>1, RecursionExists
    <2>3. PICK f \in [0..N -> S] : Iterates(f, base, step, N)
      BY <2>2
    <2>4. \A n \in 1..N : f[n - 1] \in S /\ f[n] = step[n][f[n - 1]]
      <3>1. \A n \in 1..N : f[n - 1] \in S
        OBVIOUS
      <3> HIDE DEF step
      <3> QED BY <2>3, <3>1 DEF Iterates
    <2>5. f[0] = base
      BY <2>3 DEF Iterates
    <2> QED BY <2>4, <2>5
  <1>2. Is(f)
    BY <1>1
  <1>3. Is(after)
    BY <1>2
  <1>4. Considering(base, list) = after[N]
    BY DEF Considering, AfterEach
  <1> HIDE DEF after
  <1>5. after = [i \in 0..N |-> IF i = 0 THEN base ELSE Consider(after[i - 1], list[i])]
    BY <1>3
  <1> HIDE DEF N, Is
  <1>6. /\ after[0] = base
        /\ \A n \in 1..N : after[n] = Consider(after[n - 1], list[n])
    <2>1. N \in Nat
      BY DEF N
    <2> QED BY <1>5, <2>1
  <1>7. after = [n \in 0..N |-> after[n]]
    BY <1>5
  <1>8. after \in [0..N -> S]
    <2>1. ASSUME NEW n \in 1..N, after[n - 1] \in S PROVE after[n] \in S
      BY <1>6, <2>1 DEF ConsidersStay, N
    <2>2. N \in Nat
      BY DEF N
    <2> QED BY <1>6, <1>7, <2>1, <2>2, LoopStays
  <1> QED BY <1>4, <1>6, <1>8 DEF ConsiderRun, N

Exiting(base, list) == AfterEach(base, list, ExitOrKeep)
ExitsStay(list, S) == \A n \in 1..Len(list), b \in S : ExitOrKeep(b, list[n]) \in S
ExitRun(f, base, list) ==
    f[0] = base /\ \A n \in 1..Len(list) : f[n] = ExitOrKeep(f[n - 1], list[n])

LEMMA ExitLoop ==
    ASSUME NEW list, Len(list) \in Nat, NEW S, NEW base \in S, ExitsStay(list, S)
    PROVE  \E f \in [0..Len(list) -> S] :
               ExitRun(f, base, list) /\ Exiting(base, list) = f[Len(list)]
  <1> DEFINE N == Len(list)
             step == [n \in 1..N |-> [b \in S |-> ExitOrKeep(b, list[n])]]
             Is(f) == f = [i \in 0..N |->
                               IF i = 0 THEN base ELSE ExitOrKeep(f[i - 1], list[i])]
             after == CHOOSE g : Is(g)
  <1>1. PICK f \in [0..N -> S] :
            f[0] = base /\ \A n \in 1..N : f[n] = ExitOrKeep(f[n - 1], list[n])
    <2>1. StaysIn(S, step, N)
      BY DEF StaysIn, ExitsStay
    <2>2. \E f \in [0..N -> S] : Iterates(f, base, step, N)
      <3> HIDE DEF step
      <3> QED BY <2>1, RecursionExists
    <2>3. PICK f \in [0..N -> S] : Iterates(f, base, step, N)
      BY <2>2
    <2>4. \A n \in 1..N : f[n - 1] \in S /\ f[n] = step[n][f[n - 1]]
      <3>1. \A n \in 1..N : f[n - 1] \in S
        OBVIOUS
      <3> HIDE DEF step
      <3> QED BY <2>3, <3>1 DEF Iterates
    <2>5. f[0] = base
      BY <2>3 DEF Iterates
    <2> QED BY <2>4, <2>5
  <1>2. Is(f)
    BY <1>1
  <1>3. Is(after)
    BY <1>2
  <1>4. Exiting(base, list) = after[N]
    BY DEF Exiting, AfterEach
  <1> HIDE DEF after
  <1>5. after = [i \in 0..N |-> IF i = 0 THEN base ELSE ExitOrKeep(after[i - 1], list[i])]
    BY <1>3
  <1> HIDE DEF N, Is
  <1>6. /\ after[0] = base
        /\ \A n \in 1..N : after[n] = ExitOrKeep(after[n - 1], list[n])
    <2>1. N \in Nat
      BY DEF N
    <2> QED BY <1>5, <2>1
  <1>7. after = [n \in 0..N |-> after[n]]
    BY <1>5
  <1>8. after \in [0..N -> S]
    <2>1. ASSUME NEW n \in 1..N, after[n - 1] \in S PROVE after[n] \in S
      BY <1>6, <2>1 DEF ExitsStay, N
    <2>2. N \in Nat
      BY DEF N
    <2> QED BY <1>6, <1>7, <2>1, <2>2, LoopStays
  <1> QED BY <1>4, <1>6, <1>8 DEF ExitRun, N

Selling(base, list) == AfterEach(base, list, SellAtClose)
SalesStay(list, S) == \A n \in 1..Len(list), b \in S : SellAtClose(b, list[n]) \in S
SaleRun(f, base, list) ==
    f[0] = base /\ \A n \in 1..Len(list) : f[n] = SellAtClose(f[n - 1], list[n])

LEMMA SellLoop ==
    ASSUME NEW list, Len(list) \in Nat, NEW S, NEW base \in S, SalesStay(list, S)
    PROVE  \E f \in [0..Len(list) -> S] :
               SaleRun(f, base, list) /\ Selling(base, list) = f[Len(list)]
  <1> DEFINE N == Len(list)
             step == [n \in 1..N |-> [b \in S |-> SellAtClose(b, list[n])]]
             Is(f) == f = [i \in 0..N |->
                               IF i = 0 THEN base ELSE SellAtClose(f[i - 1], list[i])]
             after == CHOOSE g : Is(g)
  <1>1. PICK f \in [0..N -> S] :
            f[0] = base /\ \A n \in 1..N : f[n] = SellAtClose(f[n - 1], list[n])
    <2>1. StaysIn(S, step, N)
      BY DEF StaysIn, SalesStay
    <2>2. \E f \in [0..N -> S] : Iterates(f, base, step, N)
      <3> HIDE DEF step
      <3> QED BY <2>1, RecursionExists
    <2>3. PICK f \in [0..N -> S] : Iterates(f, base, step, N)
      BY <2>2
    <2>4. \A n \in 1..N : f[n - 1] \in S /\ f[n] = step[n][f[n - 1]]
      <3>1. \A n \in 1..N : f[n - 1] \in S
        OBVIOUS
      <3> HIDE DEF step
      <3> QED BY <2>3, <3>1 DEF Iterates
    <2>5. f[0] = base
      BY <2>3 DEF Iterates
    <2> QED BY <2>4, <2>5
  <1>2. Is(f)
    BY <1>1
  <1>3. Is(after)
    BY <1>2
  <1>4. Selling(base, list) = after[N]
    BY DEF Selling, AfterEach
  <1> HIDE DEF after
  <1>5. after = [i \in 0..N |-> IF i = 0 THEN base ELSE SellAtClose(after[i - 1], list[i])]
    BY <1>3
  <1> HIDE DEF N, Is
  <1>6. /\ after[0] = base
        /\ \A n \in 1..N : after[n] = SellAtClose(after[n - 1], list[n])
    <2>1. N \in Nat
      BY DEF N
    <2> QED BY <1>5, <2>1
  <1>7. after = [n \in 0..N |-> after[n]]
    BY <1>5
  <1>8. after \in [0..N -> S]
    <2>1. ASSUME NEW n \in 1..N, after[n - 1] \in S PROVE after[n] \in S
      BY <1>6, <2>1 DEF SalesStay, N
    <2>2. N \in Nat
      BY DEF N
    <2> QED BY <1>6, <1>7, <2>1, <2>2, LoopStays
  <1> QED BY <1>4, <1>6, <1>8 DEF SaleRun, N

LEMMA BacktestFacts ==
    /\ TradingDays \in Nat \ {0} /\ CostUnit \in Nat \ {0} /\ MaxHold \in Nat
    /\ StopMultiple \in Nat \ {0} /\ CapPct \in Nat /\ RiskPct \in Nat
    /\ InitialCash \in Nat /\ Slippage \in 0..(CostUnit - 1)
    /\ CommissionPart \in 0..(CostUnit - 1)
    /\ Money \in Nat \ {0}
  <1>1. TradingDays \in Nat \ {0} /\ CostUnit \in Nat \ {0} /\ MaxHold \in Nat \ {0}
        /\ StopMultiple \in Nat \ {0}
    BY BacktestConstants
  <1>2. CapPct \in Nat /\ RiskPct \in Nat /\ InitialCash \in Nat
    BY BacktestConstants
  <1>3. Slippage \in 0..(CostUnit - 1) /\ CommissionPart \in 0..(CostUnit - 1)
    BY BacktestConstants
  <1>4. Money \in Nat \ {0}
    BY <1>1 DEF Money
  <1> QED BY <1>1, <1>2, <1>3, <1>4

(* What a symbol's positions cost, and what the closed ones earned, one     *)
(* more at a time.                                                          *)
LEMMA CostsAddUp ==
    ASSUME NEW h \in Seq(Position), NEW p \in Position
    PROVE  /\ CostsOf(h) \in Int /\ CostOf(p) \in Int
           /\ CostsOf(Append(h, p)) = CostsOf(h) + CostOf(p)
  <1> DEFINE N == Len(h)
             k == Append(h, p)
             a == [i \in DOMAIN h |-> CostOf(h[i])]
             b == [i \in DOMAIN k |-> CostOf(k[i])]
  <1>1. \A q \in Position : CostOf(q) \in Int
    <2> SUFFICES ASSUME NEW q \in Position PROVE CostOf(q) \in Int
      OBVIOUS
    <2>1. q.shares \in Int /\ q.entryPrice \in Int /\ q.commission \in Int
      BY DEF Position
    <2> QED BY <2>1 DEF CostOf
  <1>2. N \in Nat /\ DOMAIN h = 1..N /\ DOMAIN k = 1..(N + 1)
    OBVIOUS
  <1>3. \A i \in 1..N : h[i] \in Position /\ k[i] = h[i]
    OBVIOUS
  <1>4. k[N + 1] = p
    OBVIOUS
  <1> HIDE DEF N, k
  <1>5. a \in [1..N -> Int]
    BY <1>1, <1>2, <1>3
  <1>6. b \in [1..(N + 1) -> Int]
    <2>1. \A i \in 1..(N + 1) : k[i] \in Position
      BY <1>2, <1>3, <1>4
    <2> QED BY <1>1, <1>2, <2>1
  <1>7. (\A i \in 1..N : b[i] = a[i]) /\ b[N + 1] = CostOf(p)
    BY <1>2, <1>3, <1>4
  <1>8. SumOf(b) = SumOf(a) + CostOf(p) /\ SumOf(a) \in Int
    <2> HIDE DEF a, b
    <2> QED BY <1>2, <1>5, <1>6, <1>7, SumOfOneMore, SumIsWhole
  <1>9. CostsOf(h) = SumOf(a) /\ CostsOf(k) = SumOf(b)
    BY DEF CostsOf, Total
  <1> QED BY <1>1, <1>8, <1>9 DEF k

LEMMA PnlsAddUp ==
    ASSUME NEW h \in Seq(ClosedPosition), NEW p \in ClosedPosition
    PROVE  /\ PnlsOf(h) \in Int /\ Pnl(p) \in Int
           /\ PnlsOf(Append(h, p)) = PnlsOf(h) + Pnl(p)
  <1> DEFINE N == Len(h)
             k == Append(h, p)
             a == [i \in DOMAIN h |-> Pnl(h[i])]
             b == [i \in DOMAIN k |-> Pnl(k[i])]
  <1>1. \A q \in ClosedPosition : Pnl(q) \in Int
    BY DEF Pnl, ClosedPosition
  <1>2. N \in Nat /\ DOMAIN h = 1..N /\ DOMAIN k = 1..(N + 1)
    OBVIOUS
  <1>3. \A i \in 1..N : h[i] \in ClosedPosition /\ k[i] = h[i]
    OBVIOUS
  <1>4. k[N + 1] = p
    OBVIOUS
  <1> HIDE DEF N, k
  <1>5. a \in [1..N -> Int]
    BY <1>1, <1>2, <1>3
  <1>6. b \in [1..(N + 1) -> Int]
    <2>1. \A i \in 1..(N + 1) : k[i] \in ClosedPosition
      BY <1>2, <1>3, <1>4
    <2> QED BY <1>1, <1>2, <2>1
  <1>7. (\A i \in 1..N : b[i] = a[i]) /\ b[N + 1] = Pnl(p)
    BY <1>2, <1>3, <1>4
  <1>8. SumOf(b) = SumOf(a) + Pnl(p) /\ SumOf(a) \in Int
    <2> HIDE DEF a, b
    <2> QED BY <1>2, <1>5, <1>6, <1>7, SumOfOneMore, SumIsWhole
  <1>9. PnlsOf(h) = SumOf(a) /\ PnlsOf(k) = SumOf(b)
    BY DEF PnlsOf, Total
  <1> QED BY <1>1, <1>8, <1>9 DEF k

LEMMA PnlsAreWhole ==
    ASSUME NEW t \in Seq(ClosedPosition)
    PROVE  PnlsOf(t) \in Int
  <1>1. PICK n \in Nat : DOMAIN t = 1..n
    OBVIOUS
  <1>2. [i \in DOMAIN t |-> Pnl(t[i])] \in [1..n -> Int]
    <2> SUFFICES ASSUME NEW i \in 1..n PROVE Pnl(t[i]) \in Int
      BY <1>1
    <2>1. t[i] \in ClosedPosition
      BY <1>1
    <2> QED BY <2>1, PnlsAddUp
  <1> QED BY <1>2, SumIsWhole DEF PnlsOf, Total

LEMMA CommissionIsPart ==
    ASSUME NEW n \in Int
    PROVE  /\ Commission(n) \in Int
           /\ n >= 0 => 0 <= Commission(n) /\ Commission(n) <= n
  <1> DEFINE m == n * CommissionPart
             c == m \div CostUnit
  <1>1. CostUnit \in Nat \ {0} /\ CommissionPart \in 0..(CostUnit - 1)
    BY BacktestFacts
  <1>2. m \in Int
    BY <1>1
  <1>3. n >= 0 => 0 <= m /\ m <= n * CostUnit
    BY <1>1
  <1>4. c \in Int /\ c * CostUnit <= m /\ m < c * CostUnit + CostUnit
    <2> HIDE DEF m
    <2> QED BY <1>1, <1>2
  <1>5. ASSUME n >= 0 PROVE 0 <= c /\ c <= n
    <2>1. c * CostUnit <= n * CostUnit /\ 0 < (c + 1) * CostUnit
      <3> HIDE DEF m, c
      <3> QED BY <1>1, <1>2, <1>3, <1>4, <1>5
    <2> HIDE DEF m, c
    <2> QED BY <1>1, <1>4, <2>1
  <1> QED BY <1>4, <1>5 DEF Commission

LEMMA SaleAddsUp ==
    ASSUME NEW p \in OpenPositions, NEW price \in Nat, NEW reason \in ExitReasons
    PROVE  /\ Proceeds(p.shares * SoldAt(price)) \in Nat
           /\ ClosedTrade(p, price, reason) \in ClosedPositions
           /\ Pnl(ClosedTrade(p, price, reason))
                = Proceeds(p.shares * SoldAt(price)) - CostOf(p)
  <1> DEFINE sold == SoldAt(price)
             n == p.shares * sold
             t == ClosedTrade(p, price, reason)
  <1>1. p \in Position /\ p.riskBasis > p.initialStop * Money
    BY DEF OpenPositions, Sized
  <1>2. sold \in Nat
    <2>1. CostUnit \in Nat /\ CostUnit - Slippage \in Nat
      BY BacktestFacts
    <2> QED BY <2>1 DEF SoldAt
  <1>3. /\ p.symbol \in Tickers /\ p.shares \in Nat \ {0} /\ p.entryPrice \in Int
        /\ p.initialStop \in Int /\ p.riskBasis \in Int /\ p.daysHeld \in Nat
        /\ p.commission \in Int
    BY <1>1 DEF Position
  <1> HIDE DEF sold
  <1>4. n \in Nat
    BY <1>2, <1>3
  <1>5. Commission(n) \in Int /\ 0 <= Commission(n) /\ Commission(n) <= n
    BY <1>4, CommissionIsPart
  <1> DEFINE c == Commission(n)
  <1>6. t = [symbol |-> p.symbol, shares |-> p.shares,
             entryPrice |-> p.entryPrice, exitPrice |-> sold,
             reason |-> reason, initialStop |-> p.initialStop,
             riskBasis |-> p.riskBasis, daysHeld |-> p.daysHeld,
             commission |-> p.commission + c]
    BY DEF ClosedTrade, sold
  <1> HIDE DEF c, t
  <1>7. t \in ClosedPosition
    BY <1>2, <1>3, <1>5, <1>6 DEF ClosedPosition, c
  <1>8. PlannedRisk(t) > 0
    <2>1. PlannedRisk(t) = (p.riskBasis - p.initialStop * Money) * p.shares
      BY <1>6 DEF PlannedRisk
    <2> DEFINE d == p.riskBasis - p.initialStop * Money
    <2>2. d \in Nat \ {0}
      BY <1>1, <1>3, BacktestFacts
    <2> HIDE DEF d
    <2>3. d * p.shares > 0
      BY <1>3, <2>2
    <2> QED BY <2>1, <2>3 DEF d
  <1>9. Pnl(t) = (sold - p.entryPrice) * p.shares - (p.commission + c)
    BY <1>6 DEF Pnl
  <1>10. (sold - p.entryPrice) * p.shares = n - p.shares * p.entryPrice
    BY <1>2, <1>3
  <1>11. p.shares * p.entryPrice \in Int
    BY <1>3
  <1>12. Pnl(t) = (n - c) - (p.shares * p.entryPrice + p.commission)
    <2> HIDE DEF n
    <2> QED BY <1>3, <1>4, <1>5, <1>9, <1>10, <1>11 DEF c
  <1>13. Proceeds(n) = n - c /\ n - c \in Nat
    <2>1. n - c \in Nat
      <3> HIDE DEF n
      <3> QED BY <1>4, <1>5 DEF c
    <2> QED BY <2>1 DEF Proceeds, c
  <1> QED BY <1>7, <1>8, <1>12, <1>13 DEF CostOf, ClosedPositions, sold, t

LEMMA QuotientFits ==
    ASSUME NEW k \in Nat, NEW x \in Int, NEW d \in Nat \ {0}, k <= x \div d
    PROVE  k * d <= x
  <1> DEFINE q == x \div d
  <1>1. q \in Int /\ q * d <= x
    OBVIOUS
  <1>2. k * d <= q * d
    <2> HIDE DEF q
    <2> QED BY <1>1 DEF q
  <1>3. k * d \in Int /\ q * d \in Int
    <2> HIDE DEF q
    <2> QED BY <1>1
  <1> HIDE DEF q
  <1> QED BY <1>1, <1>2, <1>3

LEMMA SizeIsWhole ==
    ASSUME NEW equity \in Int, NEW sizing \in Int, NEW stop \in Int,
           sizing > 0, stop < sizing
    PROVE  PositionSize(equity, sizing, stop) \in Int
  <1> DEFINE byRisk == (equity * RiskPct) \div (100 * (sizing - stop))
             byCap == (equity * CapPct) \div (100 * sizing)
  <1>1. equity * RiskPct \in Int /\ equity * CapPct \in Int
    BY BacktestFacts
  <1>2. 100 * (sizing - stop) \in Nat \ {0} /\ 100 * sizing \in Nat \ {0}
    OBVIOUS
  <1>3. byRisk \in Int /\ byCap \in Int
    BY <1>1, <1>2
  <1> HIDE DEF byRisk, byCap
  <1> QED BY <1>3, MinOfTwo DEF PositionSize, byRisk, byCap

(* An order that is committed is paid for, and within the caps.            *)
EntryOf(s, execution, stop, shares) ==
    [symbol |-> s, entered |-> session, entryPrice |-> execution.price,
     shares |-> shares, stop |-> stop, initialStop |-> stop,
     riskBasis |-> execution.sizing, commission |-> Commission(shares * execution.price),
     daysHeld |-> 0, basis |-> signal.equity]

Entered(book, p) == [book EXCEPT !.cash = @ - CostOf(p), !.held = Append(@, p)]

LEMMA EntryIsSized ==
    ASSUME NEW s \in Tickers, NEW execution \in [filled : BOOLEAN, price : Int, sizing : Int],
           NEW stop \in Int, NEW shares \in Nat \ {0},
           plan.dayOrder => execution.price <= execution.sizing,
           execution.sizing > 0, stop * Money < execution.sizing,
           shares <= PositionSize(signal.equity, execution.sizing, stop * Money),
           session \in Nat, signal.equity \in Int
    PROVE  EntryOf(s, execution, stop, shares) \in OpenPositions
  <1> DEFINE p == EntryOf(s, execution, stop, shares)
             risk == execution.sizing - stop * Money
             byRisk == (signal.equity * RiskPct) \div (100 * risk)
             byCap == (signal.equity * CapPct) \div (100 * execution.sizing)
  <1>1. /\ execution.price \in Int /\ execution.sizing \in Int /\ stop * Money \in Int
        /\ shares * execution.price \in Int
        /\ signal.equity * RiskPct \in Int /\ signal.equity * CapPct \in Int
    BY BacktestFacts
  <1>2. risk \in Nat \ {0}
    BY <1>1
  <1>3. Commission(shares * execution.price) \in Int
    BY <1>1, CommissionIsPart
  <1>4. p \in Position
    BY <1>1, <1>3 DEF EntryOf, Position
  <1>5. PositionSize(signal.equity, execution.sizing, stop * Money) = Min({byRisk, byCap})
    BY DEF PositionSize
  <1>6. byRisk \in Int /\ byCap \in Int
    <2> HIDE DEF risk
    <2> QED BY <1>1, <1>2
  <1>7. shares <= byRisk /\ shares <= byCap
    <2>1. Min({byRisk, byCap}) = IF byRisk <= byCap THEN byRisk ELSE byCap
      BY <1>6, MinOfTwo
    <2> HIDE DEF byRisk, byCap
    <2> QED BY <1>5, <1>6, <2>1
  <1>8. shares * (100 * risk) <= signal.equity * RiskPct
    <2> HIDE DEF risk
    <2>1. 100 * risk \in Nat \ {0}
      BY <1>2
    <2> QED BY <1>1, <1>7, <2>1, QuotientFits
  <1>9. shares * (100 * execution.sizing) <= signal.equity * CapPct
    <2>1. 100 * execution.sizing \in Nat \ {0}
      BY <1>1
    <2> QED BY <1>1, <1>7, <2>1, QuotientFits
  <1>10. shares * risk * 100 <= signal.equity * RiskPct
    <2> HIDE DEF risk
    <2> QED BY <1>1, <1>2, <1>8
  <1>11. ASSUME plan.dayOrder PROVE shares * execution.price * 100 <= signal.equity * CapPct
    <2>1. execution.price <= execution.sizing
      BY <1>11
    <2>2. shares * execution.price <= shares * execution.sizing
      BY <1>1, <2>1
    <2>3. shares * (100 * execution.sizing) = 100 * (shares * execution.sizing)
      BY <1>1
    <2>4. shares * execution.sizing \in Int
      BY <1>1
    <2> QED BY <1>1, <1>9, <2>2, <2>3, <2>4
  <1>12. Sized(p)
    <2>1. /\ p.riskBasis = execution.sizing /\ p.initialStop = stop /\ p.shares = shares
          /\ p.basis = signal.equity /\ p.entryPrice = execution.price
      BY DEF EntryOf
    <2> HIDE DEF p
    <2> QED BY <1>1, <1>10, <1>11, <2>1 DEF Sized
  <1> QED BY <1>4, <1>12 DEF OpenPositions

LEMMA ReasonList ==
    /\ DOMAIN EntryBlockReasons = 1..10
    /\ \A i, j \in 1..10 : EntryBlockReasons[i] = EntryBlockReasons[j] => i = j
    /\ BlockReasons =
          {"regime", "earnings", "not_calculable", "max_concurrent", "already_held",
           "missing_data", "limit_not_reached", "invalid_stop", "zero_shares",
           "insufficient_cash"}
  <1>1. DOMAIN EntryBlockReasons = 1..10
    BY DEF EntryBlockReasons
  <1>2. ASSUME NEW i \in 1..10, NEW j \in 1..10,
               EntryBlockReasons[i] = EntryBlockReasons[j]
        PROVE  i = j
    BY <1>2 DEF EntryBlockReasons
  <1>3. BlockReasons =
          {"regime", "earnings", "not_calculable", "max_concurrent", "already_held",
           "missing_data", "limit_not_reached", "invalid_stop", "zero_shares",
           "insufficient_cash"}
    BY DEF BlockReasons, EntryBlockReasons
  <1> QED BY <1>1, <1>2, <1>3

MarketShape ==
    /\ plan \in EntryPlans /\ session \in Nat /\ signal.equity \in Int
    /\ today \in [Tickers -> Bar \cup {NoBar}]
    /\ latest \in [Tickers -> Bar \cup {NoBar}]

(* What one candidate does to the book: a block that is counted, or a       *)
(* position that is paid for.                                               *)
BlockedOrEntered(book, after) ==
    \/ \E reason \in BlockReasons : after = Blocked(book, reason)
    \/ \E p \in OpenPositions : CostOf(p) <= book.cash /\ after = Entered(book, p)

LEMMA OrderIsResolved ==
    ASSUME MarketShape, NEW bar \in Bar, NEW limit \in Nat
    PROVE  /\ Execution(bar, limit) \in [filled : BOOLEAN, price : Int, sizing : Int]
           /\ plan.dayOrder => Execution(bar, limit).price <= Execution(bar, limit).sizing
  <1> DEFINE price == IF bar.open <= limit THEN BoughtAt(bar.open) ELSE limit * Money
             e == Execution(bar, limit)
  <1>1. /\ bar.open \in Nat /\ bar.low \in Nat /\ limit * Money \in Nat
        /\ BoughtAt(bar.open) \in Int
    <2>1. bar.open \in Nat /\ bar.low \in Nat
      BY DEF Bar
    <2>2. CostUnit \in Int /\ Slippage \in Int
      BY BacktestFacts
    <2>3. limit * Money \in Nat
      BY BacktestFacts
    <2> QED BY <2>1, <2>2, <2>3 DEF BoughtAt
  <1>2. CASE ~plan.dayOrder
    <2>1. e = [filled |-> TRUE, price |-> BoughtAt(bar.open), sizing |-> limit * Money]
      BY <1>2 DEF Execution
    <2> HIDE DEF e
    <2> QED BY <1>1, <1>2, <2>1 DEF e
  <1>3. CASE plan.dayOrder
    <2> DEFINE sizing == Max({limit * Money, price})
    <2>1. e = [filled |-> bar.low <= limit, price |-> price, sizing |-> sizing]
      BY <1>3 DEF Execution
    <2>2. price \in Int
      BY <1>1
    <2>3. sizing = IF limit * Money >= price THEN limit * Money ELSE price
      <3> HIDE DEF price
      <3> QED BY <1>1, <2>2, MaxOfTwo
    <2> HIDE DEF price, sizing
    <2>4. sizing \in Int /\ price <= sizing
      BY <1>1, <2>2, <2>3
    <2>5. (bar.low <= limit) \in BOOLEAN
      OBVIOUS
    <2> HIDE DEF e
    <2> QED BY <2>1, <2>2, <2>4, <2>5 DEF e
  <1> QED BY <1>2, <1>3

LEMMA CommitIsEntry ==
    ASSUME MarketShape, NEW book \in EntryBooks, NEW s \in Tickers, NEW stop \in Int,
           NEW execution \in [filled : BOOLEAN, price : Int, sizing : Int],
           plan.dayOrder => execution.price <= execution.sizing
    PROVE  BlockedOrEntered(book, CommitEntry(book, s, execution, stop))
  <1> DEFINE shares == IF Unsizable(execution, stop) THEN 0
                       ELSE PositionSize(signal.equity, execution.sizing, stop * Money)
             reason == MechanicalBlock(book, execution, stop, shares)
             notional == shares * execution.price
             p == EntryOf(s, execution, stop, shares)
             after == CommitEntry(book, s, execution, stop)
  <1>1. CASE reason # "none"
    <2>1. after = Blocked(book, reason)
      BY <1>1 DEF CommitEntry
    <2>2. reason \in BlockReasons
      BY <1>1, ReasonList DEF MechanicalBlock
    <2> QED BY <2>1, <2>2 DEF BlockedOrEntered
  <1>2. CASE reason = "none"
    <2>1. /\ stop * Money < execution.sizing /\ execution.sizing > 0
          /\ ~Unsizable(execution, stop)
          /\ shares > 0 /\ notional + Commission(notional) <= book.cash
      <3>1. stop * Money \in Int /\ execution.sizing \in Int
        BY BacktestFacts
      <3> HIDE DEF shares
      <3>2. /\ ~Unsizable(execution, stop) /\ ~(shares <= 0)
            /\ ~(shares * execution.price + Commission(shares * execution.price) > book.cash)
        BY <1>2 DEF MechanicalBlock
      <3>3. shares \in Int
        <4>1. stop * Money < execution.sizing /\ execution.sizing > 0
          BY <3>1, <3>2 DEF Unsizable
        <4>2. PositionSize(signal.equity, execution.sizing, stop * Money) \in Int
          BY <3>1, <4>1, SizeIsWhole DEF MarketShape
        <4> QED BY <3>2, <4>2 DEF shares
      <3>4. notional \in Int
        BY <3>3
      <3>5. Commission(notional) \in Int
        BY <3>4, CommissionIsPart
      <3>6. book.cash \in Int
        BY DEF EntryBooks
      <3>7. stop * Money < execution.sizing /\ execution.sizing > 0
        BY <3>1, <3>2 DEF Unsizable
      <3> QED BY <3>2, <3>3, <3>4, <3>5, <3>6, <3>7
    <2> HIDE DEF reason
    <2>2. shares = PositionSize(signal.equity, execution.sizing, stop * Money)
      BY <2>1
    <2>3. shares \in Int
      <3>1. stop * Money \in Int
        BY BacktestFacts
      <3> HIDE DEF shares
      <3> QED BY <2>1, <2>2, <3>1, SizeIsWhole DEF MarketShape
    <2> DEFINE paid == [book EXCEPT !.cash = @ - notional - Commission(notional),
                                    !.held = Append(@, p)]
    <2>4. after = paid
      BY <1>2 DEF CommitEntry, EntryOf, reason
    <2> HIDE DEF shares, after
    <2>5. shares \in Nat \ {0}
      BY <2>1, <2>3
    <2>6. p \in OpenPositions
      <3>1. shares <= PositionSize(signal.equity, execution.sizing, stop * Money)
        BY <2>2, <2>3
      <3> QED BY <2>1, <2>5, <3>1, EntryIsSized DEF MarketShape
    <2>7. CostOf(p) = notional + Commission(notional)
      BY DEF CostOf, EntryOf
    <2>8. paid = Entered(book, p)
      <3>1. notional \in Int
        BY <2>5
      <3>2. Commission(notional) \in Int /\ book.cash \in Int
        BY <3>1, CommissionIsPart DEF EntryBooks
      <3>3. book.cash - notional - Commission(notional) = book.cash - CostOf(p)
        BY <2>7, <3>1, <3>2
      <3> QED BY <3>3 DEF Entered
    <2>9. CostOf(p) <= book.cash
      BY <2>1, <2>7
    <2> HIDE DEF p, paid
    <2> QED BY <2>4, <2>6, <2>8, <2>9 DEF BlockedOrEntered, after
  <1> QED BY <1>1, <1>2

LEMMA CandidateIsResolved ==
    ASSUME MarketShape, NEW book \in EntryBooks, NEW s \in Tickers
    PROVE  BlockedOrEntered(book, TryFill(book, s))
  <1>1. \A b, r : r \in BlockReasons => BlockedOrEntered(b, Blocked(b, r))
    BY DEF BlockedOrEntered
  <1>2. "missing_data" \in BlockReasons
    BY ReasonList
  <1>3. CASE today[s] = NoBar \/ latest[s] = NoBar \/ latest[s].atr = NoAtr
    <2>1. TryFill(book, s) = Blocked(book, "missing_data")
      BY <1>3 DEF TryFill
    <2> QED BY <1>1, <1>2, <2>1
  <1>4. CASE /\ today[s] # NoBar /\ latest[s] # NoBar /\ latest[s].atr # NoAtr
             /\ Decision(s, signal.day) # "allowed"
    <2>1. TryFill(book, s) = Blocked(book, Decision(s, signal.day))
      BY <1>4 DEF TryFill
    <2>2. Decision(s, signal.day) \in BlockReasons
      BY <1>4, ReasonList DEF Decision
    <2> QED BY <1>1, <2>1, <2>2
  <1>5. CASE /\ today[s] # NoBar /\ latest[s] # NoBar /\ latest[s].atr # NoAtr
             /\ Decision(s, signal.day) = "allowed"
    <2> DEFINE limit == EntryLimitPrice(latest[s].close, latest[s].atr)
               stop == InitialStop(latest[s].close, latest[s].atr)
               e == Execution(today[s], limit)
    <2>1. today[s] \in Bar /\ latest[s] \in Bar
      BY <1>5 DEF MarketShape
    <2>2. latest[s].close \in Nat /\ latest[s].atr \in Nat
      BY <1>5, <2>1 DEF Bar
    <2>3. limit \in Nat /\ stop \in Int
      <3>1. plan.multiple \in Nat /\ StopMultiple \in Nat
        <4>1. plan \in [multiple : Nat, dayOrder : BOOLEAN, concurrent : Nat]
          BY BacktestConstants DEF MarketShape
        <4> QED BY <4>1, BacktestFacts
      <3> QED BY <2>2, <3>1 DEF EntryLimitPrice, InitialStop
    <2>4. TryFill(book, s) = CommitEntry(book, s, e, stop)
      BY <1>5 DEF TryFill
    <2> HIDE DEF limit, stop
    <2> QED BY <2>1, <2>3, <2>4, OrderIsResolved, CommitIsEntry
  <1> QED BY <1>3, <1>4, <1>5

-----------------------------------------------------------------------------
BlocksOf(x) == SumOf([i \in DOMAIN EntryBlockReasons |-> Len(x[EntryBlockReasons[i]])])

EntriesOf(book) == BlocksOf(book.blocks) + Len(book.held)

(* What the fills of a session keep: nothing is borrowed, what was spent is *)
(* in the positions, and there are no more of them than planned.            *)
EntryState(worth) ==
    {b \in EntryBooks : /\ b.cash >= 0
                        /\ b.cash + CostsOf(b.held) = worth
                        /\ Len(b.held) <= plan.concurrent}

LEMMA SumOfOne ==
    ASSUME NEW N \in Nat, NEW a \in [1..N -> Int], NEW k \in 1..N,
           \A i \in 1..N : a[i] = IF i = k THEN 1 ELSE 0
    PROVE  SumOf(a) = 1
  <1>1. PICK f \in [0..N -> Int] :
            f[0] = 0 /\ (\A n \in 1..N : f[n] = f[n - 1] + a[n]) /\ SumOf(a) = f[N]
    BY SumUnfolds
  <1> DEFINE G == {n \in 0..N : f[n] = IF n >= k THEN 1 ELSE 0}
  <1>2. 0 \in G /\ \A n \in 1..N : n - 1 \in G => n \in G
    BY <1>1
  <1>3. \A n \in 0..N : n \in G
    <2> HIDE DEF G
    <2> QED BY <1>2, Induction
  <1> QED BY <1>1, <1>3

LEMMA OneMoreBlock ==
    ASSUME NEW x \in [BlockReasons -> Seq(Nat)], NEW r \in BlockReasons, NEW n \in Nat
    PROVE  /\ [x EXCEPT ![r] = Append(@, n)] \in [BlockReasons -> Seq(Nat)]
           /\ BlocksOf([x EXCEPT ![r] = Append(@, n)]) = BlocksOf(x) + 1
           /\ BlocksOf(x) \in Int
  <1> DEFINE y == [x EXCEPT ![r] = Append(@, n)]
             reason(i) == EntryBlockReasons[i]
  <1>1. y \in [BlockReasons -> Seq(Nat)]
    OBVIOUS
  <1>2. \A q \in BlockReasons :
            /\ Len(x[q]) \in Nat
            /\ Len(y[q]) = IF q = r THEN Len(x[q]) + 1 ELSE Len(x[q])
    OBVIOUS
  <1>3. DOMAIN EntryBlockReasons = 1..10 /\ 10 \in Nat
    BY ReasonList
  <1>4. \A i \in 1..10 : reason(i) \in BlockReasons
    BY <1>3 DEF BlockReasons
  <1>5. PICK k \in 1..10 : reason(k) = r
    BY <1>3 DEF BlockReasons
  <1>6. \A i \in 1..10 : reason(i) = r <=> i = k
    BY <1>5, ReasonList
  <1> HIDE DEF y, reason
  <1> DEFINE a == [i \in 1..10 |-> Len(x[reason(i)])]
             b == [i \in 1..10 |-> IF i = k THEN 1 ELSE 0]
             c == [i \in 1..10 |-> Len(y[reason(i)])]
  <1>7. \A i \in 1..10 : /\ Len(x[reason(i)]) \in Nat
                         /\ Len(y[reason(i)]) = Len(x[reason(i)]) + (IF i = k THEN 1 ELSE 0)
    <2> SUFFICES ASSUME NEW i \in 1..10
                 PROVE  /\ Len(x[reason(i)]) \in Nat
                        /\ Len(y[reason(i)]) = Len(x[reason(i)]) + (IF i = k THEN 1 ELSE 0)
      OBVIOUS
    <2>1. reason(i) \in BlockReasons
      BY <1>4
    <2>2. /\ Len(x[reason(i)]) \in Nat
          /\ Len(y[reason(i)]) = IF reason(i) = r THEN Len(x[reason(i)]) + 1
                                ELSE Len(x[reason(i)])
      BY <1>2, <2>1
    <2>3. CASE i = k
      <3>1. reason(i) = r
        BY <1>6, <2>3
      <3> QED BY <2>2, <2>3, <3>1
    <2>4. CASE i # k
      <3>1. reason(i) # r
        BY <1>6, <2>4
      <3> QED BY <2>2, <2>4, <3>1
    <2> QED BY <2>3, <2>4
  <1>8. a \in [1..10 -> Int] /\ b \in [1..10 -> Int] /\ c \in [1..10 -> Int]
    BY <1>7
  <1>9. \A i \in 1..10 : c[i] = a[i] + b[i]
    BY <1>7
  <1>10. \A i \in 1..10 : b[i] = IF i = k THEN 1 ELSE 0
    OBVIOUS
  <1>11. BlocksOf(x) = SumOf(a) /\ BlocksOf(y) = SumOf(c)
    BY <1>3 DEF BlocksOf, reason
  <1> HIDE DEF a, b, c
  <1>12. SumOf(b) = 1
    BY <1>3, <1>8, <1>10, SumOfOne
  <1>13. SumOf(c) = SumOf(a) + SumOf(b) /\ SumOf(a) \in Int
    BY <1>3, <1>8, <1>9, SumOfPairs, SumIsWhole
  <1> QED BY <1>1, <1>11, <1>12, <1>13 DEF y

LEMMA BlocksAreWhole ==
    ASSUME NEW x \in [BlockReasons -> Seq(Nat)]
    PROVE  BlocksOf(x) \in Int
  <1>1. "regime" \in BlockReasons /\ 0 \in Nat
    BY ReasonList
  <1> QED BY <1>1, OneMoreBlock

LEMMA BlockIsCounted ==
    ASSUME MarketShape, NEW worth \in Int, NEW b \in EntryState(worth),
           NEW r \in BlockReasons
    PROVE  /\ Blocked(b, r) \in EntryState(worth)
           /\ EntriesOf(Blocked(b, r)) = EntriesOf(b) + 1
  <1> DEFINE a == Blocked(b, r)
  <1>1. b \in EntryBooks /\ session \in Nat
    BY DEF EntryState, MarketShape
  <1> DEFINE x == [b.blocks EXCEPT ![r] = Append(@, session)]
  <1>a. a = [cash |-> b.cash, held |-> b.held, blocks |-> x]
    <2>1. a = [b EXCEPT !.blocks = x]
      BY DEF Blocked
    <2> HIDE DEF a, x
    <2> QED BY <1>1, <2>1 DEF EntryBooks
  <1>2. /\ a.cash = b.cash /\ a.held = b.held
        /\ a.blocks = x
    <2> HIDE DEF a, x
    <2> QED BY <1>a
  <1>3. /\ b.blocks \in [BlockReasons -> Seq(Nat)] /\ b.cash \in Int
        /\ b.held \in Seq(OpenPositions)
    BY <1>1 DEF EntryBooks
  <1>4. /\ a.blocks \in [BlockReasons -> Seq(Nat)]
        /\ BlocksOf(a.blocks) = BlocksOf(b.blocks) + 1 /\ BlocksOf(b.blocks) \in Int
    <2>1. /\ x \in [BlockReasons -> Seq(Nat)]
          /\ BlocksOf(x) = BlocksOf(b.blocks) + 1 /\ BlocksOf(b.blocks) \in Int
      BY <1>1, <1>3, OneMoreBlock
    <2> HIDE DEF a, x
    <2> QED BY <1>2, <2>1
  <1> HIDE DEF a, x
  <1>5. a \in EntryBooks
    <2> HIDE DEF x
    <2> QED BY <1>a, <1>2, <1>3, <1>4 DEF EntryBooks
  <1>6. Len(b.held) \in Nat
    BY <1>3
  <1>7. a \in EntryState(worth)
    BY <1>2, <1>5 DEF EntryState
  <1>8. EntriesOf(a) = EntriesOf(b) + 1
    <2>1. EntriesOf(a) = BlocksOf(a.blocks) + Len(a.held)
      BY DEF EntriesOf
    <2>2. EntriesOf(b) = BlocksOf(b.blocks) + Len(b.held)
      BY DEF EntriesOf
    <2>3. Len(a.held) = Len(b.held)
      BY <1>2
    <2>4. BlocksOf(a.blocks) = BlocksOf(b.blocks) + 1 /\ BlocksOf(b.blocks) \in Int
      BY <1>4
    <2> HIDE DEF EntriesOf, BlocksOf
    <2> QED BY <1>6, <2>1, <2>2, <2>3, <2>4
  <1> QED BY <1>7, <1>8 DEF a

LEMMA EntryIsCounted ==
    ASSUME MarketShape, NEW worth \in Int, NEW b \in EntryState(worth),
           NEW p \in OpenPositions, CostOf(p) <= b.cash, Len(b.held) < plan.concurrent
    PROVE  /\ Entered(b, p) \in EntryState(worth)
           /\ EntriesOf(Entered(b, p)) = EntriesOf(b) + 1
  <1> DEFINE a == Entered(b, p)
  <1>1. b \in EntryBooks /\ b.cash >= 0 /\ b.cash + CostsOf(b.held) = worth
    BY DEF EntryState
  <1> DEFINE c == b.cash - CostOf(p)
             h == Append(b.held, p)
  <1>a. a = [cash |-> c, held |-> h, blocks |-> b.blocks]
    <2>1. a = [b EXCEPT !.cash = c, !.held = h]
      BY DEF Entered
    <2> HIDE DEF a, c, h
    <2> QED BY <1>1, <2>1 DEF EntryBooks
  <1>2. /\ a.cash = b.cash - CostOf(p) /\ a.held = Append(b.held, p)
        /\ a.blocks = b.blocks
    <2> HIDE DEF a
    <2> QED BY <1>a
  <1>3. /\ b.blocks \in [BlockReasons -> Seq(Nat)] /\ b.cash \in Int
        /\ b.held \in Seq(OpenPositions)
    BY <1>1 DEF EntryBooks
  <1>4. b.held \in Seq(Position) /\ p \in Position
    BY <1>3 DEF OpenPositions
  <1>5. /\ CostsOf(a.held) = CostsOf(b.held) + CostOf(p)
        /\ CostsOf(b.held) \in Int /\ CostOf(p) \in Int
    BY <1>2, <1>4, CostsAddUp
  <1>6. BlocksOf(b.blocks) \in Int
    BY <1>3, BlocksAreWhole
  <1> HIDE DEF a
  <1>7. a.held \in Seq(OpenPositions) /\ Len(a.held) = Len(b.held) + 1 /\ Len(b.held) \in Nat
    BY <1>2, <1>3
  <1>8. a.cash \in Int /\ a.cash >= 0 /\ a.cash + CostsOf(a.held) = worth
    BY <1>1, <1>2, <1>3, <1>5
  <1>9. a \in EntryBooks
    <2> HIDE DEF c, h
    <2> QED BY <1>a, <1>2, <1>3, <1>7, <1>8 DEF EntryBooks
  <1>10. plan.concurrent \in Nat
    <2>1. plan \in [multiple : Nat, dayOrder : BOOLEAN, concurrent : Nat]
      BY BacktestConstants DEF MarketShape
    <2> QED BY <2>1
  <1>11. Len(a.held) <= plan.concurrent
    BY <1>7, <1>10
  <1>12. EntriesOf(a) = EntriesOf(b) + 1
    BY <1>2, <1>6, <1>7 DEF EntriesOf
  <1>13. a \in EntryState(worth)
    BY <1>8, <1>9, <1>11 DEF EntryState
  <1> QED BY <1>12, <1>13 DEF a

LEMMA CandidateCounts ==
    ASSUME MarketShape, NEW worth \in Int, NEW b \in EntryState(worth), NEW s \in Tickers
    PROVE  /\ BlockIfHeld(b, s) \in EntryState(worth)
           /\ Consider(b, s) \in EntryState(worth)
           /\ Holds(held, s) => /\ EntriesOf(BlockIfHeld(b, s)) = EntriesOf(b) + 1
                                /\ Consider(b, s) = b
           /\ ~Holds(held, s) => /\ BlockIfHeld(b, s) = b
                                 /\ EntriesOf(Consider(b, s)) = EntriesOf(b) + 1
  <1>1. "already_held" \in BlockReasons /\ "max_concurrent" \in BlockReasons
    BY ReasonList
  <1>2. CASE Holds(held, s)
    <2>1. BlockIfHeld(b, s) = Blocked(b, "already_held") /\ Consider(b, s) = b
      BY <1>2 DEF BlockIfHeld, Consider
    <2> QED BY <1>1, <1>2, <2>1, BlockIsCounted
  <1>3. CASE ~Holds(held, s) /\ Len(b.held) >= plan.concurrent
    <2>1. BlockIfHeld(b, s) = b /\ Consider(b, s) = Blocked(b, "max_concurrent")
      BY <1>3 DEF BlockIfHeld, Consider
    <2> QED BY <1>1, <1>3, <2>1, BlockIsCounted
  <1>4. CASE ~Holds(held, s) /\ ~(Len(b.held) >= plan.concurrent)
    <2>1. BlockIfHeld(b, s) = b /\ Consider(b, s) = TryFill(b, s)
      BY <1>4 DEF BlockIfHeld, Consider
    <2>2. b \in EntryBooks
      BY DEF EntryState
    <2>3. BlockedOrEntered(b, TryFill(b, s))
      BY <2>2, CandidateIsResolved
    <2>4. Len(b.held) < plan.concurrent
      <3>1. plan \in [multiple : Nat, dayOrder : BOOLEAN, concurrent : Nat]
        BY BacktestConstants DEF MarketShape
      <3>2. plan.concurrent \in Nat /\ Len(b.held) \in Nat
        BY <2>2, <3>1 DEF EntryBooks
      <3> QED BY <1>4, <3>2
    <2>5. TryFill(b, s) \in EntryState(worth) /\ EntriesOf(TryFill(b, s)) = EntriesOf(b) + 1
      BY <2>3, <2>4, BlockIsCounted, EntryIsCounted DEF BlockedOrEntered
    <2> QED BY <1>4, <2>1, <2>5
  <1> QED BY <1>2, <1>3, <1>4

LEMMA FillsCountEveryCandidate ==
    ASSUME MarketShape, pending \in Seq(Tickers), NEW worth \in Int,
           NEW book \in EntryState(worth)
    PROVE  /\ FillAll(book) \in EntryState(worth)
           /\ EntriesOf(FillAll(book)) = EntriesOf(book) + Len(pending)
  <1> DEFINE N == Len(pending)
             S == EntryState(worth)
  <1>0. N \in Nat
    OBVIOUS
  <1>1. N \in Nat /\ (\A n \in 1..N : pending[n] \in Tickers) /\ book \in S
    OBVIOUS
  <1>2. \A n \in 1..N, b \in S :
            BlockIfHeld(b, pending[n]) \in S /\ Consider(b, pending[n]) \in S
    BY <1>1, CandidateCounts
  <1>2a. BlocksStay(pending, S) /\ ConsidersStay(pending, S)
    <2> HIDE DEF S
    <2> QED BY <1>2 DEF BlocksStay, ConsidersStay
  <1>3. PICK f \in [0..N -> S] : BlockRun(f, book, pending) /\ Blocking(book, pending) = f[N]
    <2> HIDE DEF S
    <2> QED BY <1>0, <1>1, <1>2a, BlockLoop
  <1>4. f[N] \in S
    BY <1>1
  <1>5. PICK g \in [0..N -> S] :
            ConsiderRun(g, f[N], pending) /\ Considering(f[N], pending) = g[N]
    <2> HIDE DEF S
    <2> QED BY <1>0, <1>2a, <1>4, ConsiderLoop
  <1>5a. /\ f[0] = book /\ g[0] = f[N]
         /\ \A n \in 1..N : /\ f[n] = BlockIfHeld(f[n - 1], pending[n])
                           /\ g[n] = Consider(g[n - 1], pending[n])
    BY <1>3, <1>5 DEF BlockRun, ConsiderRun
  <1>6. FillAll(book) = g[N]
    <2>1. FillAll(book) = Considering(Blocking(book, pending), pending)
      BY DEF FillAll, Considering, Blocking
    <2> QED BY <1>3, <1>5, <2>1
  <1>7. \A n \in 0..N : EntriesOf(f[n]) \in Int /\ EntriesOf(g[n]) \in Int
    <2>1. \A b \in S : EntriesOf(b) \in Int
      <3> SUFFICES ASSUME NEW b \in S PROVE EntriesOf(b) \in Int
        OBVIOUS
      <3>1. b.blocks \in [BlockReasons -> Seq(Nat)] /\ Len(b.held) \in Nat
        BY DEF EntryState, EntryBooks
      <3>2. BlocksOf(b.blocks) \in Int
        BY <3>1, BlocksAreWhole
      <3> QED BY <3>1, <3>2 DEF EntriesOf
    <2>2. \A n \in 0..N : f[n] \in S /\ g[n] \in S
      OBVIOUS
    <2> QED BY <2>1, <2>2
  <1> DEFINE G == {n \in 0..N : EntriesOf(f[n]) + EntriesOf(g[n])
                                   = EntriesOf(book) + EntriesOf(f[N]) + n}
  <1>8. 0 \in G
    BY <1>1, <1>5a, <1>7
  <1>9. ASSUME NEW n \in 1..N, n - 1 \in G PROVE n \in G
    <2>1. f[n - 1] \in S /\ g[n - 1] \in S /\ pending[n] \in Tickers
      BY <1>1
    <2>2. \/ /\ EntriesOf(f[n]) = EntriesOf(f[n - 1]) + 1
             /\ EntriesOf(g[n]) = EntriesOf(g[n - 1])
          \/ /\ EntriesOf(f[n]) = EntriesOf(f[n - 1])
             /\ EntriesOf(g[n]) = EntriesOf(g[n - 1]) + 1
      BY <1>5a, <2>1, CandidateCounts
    <2>3. EntriesOf(f[n - 1]) + EntriesOf(g[n - 1])
             = EntriesOf(book) + EntriesOf(f[N]) + (n - 1)
      BY <1>9
    <2>4. /\ EntriesOf(f[n - 1]) \in Int /\ EntriesOf(g[n - 1]) \in Int
          /\ EntriesOf(f[0]) \in Int /\ EntriesOf(f[N]) \in Int
      BY <1>1, <1>7
    <2>5. EntriesOf(book) = EntriesOf(f[0])
      BY <1>5a
    <2>6. EntriesOf(f[n]) + EntriesOf(g[n]) = EntriesOf(book) + EntriesOf(f[N]) + n
      <3>1. n \in Int
        OBVIOUS
      <3> HIDE DEF N, S, G
      <3> QED BY <2>2, <2>3, <2>4, <2>5, <3>1
    <2> QED BY <2>6
  <1>10. N \in G
    <2> HIDE DEF G
    <2>1. \A n \in 0..N : n \in G
      BY <1>1, <1>8, <1>9, Induction
    <2> QED BY <1>1, <2>1
  <1>11. EntriesOf(f[N]) \in Int /\ EntriesOf(g[N]) \in Int /\ EntriesOf(book) \in Int
    BY <1>1, <1>5a, <1>7
  <1>12. g[N] \in S
    BY <1>1
  <1>13. EntriesOf(f[N]) + EntriesOf(g[N]) = EntriesOf(book) + EntriesOf(f[N]) + N
    BY <1>10
  <1>14. EntriesOf(g[N]) = EntriesOf(book) + N
    <2> HIDE DEF N, S, G
    <2> QED BY <1>0, <1>11, <1>13
  <1> QED BY <1>6, <1>12, <1>14

-----------------------------------------------------------------------------
ExitBooks ==
    {b \in [cash : Int, trades : Seq(ClosedPositions), held : Seq(OpenPositions)] :
        b.cash >= 0}

SaleBooks == {b \in [cash : Int, trades : Seq(ClosedPositions)] : b.cash >= 0}

\* What a loop over positions changes by the cost of each.
ExitWorth(b) == b.cash + CostsOf(b.held) - PnlsOf(b.trades)
SaleWorth(b) == b.cash - PnlsOf(b.trades)

LEMMA SettledPrice ==
    ASSUME NEW p \in OpenPositions, NEW bar \in Bar, EvaluateExit(bar, p).reason # "none"
    PROVE  EvaluateExit(bar, p).reason \in ExitReasons /\ EvaluateExit(bar, p).price \in Nat
  <1>1. /\ bar.open \in Nat /\ bar.low \in Nat /\ bar.close \in Nat
        /\ p.stop \in Int /\ p.daysHeld \in Nat
    BY DEF Bar, OpenPositions, Position
  <1>2. CASE bar.open <= p.stop
    BY <1>1, <1>2 DEF EvaluateExit, ExitReasons
  <1>3. CASE ~(bar.open <= p.stop) /\ bar.low <= p.stop
    BY <1>1, <1>3 DEF EvaluateExit, ExitReasons
  <1>4. CASE ~(bar.open <= p.stop) /\ ~(bar.low <= p.stop) /\ p.daysHeld + 1 >= MaxHold
    BY <1>1, <1>4 DEF EvaluateExit, ExitReasons
  <1>5. CASE ~(bar.open <= p.stop) /\ ~(bar.low <= p.stop) /\ ~(p.daysHeld + 1 >= MaxHold)
    BY <1>5 DEF EvaluateExit
  <1> QED BY <1>2, <1>3, <1>4, <1>5

LEMMA OlderPosition ==
    ASSUME NEW p \in OpenPositions
    PROVE  /\ [p EXCEPT !.daysHeld = @ + 1] \in OpenPositions
           /\ CostOf([p EXCEPT !.daysHeld = @ + 1]) = CostOf(p)
  <1> DEFINE q == [p EXCEPT !.daysHeld = @ + 1]
  <1>1. p \in Position
    BY DEF OpenPositions
  <1>2. q \in Position
    BY <1>1 DEF Position
  <1>3. /\ q.shares = p.shares /\ q.entryPrice = p.entryPrice /\ q.riskBasis = p.riskBasis
        /\ q.commission = p.commission /\ q.initialStop = p.initialStop /\ q.basis = p.basis
    BY <1>1 DEF Position
  <1>4. Sized(p)
    BY DEF OpenPositions
  <1> HIDE DEF q
  <1>5. Sized(q)
    BY <1>3, <1>4 DEF Sized
  <1>6. CostOf(q) = CostOf(p)
    BY <1>3 DEF CostOf
  <1> QED BY <1>2, <1>5, <1>6 DEF OpenPositions, q

LEMMA SettledSums ==
    ASSUME NEW t \in Seq(ClosedPositions), NEW p \in OpenPositions, NEW price \in Nat,
           NEW reason \in ExitReasons
    PROVE  LET closed == ClosedTrade(p, price, reason)
               earned == Proceeds(p.shares * SoldAt(price))
           IN  /\ earned \in Nat
               /\ Append(t, closed) \in Seq(ClosedPositions)
               /\ Len(Append(t, closed)) = Len(t) + 1
               /\ PnlsOf(t) \in Int /\ CostOf(p) \in Int
               /\ PnlsOf(Append(t, closed)) = PnlsOf(t) + earned - CostOf(p)
  <1> DEFINE closed == ClosedTrade(p, price, reason)
             earned == Proceeds(p.shares * SoldAt(price))
  <1>1. earned \in Nat /\ closed \in ClosedPositions /\ Pnl(closed) = earned - CostOf(p)
    BY SaleAddsUp
  <1>2. t \in Seq(ClosedPosition) /\ closed \in ClosedPosition
    BY <1>1 DEF ClosedPositions
  <1>3. CostOf(p) \in Int
    <2>1. p \in Position /\ <<>> \in Seq(Position)
      BY DEF OpenPositions
    <2> QED BY <2>1, CostsAddUp
  <1> HIDE DEF closed, earned
  <1>4. PnlsOf(t) \in Int /\ PnlsOf(Append(t, closed)) = PnlsOf(t) + Pnl(closed)
    BY <1>2, PnlsAddUp
  <1>5. Append(t, closed) \in Seq(ClosedPositions) /\ Len(Append(t, closed)) = Len(t) + 1
    BY <1>1
  <1>6. PnlsOf(Append(t, closed)) = PnlsOf(t) + earned - CostOf(p)
    BY <1>1, <1>3, <1>4
  <1> QED BY <1>1, <1>3, <1>4, <1>5, <1>6 DEF closed, earned

LEMMA OneOfTwo ==
    ASSUME NEW x \in Nat, NEW y \in Nat, NEW u, NEW v,
           \/ u = x + 1 /\ v = y
           \/ u = x /\ v = y + 1
    PROVE  u + v = x + y + 1 /\ u <= x + 1
  <1>1. CASE u = x + 1 /\ v = y
    BY <1>1
  <1>2. CASE u = x /\ v = y + 1
    BY <1>2
  <1> QED BY <1>1, <1>2

LEMMA ExitAddsUp ==
    ASSUME today \in [Tickers -> Bar \cup {NoBar}], NEW b \in ExitBooks,
           NEW p \in OpenPositions
    PROVE  LET a == ExitOrKeep(b, p)
           IN  /\ a \in ExitBooks
               /\ ExitWorth(a) = ExitWorth(b) + CostOf(p)
               /\ Len(a.held) + Len(a.trades) = Len(b.held) + Len(b.trades) + 1
               /\ Len(a.held) <= Len(b.held) + 1
  <1> DEFINE a == ExitOrKeep(b, p)
             bar == today[p.symbol]
             exit == EvaluateExit(bar, p)
  <1>1. /\ b.cash \in Int /\ b.cash >= 0 /\ b.trades \in Seq(ClosedPositions)
        /\ b.held \in Seq(OpenPositions)
        /\ b = [cash |-> b.cash, trades |-> b.trades, held |-> b.held]
    BY DEF ExitBooks
  <1>2. /\ CostsOf(b.held) \in Int /\ PnlsOf(b.trades) \in Int
        /\ Len(b.held) \in Nat /\ Len(b.trades) \in Nat
    <2>1. p \in Position /\ b.held \in Seq(Position)
      BY <1>1 DEF OpenPositions
    <2>2. b.trades \in Seq(ClosedPosition)
      BY <1>1 DEF ClosedPositions
    <2>3. CostsOf(b.held) \in Int
      BY <2>1, CostsAddUp
    <2>4. PnlsOf(b.trades) \in Int
      BY <2>2, PnlsAreWhole
    <2> QED BY <1>1, <2>3, <2>4
  <1>3. ASSUME NEW q \in OpenPositions, CostOf(q) = CostOf(p),
               a = [b EXCEPT !.held = Append(@, q)]
        PROVE  /\ a \in ExitBooks
               /\ ExitWorth(a) = ExitWorth(b) + CostOf(p)
               /\ Len(a.held) + Len(a.trades) = Len(b.held) + Len(b.trades) + 1
               /\ Len(a.held) <= Len(b.held) + 1
    <2> DEFINE h == Append(b.held, q)
    <2>1. a = [cash |-> b.cash, trades |-> b.trades, held |-> h]
      <3> HIDE DEF a
      <3> QED BY <1>1, <1>3
    <2>2. /\ h \in Seq(OpenPositions) /\ Len(h) = Len(b.held) + 1
          /\ CostsOf(h) = CostsOf(b.held) + CostOf(p) /\ CostOf(p) \in Int
      <3>1. q \in Position /\ b.held \in Seq(Position)
        BY <1>1 DEF OpenPositions
      <3>2. CostsOf(h) = CostsOf(b.held) + CostOf(q) /\ CostOf(q) \in Int
        BY <3>1, CostsAddUp
      <3>3. h \in Seq(OpenPositions) /\ Len(h) = Len(b.held) + 1
        BY <1>1
      <3> QED BY <1>3, <3>2, <3>3
    <2> HIDE DEF a, h
    <2>3. a.cash = b.cash /\ a.trades = b.trades /\ a.held = h
      BY <2>1
    <2>4. a \in ExitBooks
      BY <1>1, <2>1, <2>2 DEF ExitBooks
    <2>5. ExitWorth(a) = ExitWorth(b) + CostOf(p)
      BY <1>1, <1>2, <2>2, <2>3 DEF ExitWorth
    <2>6. Len(a.held) = Len(b.held) + 1 /\ Len(a.trades) = Len(b.trades)
      BY <2>2, <2>3
    <2>7. /\ Len(a.held) + Len(a.trades) = Len(b.held) + Len(b.trades) + 1
          /\ Len(a.held) <= Len(b.held) + 1
      <3> DEFINE x == Len(b.held)
                 y == Len(b.trades)
                 u == Len(a.held)
                 v == Len(a.trades)
      <3>1. x \in Nat /\ y \in Nat
        BY <1>2
      <3>2. (u = x + 1 /\ v = y) \/ (u = x /\ v = y + 1)
        BY <2>6
      <3> HIDE DEF x, y, u, v
      <3>3. u + v = x + y + 1 /\ u <= x + 1
        BY <3>1, <3>2, OneOfTwo
      <3> QED BY <3>3 DEF x, y, u, v
    <2> QED BY <2>4, <2>5, <2>7
  <1>4. CASE bar = NoBar
    <2>1. a = [b EXCEPT !.held = Append(@, p)]
      BY <1>4 DEF ExitOrKeep
    <2> HIDE DEF a
    <2> QED BY <1>3, <2>1 DEF a
  <1>5. CASE bar # NoBar /\ exit.reason = "none"
    <2> DEFINE q == [p EXCEPT !.daysHeld = @ + 1]
    <2>1. a = [b EXCEPT !.held = Append(@, q)]
      BY <1>5 DEF ExitOrKeep
    <2>2. q \in OpenPositions /\ CostOf(q) = CostOf(p)
      BY OlderPosition
    <2> HIDE DEF a, q
    <2> QED BY <1>3, <2>1, <2>2 DEF a
  <1>6. CASE bar # NoBar /\ exit.reason # "none"
    <2>1. bar \in Bar
      <3>1. p.symbol \in Tickers
        BY DEF OpenPositions, Position
      <3> QED BY <1>6, <3>1
    <2>2. exit.reason \in ExitReasons /\ exit.price \in Nat
      BY <1>6, <2>1, SettledPrice
    <2>3. a = SettleExit(b, p, exit.price, exit.reason)
      BY <1>6 DEF ExitOrKeep
    <2> DEFINE closed == ClosedTrade(p, exit.price, exit.reason)
               earned == Proceeds(p.shares * SoldAt(exit.price))
               t == Append(b.trades, closed)
               c == b.cash + earned
    <2>4. /\ earned \in Nat /\ t \in Seq(ClosedPositions) /\ Len(t) = Len(b.trades) + 1
          /\ CostOf(p) \in Int /\ PnlsOf(t) = PnlsOf(b.trades) + earned - CostOf(p)
      BY <1>1, <2>2, SettledSums
    <2>5. a = [b EXCEPT !.cash = c, !.trades = t]
      BY <2>3 DEF SettleExit
    <2>6. c \in Int /\ c >= 0 /\ c = b.cash + earned
      <3> HIDE DEF earned
      <3> QED BY <1>1, <2>4
    <2> HIDE DEF a, c, t, closed, earned, exit
    <2>7. a = [cash |-> c, trades |-> t, held |-> b.held]
      BY <1>1, <2>5
    <2>8. a.cash = c /\ a.trades = t /\ a.held = b.held
      BY <2>7
    <2>9. a \in ExitBooks
      BY <1>1, <2>4, <2>6, <2>7 DEF ExitBooks
    <2>10. ExitWorth(a) = ExitWorth(b) + CostOf(p)
      BY <1>1, <1>2, <2>4, <2>6, <2>8 DEF ExitWorth
    <2>11. Len(a.held) = Len(b.held) /\ Len(a.trades) = Len(b.trades) + 1
      BY <2>4, <2>8
    <2>12. /\ Len(a.held) + Len(a.trades) = Len(b.held) + Len(b.trades) + 1
           /\ Len(a.held) <= Len(b.held) + 1
      <3> DEFINE x == Len(b.held)
                 y == Len(b.trades)
                 u == Len(a.held)
                 v == Len(a.trades)
      <3>1. x \in Nat /\ y \in Nat
        BY <1>2
      <3>2. (u = x + 1 /\ v = y) \/ (u = x /\ v = y + 1)
        BY <2>11
      <3> HIDE DEF x, y, u, v
      <3>3. u + v = x + y + 1 /\ u <= x + 1
        BY <3>1, <3>2, OneOfTwo
      <3> QED BY <3>3 DEF x, y, u, v
    <2> QED BY <2>9, <2>10, <2>12 DEF a
  <1> QED BY <1>4, <1>5, <1>6

LEMMA SaleAdds ==
    ASSUME latest \in [Tickers -> Bar \cup {NoBar}], NEW b \in SaleBooks,
           NEW p \in OpenPositions
    PROVE  LET a == SellAtClose(b, p)
           IN  /\ a \in SaleBooks
               /\ SaleWorth(a) = SaleWorth(b) + CostOf(p)
               /\ Len(a.trades) = Len(b.trades) + 1
  <1> DEFINE a == SellAtClose(b, p)
             price == latest[p.symbol].close
             closed == ClosedTrade(p, price, "end_of_backtest")
             earned == Proceeds(p.shares * SoldAt(price))
             t == Append(b.trades, closed)
             c == b.cash + earned
  <1>1. /\ b.cash \in Int /\ b.cash >= 0 /\ b.trades \in Seq(ClosedPositions)
        /\ b = [cash |-> b.cash, trades |-> b.trades]
    BY DEF SaleBooks
  <1>2. price \in Nat /\ "end_of_backtest" \in ExitReasons
    <2>1. p.symbol \in Tickers
      BY DEF OpenPositions, Position
    <2>2. \A x \in Bar \cup {NoBar} : x.close \in Nat
      BY DEF Bar, NoBar
    <2> QED BY <2>1, <2>2 DEF ExitReasons
  <1>3. a = [b EXCEPT !.cash = c, !.trades = t]
    BY DEF SellAtClose, SettleExit
  <1>4. /\ earned \in Nat /\ t \in Seq(ClosedPositions) /\ Len(t) = Len(b.trades) + 1
        /\ CostOf(p) \in Int /\ PnlsOf(b.trades) \in Int
        /\ PnlsOf(t) = PnlsOf(b.trades) + earned - CostOf(p)
    <2> HIDE DEF price
    <2> QED BY <1>1, <1>2, SettledSums
  <1>5. c \in Int /\ c >= 0 /\ c = b.cash + earned
    <2> HIDE DEF earned
    <2> QED BY <1>1, <1>4
  <1> HIDE DEF a, c, t, closed, earned, price
  <1>6. a = [cash |-> c, trades |-> t]
    BY <1>1, <1>3
  <1>7. a.cash = c /\ a.trades = t
    BY <1>6
  <1>8. a \in SaleBooks
    BY <1>4, <1>5, <1>6 DEF SaleBooks
  <1>9. SaleWorth(a) = SaleWorth(b) + CostOf(p)
    BY <1>1, <1>4, <1>5, <1>7 DEF SaleWorth
  <1>10. Len(a.trades) = Len(b.trades) + 1
    BY <1>4, <1>7
  <1> QED BY <1>8, <1>9, <1>10 DEF a

LEMMA CostsUnfold ==
    ASSUME NEW h \in Seq(OpenPositions)
    PROVE  \E c \in [0..Len(h) -> Int] :
               /\ c[0] = 0
               /\ \A n \in 1..Len(h) : c[n] = c[n - 1] + CostOf(h[n])
               /\ CostsOf(h) = c[Len(h)]
  <1> DEFINE N == Len(h)
             v == [i \in DOMAIN h |-> CostOf(h[i])]
  <1>1. N \in Nat /\ DOMAIN h = 1..N
    OBVIOUS
  <1>2. v \in [1..N -> Int]
    <2> SUFFICES ASSUME NEW i \in 1..N PROVE CostOf(h[i]) \in Int
      BY <1>1
    <2>1. h[i] \in Position /\ <<>> \in Seq(Position)
      BY DEF OpenPositions
    <2> QED BY <2>1, CostsAddUp
  <1>3. \A n \in 1..N : v[n] = CostOf(h[n])
    BY <1>1
  <1>4. CostsOf(h) = SumOf(v)
    BY DEF CostsOf, Total
  <1>5. PICK c \in [0..N -> Int] :
            c[0] = 0 /\ (\A n \in 1..N : c[n] = c[n - 1] + v[n]) /\ SumOf(v) = c[N]
    <2> HIDE DEF N, v
    <2> QED BY <1>1, <1>2, SumUnfolds
  <1> HIDE DEF v
  <1>6. \A n \in 1..N : c[n] = c[n - 1] + CostOf(h[n])
    BY <1>3, <1>5
  <1> QED BY <1>4, <1>5, <1>6

LEMMA NothingCosts == CostsOf(<<>>) = 0 /\ PnlsOf(<<>>) = 0
  <1>1. [i \in DOMAIN <<>> |-> CostOf(<<>>[i])] \in [1..0 -> Int]
    OBVIOUS
  <1>2. [i \in DOMAIN <<>> |-> Pnl(<<>>[i])] \in [1..0 -> Int]
    OBVIOUS
  <1> QED BY <1>1, <1>2, SumOfNone DEF CostsOf, PnlsOf, Total

(* The exits of a session, and the sale of what is left.                   *)
LEMMA ExitsAddUp ==
    ASSUME today \in [Tickers -> Bar \cup {NoBar}], held \in Seq(OpenPositions),
           NEW book \in ExitBooks
    PROVE  LET after == Exiting(book, held)
           IN  /\ after \in ExitBooks
               /\ ExitWorth(after) = ExitWorth(book) + CostsOf(held)
               /\ Len(after.held) + Len(after.trades)
                     = Len(book.held) + Len(book.trades) + Len(held)
               /\ Len(after.held) <= Len(book.held) + Len(held)
  <1> DEFINE N == Len(held)
             S == ExitBooks
             placed(b) == Len(b.held) + Len(b.trades)
  <1>1. N \in Nat /\ \A n \in 1..N : held[n] \in OpenPositions
    OBVIOUS
  <1>2. ExitsStay(held, S)
    <2>1. \A n \in 1..N, b \in S : ExitOrKeep(b, held[n]) \in S
      BY <1>1, ExitAddsUp
    <2> HIDE DEF S
    <2> QED BY <2>1 DEF ExitsStay
  <1>3. PICK f \in [0..N -> S] : ExitRun(f, book, held) /\ Exiting(book, held) = f[N]
    <2>1. book \in S /\ Len(held) \in Nat
      OBVIOUS
    <2> HIDE DEF S
    <2> QED BY <1>2, <2>1, ExitLoop
  <1>4. f[0] = book /\ \A n \in 1..N : f[n] = ExitOrKeep(f[n - 1], held[n])
    BY <1>3 DEF ExitRun
  <1>5. PICK c \in [0..N -> Int] :
            /\ c[0] = 0 /\ \A n \in 1..N : c[n] = c[n - 1] + CostOf(held[n])
            /\ CostsOf(held) = c[N]
    BY CostsUnfold
  <1>6. \A b \in S : /\ ExitWorth(b) \in Int /\ Len(b.held) \in Nat /\ Len(b.trades) \in Nat
    <2> SUFFICES ASSUME NEW b \in S
                 PROVE  /\ ExitWorth(b) \in Int /\ Len(b.held) \in Nat
                        /\ Len(b.trades) \in Nat
      OBVIOUS
    <2>1. /\ b.cash \in Int /\ b.held \in Seq(OpenPositions)
          /\ b.trades \in Seq(ClosedPositions)
      BY DEF ExitBooks
    <2>2. CostsOf(b.held) \in Int
      <3>1. Len(b.held) \in 0..Len(b.held)
        BY <2>1
      <3> QED BY <2>1, <3>1, CostsUnfold
    <2>3. PnlsOf(b.trades) \in Int
      BY <2>1, PnlsAreWhole DEF ClosedPositions
    <2> QED BY <2>1, <2>2, <2>3 DEF ExitWorth
  <1>7. \A n \in 0..N : f[n] \in S /\ c[n] \in Int
    OBVIOUS
  <1> DEFINE AddsUp(n) == /\ ExitWorth(f[n]) = ExitWorth(book) + c[n]
                          /\ placed(f[n]) = placed(book) + n
                          /\ Len(f[n].held) <= Len(book.held) + n
             G == {n \in 0..N : AddsUp(n)}
  <1>8. 0 \in G
    <2>1. ExitWorth(book) \in Int /\ Len(book.held) \in Nat /\ Len(book.trades) \in Nat
      BY <1>6
    <2>2. AddsUp(0)
      BY <1>4, <1>5, <2>1
    <2> HIDE DEF AddsUp
    <2> QED BY <1>1, <2>2
  <1>9. ASSUME NEW n \in 1..N, n - 1 \in G PROVE n \in G
    <2>1. f[n - 1] \in S /\ f[n] \in S /\ held[n] \in OpenPositions
          /\ f[n] = ExitOrKeep(f[n - 1], held[n])
      BY <1>1, <1>4, <1>7
    <2>2. /\ ExitWorth(f[n]) = ExitWorth(f[n - 1]) + CostOf(held[n])
          /\ placed(f[n]) = placed(f[n - 1]) + 1
          /\ Len(f[n].held) <= Len(f[n - 1].held) + 1
      BY <2>1, ExitAddsUp
    <2>3. AddsUp(n - 1)
      BY <1>9
    <2>4. c[n] = c[n - 1] + CostOf(held[n]) /\ c[n] \in Int /\ c[n - 1] \in Int
      BY <1>5, <1>7
    <2>5. CostOf(held[n]) \in Int
      <3>1. held[n] \in Position /\ <<>> \in Seq(Position)
        BY <2>1 DEF OpenPositions
      <3> QED BY <3>1, CostsAddUp
    <2>6. /\ ExitWorth(f[n - 1]) \in Int /\ ExitWorth(book) \in Int
          /\ placed(f[n - 1]) \in Int /\ placed(book) \in Int
          /\ Len(f[n - 1].held) \in Int /\ Len(book.held) \in Int /\ Len(f[n].held) \in Int
      <3>1. f[n - 1] \in S /\ f[n] \in S /\ book \in S
        BY <2>1
      <3> HIDE DEF S
      <3> QED BY <1>6, <3>1
    <2>7. n \in 0..N /\ n \in Int
      OBVIOUS
    <2> HIDE DEF N, S, placed
    <2>9. ExitWorth(f[n]) = ExitWorth(book) + c[n]
      BY <2>2, <2>3, <2>4, <2>5, <2>6
    <2>10. placed(f[n]) = placed(book) + n
      BY <2>2, <2>3, <2>6, <2>7
    <2> DEFINE x == Len(f[n].held)
               y == Len(f[n - 1].held)
               z == Len(book.held)
    <2>11. x <= z + n
      <3>1. x <= y + 1 /\ y <= z + (n - 1)
        BY <2>2, <2>3
      <3>2. x \in Int /\ y \in Int /\ z \in Int
        BY <2>6
      <3> HIDE DEF x, y, z
      <3> QED BY <2>7, <3>1, <3>2
    <2>8. AddsUp(n)
      BY <2>9, <2>10, <2>11
    <2> HIDE DEF AddsUp
    <2> QED BY <2>7, <2>8
  <1>10. AddsUp(N)
    <2>1. \A n \in 0..N : n \in G
      <3> HIDE DEF G
      <3> QED BY <1>1, <1>8, <1>9, Induction
    <2>2. N \in 0..N
      BY <1>1
    <2> HIDE DEF AddsUp
    <2> QED BY <2>1, <2>2
  <1>11. f[N] \in S
    BY <1>1, <1>7
  <1> QED BY <1>3, <1>5, <1>10, <1>11

LEMMA SalesAddUp ==
    ASSUME latest \in [Tickers -> Bar \cup {NoBar}], held \in Seq(OpenPositions),
           NEW book \in SaleBooks
    PROVE  LET after == Selling(book, held)
           IN  /\ after \in SaleBooks
               /\ SaleWorth(after) = SaleWorth(book) + CostsOf(held)
               /\ Len(after.trades) = Len(book.trades) + Len(held)
  <1> DEFINE N == Len(held)
             S == SaleBooks
  <1>1. N \in Nat /\ \A n \in 1..N : held[n] \in OpenPositions
    OBVIOUS
  <1>2. SalesStay(held, S)
    <2>1. \A n \in 1..N, b \in S : SellAtClose(b, held[n]) \in S
      BY <1>1, SaleAdds
    <2> HIDE DEF S
    <2> QED BY <2>1 DEF SalesStay
  <1>3. PICK f \in [0..N -> S] : SaleRun(f, book, held) /\ Selling(book, held) = f[N]
    <2>1. book \in S /\ Len(held) \in Nat
      OBVIOUS
    <2> HIDE DEF S
    <2> QED BY <1>2, <2>1, SellLoop
  <1>4. f[0] = book /\ \A n \in 1..N : f[n] = SellAtClose(f[n - 1], held[n])
    BY <1>3 DEF SaleRun
  <1>5. PICK c \in [0..N -> Int] :
            /\ c[0] = 0 /\ \A n \in 1..N : c[n] = c[n - 1] + CostOf(held[n])
            /\ CostsOf(held) = c[N]
    BY CostsUnfold
  <1>6. \A b \in S : SaleWorth(b) \in Int /\ Len(b.trades) \in Nat
    <2> SUFFICES ASSUME NEW b \in S PROVE SaleWorth(b) \in Int /\ Len(b.trades) \in Nat
      OBVIOUS
    <2>1. b.cash \in Int /\ b.trades \in Seq(ClosedPositions)
      BY DEF SaleBooks
    <2>2. PnlsOf(b.trades) \in Int
      BY <2>1, PnlsAreWhole DEF ClosedPositions
    <2> QED BY <2>1, <2>2 DEF SaleWorth
  <1>7. \A n \in 0..N : f[n] \in S /\ c[n] \in Int
    OBVIOUS
  <1> DEFINE AddsUp(n) == /\ SaleWorth(f[n]) = SaleWorth(book) + c[n]
                          /\ Len(f[n].trades) = Len(book.trades) + n
             G == {n \in 0..N : AddsUp(n)}
  <1>8. 0 \in G
    <2>1. SaleWorth(book) \in Int /\ Len(book.trades) \in Nat
      BY <1>6
    <2>2. AddsUp(0)
      BY <1>4, <1>5, <2>1
    <2> HIDE DEF AddsUp
    <2> QED BY <1>1, <2>2
  <1>9. ASSUME NEW n \in 1..N, n - 1 \in G PROVE n \in G
    <2>1. f[n - 1] \in S /\ f[n] \in S /\ held[n] \in OpenPositions
          /\ f[n] = SellAtClose(f[n - 1], held[n])
      BY <1>1, <1>4, <1>7
    <2>2. /\ SaleWorth(f[n]) = SaleWorth(f[n - 1]) + CostOf(held[n])
          /\ Len(f[n].trades) = Len(f[n - 1].trades) + 1
      BY <2>1, SaleAdds
    <2>3. AddsUp(n - 1)
      BY <1>9
    <2>4. c[n] = c[n - 1] + CostOf(held[n]) /\ c[n] \in Int /\ c[n - 1] \in Int
      BY <1>5, <1>7
    <2>5. CostOf(held[n]) \in Int
      <3>1. held[n] \in Position /\ <<>> \in Seq(Position)
        BY <2>1 DEF OpenPositions
      <3> QED BY <3>1, CostsAddUp
    <2>6. /\ SaleWorth(f[n - 1]) \in Int /\ SaleWorth(book) \in Int
          /\ Len(f[n - 1].trades) \in Int /\ Len(book.trades) \in Int
      <3>1. f[n - 1] \in S /\ book \in S
        BY <2>1
      <3> HIDE DEF S
      <3> QED BY <1>6, <3>1
    <2>7. n \in 0..N /\ n \in Int
      OBVIOUS
    <2> HIDE DEF N, S
    <2>8. AddsUp(n)
      BY <2>2, <2>3, <2>4, <2>5, <2>6, <2>7
    <2> HIDE DEF AddsUp
    <2> QED BY <2>7, <2>8
  <1>10. AddsUp(N)
    <2>1. \A n \in 0..N : n \in G
      <3> HIDE DEF G
      <3> QED BY <1>1, <1>8, <1>9, Induction
    <2>2. N \in 0..N
      BY <1>1
    <2> HIDE DEF AddsUp
    <2> QED BY <2>1, <2>2
  <1>11. f[N] \in S
    BY <1>1, <1>7
  <1> QED BY <1>3, <1>5, <1>10, <1>11

-----------------------------------------------------------------------------
(* The invariant of the day loop.                                          *)
Phases == {"open", "fill", "exit", "trail", "screen", "liquidate", "done"}

SessionRecord == [invested : Int, equity : Int, open : Nat, offered : Nat]

BacktestShape ==
    /\ arm \in Arms /\ plan \in EntryPlans /\ phase \in Phases
    /\ session \in 0..TradingDays
    /\ today \in [Tickers -> Bar \cup {NoBar}]
    /\ latest \in [Tickers -> Bar \cup {NoBar}]
    /\ cash \in Int /\ held \in Seq(OpenPositions) /\ trades \in Seq(ClosedPositions)
    /\ pending \in Seq(Tickers)
    /\ signal \in [day : Nat, equity : Int]
    /\ blocks \in [BlockReasons -> Seq(Nat)]
    /\ exposure \in Seq(SessionRecord)

\* A session is recorded at its end; what is left is sold after the last one.
CalendarInv ==
    /\ phase = "open" => Len(exposure) = session
    /\ phase \in {"fill", "exit", "trail", "screen"} =>
          session >= 1 /\ Len(exposure) = session - 1
    /\ phase \in {"liquidate", "done"} => session = TradingDays /\ Len(exposure) = session
    /\ phase = "done" => held = <<>> /\ exposure[TradingDays].equity = cash

CashInv ==
    /\ cash >= 0
    /\ cash + CostsOf(held) = InitialCash * Money + PnlsOf(trades)

CrowdInv ==
    /\ Len(held) <= plan.concurrent
    /\ \A i \in 1..Len(exposure) : exposure[i].open <= plan.concurrent

\* The list under way counts from its fills on, the others are on record.
UnderWay == IF phase \in {"exit", "trail", "screen"} THEN Len(pending) ELSE 0
CandidatesInv == BlocksOf(blocks) + Len(trades) + Len(held) = Offered + UnderWay

\* Nothing moves between the close that is marked and the fills it sizes.
SizingInv ==
    (phase = "open" /\ session >= 1) \/ (phase = "fill" /\ session > 1) =>
        signal.equity = cash + MarkToMarket(held, latest)

BacktestInv ==
    BacktestShape /\ CalendarInv /\ CashInv /\ CrowdInv /\ CandidatesInv /\ SizingInv


LEMMA NextBooks ==
    /\ CostsOf(held)' = CostsOf(held')
    /\ PnlsOf(trades)' = PnlsOf(trades')
    /\ BlocksOf(blocks)' = BlocksOf(blocks')
    /\ MarkToMarket(held, latest)' = MarkToMarket(held', latest')
  <1>1. CostsOf(held)' = CostsOf(held')
    BY DEF CostsOf
  <1>2. PnlsOf(trades)' = PnlsOf(trades')
    BY DEF PnlsOf
  <1>3. BlocksOf(blocks)' = BlocksOf(blocks')
    BY DEF BlocksOf
  <1>4. MarkToMarket(held, latest)' = MarkToMarket(held', latest')
    BY DEF MarkToMarket, Total
  <1> QED BY <1>1, <1>2, <1>3, <1>4

LEMMA SamePlan ==
    ASSUME plan' = plan
    PROVE  OpenPositions' = OpenPositions
  <1> QED BY DEF OpenPositions, Sized

(* The first day starts with the cash, and with nothing else.              *)
LEMMA BacktestStarts == BacktestInit => BacktestInv
  <1> SUFFICES ASSUME BacktestInit PROVE BacktestInv
    OBVIOUS
  <1> USE DEF BacktestInit
  <1>1. CostsOf(held) = 0 /\ PnlsOf(trades) = 0
    BY NothingCosts
  <1>2. BlocksOf(blocks) = 0 /\ Offered = 0
    <2>1. DOMAIN EntryBlockReasons = 1..10 /\ 10 \in Nat
      BY ReasonList
    <2> DEFINE a == [i \in 1..10 |-> 0]
               b == [i \in DOMAIN EntryBlockReasons |-> Len(blocks[EntryBlockReasons[i]])]
    <2>2. a \in [1..10 -> Int] /\ \A i \in 1..10 : a[i] = a[i] + a[i]
      OBVIOUS
    <2>3. a = b
      <3>1. \A i \in 1..10 : EntryBlockReasons[i] \in BlockReasons
        BY <2>1 DEF BlockReasons
      <3>2. \A i \in 1..10 : Len(blocks[EntryBlockReasons[i]]) = 0
        BY <3>1
      <3> QED BY <2>1, <3>2
    <2> HIDE DEF a
    <2>4. SumOf(a) = SumOf(a) + SumOf(a) /\ SumOf(a) \in Int
      BY <2>1, <2>2, SumOfPairs, SumIsWhole
    <2>5. SumOf(a) = 0
      <3> DEFINE s == SumOf(a)
      <3> HIDE DEF s
      <3>1. s = s + s /\ s \in Int
        BY <2>4 DEF s
      <3> QED BY <3>1 DEF s
    <2>6. BlocksOf(blocks) = 0
      BY <2>3, <2>5 DEF BlocksOf
    <2>7. Offered = 0
      <3>1. [i \in DOMAIN exposure |-> exposure[i].offered] \in [1..0 -> Int]
        OBVIOUS
      <3> QED BY <3>1, SumOfNone DEF Offered, Total
    <2> QED BY <2>6, <2>7
  <1>3. BacktestShape
    <2>1. Money \in Nat /\ InitialCash \in Nat /\ TradingDays \in Nat
      BY BacktestFacts
    <2> QED BY <2>1 DEF BacktestShape, Phases, Bar
  <1>4. CalendarInv /\ CrowdInv /\ SizingInv
    <2>1. plan.concurrent \in Nat
      <3>1. plan \in [multiple : Nat, dayOrder : BOOLEAN, concurrent : Nat]
        BY BacktestConstants
      <3> QED BY <3>1
    <2> QED BY <2>1 DEF CalendarInv, CrowdInv, SizingInv
  <1>5. CashInv
    <2>1. InitialCash * Money \in Int /\ InitialCash * Money >= 0
      BY BacktestFacts
    <2> QED BY <1>1, <2>1 DEF CashInv
  <1>6. CandidatesInv
    BY <1>2 DEF CandidatesInv, UnderWay
  <1> QED BY <1>3, <1>4, <1>5, <1>6 DEF BacktestInv

LEMMA PlanFacts ==
    ASSUME BacktestShape
    PROVE  plan.concurrent \in Nat /\ plan.multiple \in Nat /\ plan.dayOrder \in BOOLEAN
  <1>1. plan \in [multiple : Nat, dayOrder : BOOLEAN, concurrent : Nat]
    BY BacktestConstants DEF BacktestShape
  <1> QED BY <1>1

LEMMA WholeBooks ==
    ASSUME BacktestShape
    PROVE  /\ CostsOf(held) \in Int /\ PnlsOf(trades) \in Int /\ BlocksOf(blocks) \in Int
           /\ Len(held) \in Nat /\ Len(trades) \in Nat /\ Len(pending) \in Nat
           /\ Len(exposure) \in Nat /\ Offered \in Int
  <1>1. /\ held \in Seq(OpenPositions) /\ trades \in Seq(ClosedPositions)
        /\ pending \in Seq(Tickers) /\ exposure \in Seq(SessionRecord)
        /\ blocks \in [BlockReasons -> Seq(Nat)]
    BY DEF BacktestShape
  <1>2. CostsOf(held) \in Int
    <2>1. Len(held) \in 0..Len(held)
      BY <1>1
    <2> QED BY <1>1, <2>1, CostsUnfold
  <1>3. PnlsOf(trades) \in Int
    BY <1>1, PnlsAreWhole DEF ClosedPositions
  <1>4. BlocksOf(blocks) \in Int
    BY <1>1, BlocksAreWhole
  <1>5. Offered \in Int
    <2> DEFINE N == Len(exposure)
               v == [i \in DOMAIN exposure |-> exposure[i].offered]
    <2>1. N \in Nat /\ DOMAIN exposure = 1..N
      BY <1>1
    <2>2. v \in [1..N -> Int]
      <3>1. \A i \in 1..N : exposure[i] \in SessionRecord
        BY <1>1
      <3>2. \A i \in 1..N : exposure[i].offered \in Int
        BY <3>1 DEF SessionRecord
      <3> QED BY <2>1, <3>2
    <2> HIDE DEF v
    <2>3. SumOf(v) \in Int
      BY <2>1, <2>2, SumIsWhole
    <2> QED BY <2>3 DEF Offered, Total, v
  <1> QED BY <1>1, <1>2, <1>3, <1>4, <1>5

LEMMA MarksAreWhole ==
    ASSUME NEW h \in Seq(OpenPositions), NEW bars \in [Tickers -> Bar \cup {NoBar}]
    PROVE  MarkToMarket(h, bars) \in Int
  <1> DEFINE N == Len(h)
             v == [i \in DOMAIN h |-> h[i].shares * bars[h[i].symbol].close * Money]
  <1>1. N \in Nat /\ DOMAIN h = 1..N
    OBVIOUS
  <1>2. v \in [1..N -> Int]
    <2> SUFFICES ASSUME NEW i \in 1..N
                 PROVE  h[i].shares * bars[h[i].symbol].close * Money \in Int
      BY <1>1
    <2>1. h[i].shares \in Nat /\ h[i].symbol \in Tickers
      <3>1. h[i] \in OpenPositions
        BY <1>1
      <3> QED BY <3>1 DEF OpenPositions, Position
    <2>2. bars[h[i].symbol].close \in Nat
      <3>1. \A x \in Bar \cup {NoBar} : x.close \in Nat
        BY DEF Bar, NoBar
      <3> QED BY <2>1, <3>1
    <2> QED BY <2>1, <2>2, BacktestFacts
  <1> HIDE DEF v
  <1>3. SumOf(v) \in Int
    BY <1>1, <1>2, SumIsWhole
  <1> QED BY <1>3 DEF MarkToMarket, Total, v

(* The books are not touched between two sessions.                         *)
LEMMA OpenSessionKeeps ==
    ASSUME BacktestInv, OpenSession
    PROVE  BacktestInv'
  <1>1. /\ plan' = plan /\ arm' = arm /\ cash' = cash /\ held' = held /\ trades' = trades
        /\ blocks' = blocks /\ pending' = pending /\ signal' = signal
        /\ exposure' = exposure /\ latest' = latest
        /\ phase = "open" /\ phase' = "fill" /\ session' = session + 1
        /\ session < TradingDays /\ today' \in Tape[session + 1]
    BY DEF OpenSession
  <1>2. BacktestShape /\ CalendarInv /\ CashInv /\ CrowdInv /\ CandidatesInv /\ SizingInv
    BY DEF BacktestInv
  <1>3. session \in Nat /\ TradingDays \in Nat
    BY <1>2, BacktestFacts DEF BacktestShape
  <1>4. BacktestShape'
    <2>1. session + 1 \in 1..TradingDays
      BY <1>1, <1>3
    <2>2. today' \in [Tickers -> Bar \cup {NoBar}]
      BY <1>1, <2>1, MarketConstants
    <2>3. OpenPositions' = OpenPositions
      BY <1>1, SamePlan
    <2> QED BY <1>1, <1>2, <2>1, <2>2, <2>3 DEF BacktestShape, Phases
  <1>5. CalendarInv'
    BY <1>1, <1>2, <1>3 DEF CalendarInv
  <1>6. CashInv'
    BY <1>1, <1>2, NextBooks DEF CashInv
  <1>7. CrowdInv'
    BY <1>1, <1>2 DEF CrowdInv
  <1>8. CandidatesInv'
    <2>1. Offered' = Offered
      BY <1>1 DEF Offered, Total
    <2> QED BY <1>1, <1>2, <2>1, NextBooks DEF CandidatesInv, UnderWay
  <1>9. SizingInv'
    BY <1>1, <1>2, <1>3, NextBooks DEF SizingInv
  <1> QED BY <1>4, <1>5, <1>6, <1>7, <1>8, <1>9 DEF BacktestInv

LEMMA FillsKeep ==
    ASSUME BacktestInv, FillPendingEntries
    PROVE  BacktestInv'
  <1> DEFINE book == [cash |-> cash, held |-> held, blocks |-> blocks]
             after == FillAll(book)
             worth == cash + CostsOf(held)
  <1>1. /\ plan' = plan /\ arm' = arm /\ trades' = trades /\ pending' = pending
        /\ signal' = signal /\ exposure' = exposure /\ session' = session
        /\ today' = today /\ phase = "fill" /\ phase' = "exit"
        /\ latest' = [s \in Tickers |-> IF today[s] = NoBar THEN latest[s] ELSE today[s]]
    BY DEF FillPendingEntries
  <1>2. cash' = after.cash /\ held' = after.held /\ blocks' = after.blocks
    BY DEF FillPendingEntries
  <1>3. BacktestShape /\ CalendarInv /\ CashInv /\ CrowdInv /\ CandidatesInv
    BY DEF BacktestInv
  <1>4. /\ cash \in Int /\ held \in Seq(OpenPositions) /\ pending \in Seq(Tickers)
        /\ blocks \in [BlockReasons -> Seq(Nat)] /\ session \in 0..TradingDays
        /\ today \in [Tickers -> Bar \cup {NoBar}]
        /\ latest \in [Tickers -> Bar \cup {NoBar}]
    BY <1>3 DEF BacktestShape
  <1>5. MarketShape
    BY <1>3, BacktestFacts DEF MarketShape, BacktestShape
  <1>6. CostsOf(held) \in Int /\ BlocksOf(blocks) \in Int
        /\ Len(held) \in Nat /\ Len(pending) \in Nat /\ Len(trades) \in Nat
        /\ Offered \in Int
    BY <1>3, WholeBooks
  <1>7. worth \in Int /\ book \in EntryState(worth)
    BY <1>3, <1>4, <1>6 DEF CashInv, CrowdInv, EntryState, EntryBooks
  <1>8. /\ after \in EntryState(worth)
        /\ EntriesOf(after) = EntriesOf(book) + Len(pending)
    <2> HIDE DEF book, worth
    <2> QED BY <1>4, <1>5, <1>7, FillsCountEveryCandidate
  <1> HIDE DEF after
  <1>9. /\ after \in EntryBooks /\ after.cash >= 0
        /\ after.cash + CostsOf(after.held) = worth
        /\ Len(after.held) <= plan.concurrent
    BY <1>8 DEF EntryState
  <1>10. /\ cash' \in Int /\ held' \in Seq(OpenPositions)
         /\ blocks' \in [BlockReasons -> Seq(Nat)]
    BY <1>2, <1>9 DEF EntryBooks
  <1>11. BacktestShape'
    <2>1. OpenPositions' = OpenPositions
      BY <1>1, SamePlan
    <2>2. latest' \in [Tickers -> Bar \cup {NoBar}]
      BY <1>1, <1>4
    <2> QED BY <1>1, <1>3, <1>10, <2>1, <2>2 DEF BacktestShape, Phases
  <1>12. CalendarInv'
    BY <1>1, <1>3 DEF CalendarInv
  <1>13. CashInv'
    BY <1>1, <1>2, <1>3, <1>9, NextBooks DEF CashInv
  <1>14. CrowdInv'
    BY <1>1, <1>2, <1>3, <1>9 DEF CrowdInv
  <1>15. CandidatesInv'
    <2>1. Offered' = Offered
      BY <1>1 DEF Offered, Total
    <2>2. BlocksOf(blocks') + Len(held') = BlocksOf(blocks) + Len(held) + Len(pending)
      BY <1>2, <1>8 DEF EntriesOf
    <2>3. BlocksOf(blocks) + Len(trades) + Len(held) = Offered
      BY <1>1, <1>3, <1>6 DEF CandidatesInv, UnderWay
    <2>4. BlocksOf(blocks') \in Int /\ Len(held') \in Nat
      BY <1>10, BlocksAreWhole
    <2> DEFINE b == BlocksOf(blocks)
               h == Len(held)
               bb == BlocksOf(blocks')
               hh == Len(held')
               t == Len(trades)
               k == Len(pending)
    <2>5. bb + t + hh = Offered + k
      <3>1. /\ b \in Int /\ h \in Int /\ bb \in Int /\ hh \in Int /\ t \in Int
            /\ k \in Int /\ Offered \in Int
        BY <1>6, <2>4
      <3>2. bb + hh = b + h + k /\ b + t + h = Offered
        BY <2>2, <2>3
      <3> HIDE DEF b, h, bb, hh, t, k
      <3> QED BY <3>1, <3>2
    <2> QED BY <1>1, <2>1, <2>5, NextBooks DEF CandidatesInv, UnderWay
  <1>16. SizingInv'
    BY <1>1 DEF SizingInv
  <1> QED BY <1>11, <1>12, <1>13, <1>14, <1>15, <1>16 DEF BacktestInv

LEMMA ExitsKeep ==
    ASSUME BacktestInv, ProcessExits
    PROVE  BacktestInv'
  <1> DEFINE book == [cash |-> cash, trades |-> trades, held |-> <<>>]
             after == Exiting(book, held)
  <1>1. /\ plan' = plan /\ arm' = arm /\ session' = session /\ today' = today
        /\ latest' = latest /\ pending' = pending /\ signal' = signal
        /\ blocks' = blocks /\ exposure' = exposure
        /\ phase = "exit" /\ phase' = "trail"
    BY DEF ProcessExits
  <1>2. cash' = after.cash /\ trades' = after.trades /\ held' = after.held
    BY DEF ProcessExits, Exiting
  <1>3. BacktestShape /\ CalendarInv /\ CashInv /\ CrowdInv /\ CandidatesInv
    BY DEF BacktestInv
  <1>4. /\ cash \in Int /\ held \in Seq(OpenPositions) /\ trades \in Seq(ClosedPositions)
        /\ today \in [Tickers -> Bar \cup {NoBar}]
    BY <1>3 DEF BacktestShape
  <1>5. /\ CostsOf(held) \in Int /\ PnlsOf(trades) \in Int /\ BlocksOf(blocks) \in Int
        /\ Len(held) \in Nat /\ Len(trades) \in Nat /\ Len(pending) \in Nat
        /\ Offered \in Int
    BY <1>3, WholeBooks
  <1>6. /\ book \in ExitBooks /\ book.cash = cash /\ book.trades = trades
        /\ book.held = <<>>
    BY <1>3, <1>4 DEF ExitBooks, CashInv
  <1>7. /\ after \in ExitBooks
        /\ ExitWorth(after) = ExitWorth(book) + CostsOf(held)
        /\ Len(after.held) + Len(after.trades)
              = Len(book.held) + Len(book.trades) + Len(held)
        /\ Len(after.held) <= Len(book.held) + Len(held)
    <2> HIDE DEF book
    <2> QED BY <1>4, <1>6, ExitsAddUp
  <1>8. Len(book.held) = 0 /\ ExitWorth(book) = cash - PnlsOf(trades)
    BY <1>4, <1>5, <1>6, NothingCosts DEF ExitWorth
  <1> HIDE DEF book, after
  <1>9. /\ cash' \in Int /\ cash' >= 0 /\ trades' \in Seq(ClosedPositions)
        /\ held' \in Seq(OpenPositions)
    BY <1>2, <1>7 DEF ExitBooks
  <1>10. /\ CostsOf(held') \in Int /\ PnlsOf(trades') \in Int
         /\ Len(held') \in Nat /\ Len(trades') \in Nat
    <2>1. CostsOf(held') \in Int
      <3>1. Len(held') \in 0..Len(held')
        BY <1>9
      <3> QED BY <1>9, <3>1, CostsUnfold
    <2>2. PnlsOf(trades') \in Int
      BY <1>9, PnlsAreWhole DEF ClosedPositions
    <2> QED BY <1>9, <2>1, <2>2
  <1>11. BacktestShape'
    <2>1. OpenPositions' = OpenPositions
      BY <1>1, SamePlan
    <2> QED BY <1>1, <1>3, <1>9, <2>1 DEF BacktestShape, Phases
  <1>12. CalendarInv'
    BY <1>1, <1>3 DEF CalendarInv
  <1>13. CashInv'
    <2>1. cash' + CostsOf(held') - PnlsOf(trades') = cash - PnlsOf(trades) + CostsOf(held)
      BY <1>2, <1>7, <1>8 DEF ExitWorth
    <2>2. cash + CostsOf(held) = InitialCash * Money + PnlsOf(trades)
      BY <1>3 DEF CashInv
    <2>3. cash' + CostsOf(held') = InitialCash * Money + PnlsOf(trades')
      <3> DEFINE initial == InitialCash * Money
      <3>1. initial \in Int
        BY BacktestFacts
      <3> HIDE DEF initial
      <3>2. cash + CostsOf(held) = initial + PnlsOf(trades)
        BY <2>2 DEF initial
      <3> DEFINE costs == CostsOf(held)
                 pnls == PnlsOf(trades)
                 nextCash == cash'
                 nextCosts == CostsOf(held')
                 nextPnls == PnlsOf(trades')
      <3>3. nextCash + nextCosts = initial + nextPnls
        <4>1. /\ cash \in Int /\ nextCash \in Int /\ costs \in Int /\ pnls \in Int
              /\ nextCosts \in Int /\ nextPnls \in Int
          BY <1>4, <1>5, <1>9, <1>10
        <4>2. nextCash + nextCosts - nextPnls = cash - pnls + costs
          BY <2>1
        <4>3. cash + costs = initial + pnls
          BY <3>2
        <4> HIDE DEF costs, pnls, nextCash, nextCosts, nextPnls
        <4>4. cash - pnls + costs = initial
          BY <3>1, <4>1, <4>3
        <4>5. nextCash + nextCosts - nextPnls = initial
          BY <4>2, <4>4
        <4> QED BY <3>1, <4>1, <4>5
      <3> QED BY <3>3 DEF initial
    <2> QED BY <1>9, <2>3, NextBooks DEF CashInv
  <1> DEFINE h == Len(held)
             t == Len(trades)
             hh == Len(held')
             tt == Len(trades')
  <1>14. hh + tt = t + h /\ hh <= h
    <2>1. /\ Len(after.held) = hh /\ Len(after.trades) = tt /\ Len(book.held) = 0
          /\ Len(book.trades) = t
      BY <1>2, <1>6, <1>8
    <2>2. hh + tt = 0 + t + h /\ hh <= 0 + h
      BY <1>7, <2>1
    <2>3. h \in Nat /\ t \in Nat /\ hh \in Nat /\ tt \in Nat
      BY <1>5, <1>10
    <2> HIDE DEF h, t, hh, tt
    <2> QED BY <2>2, <2>3
  <1>15. CrowdInv'
    <2>1. plan.concurrent \in Nat /\ h \in Nat /\ hh \in Nat
      BY <1>3, <1>5, <1>10, PlanFacts
    <2>2. h <= plan.concurrent
      BY <1>3 DEF CrowdInv
    <2>3. hh <= plan.concurrent
      <3> HIDE DEF h, hh
      <3> QED BY <1>14, <2>1, <2>2
    <2> QED BY <1>1, <1>3, <2>3 DEF CrowdInv
  <1>16. CandidatesInv'
    <2>1. Offered' = Offered
      BY <1>1 DEF Offered, Total
    <2> DEFINE b == BlocksOf(blocks)
    <2>2. b + t + h = Offered + Len(pending)
      BY <1>1, <1>3 DEF CandidatesInv, UnderWay
    <2>3. b + tt + hh = Offered + Len(pending)
      <3>1. /\ h \in Int /\ t \in Int /\ hh \in Int /\ tt \in Int /\ b \in Int
            /\ Offered + Len(pending) \in Int
        BY <1>5, <1>10
      <3> HIDE DEF h, t, hh, tt, b
      <3> QED BY <1>14, <2>2, <3>1
    <2> QED BY <1>1, <2>1, <2>3, NextBooks DEF CandidatesInv, UnderWay
  <1>17. SizingInv'
    BY <1>1 DEF SizingInv
  <1> QED BY <1>11, <1>12, <1>13, <1>15, <1>16, <1>17 DEF BacktestInv

LEMMA TrailedPosition ==
    ASSUME NEW p \in OpenPositions, NEW bar \in Bar
    PROVE  LET q == [p EXCEPT !.stop = TrailedStop(@, bar.close, bar.atr)]
           IN  q \in OpenPositions /\ CostOf(q) = CostOf(p)
  <1> DEFINE stop == TrailedStop(p.stop, bar.close, bar.atr)
             q == [p EXCEPT !.stop = stop]
  <1>1. p \in Position /\ p.stop \in Int
    BY DEF OpenPositions, Position
  <1>2. stop \in Int
    <2>1. bar.close \in Int /\ bar.atr \in Int /\ StopMultiple \in Int
      BY BacktestFacts DEF Bar, NoAtr
    <2>2. InitialStop(bar.close, bar.atr) \in Int
      BY <2>1 DEF InitialStop
    <2> QED BY <1>1, <2>2, MaxOfTwo DEF TrailedStop
  <1> HIDE DEF stop
  <1>3. q \in Position
    BY <1>1, <1>2 DEF Position
  <1>4. /\ q.shares = p.shares /\ q.entryPrice = p.entryPrice /\ q.riskBasis = p.riskBasis
        /\ q.commission = p.commission /\ q.initialStop = p.initialStop /\ q.basis = p.basis
    BY <1>1 DEF Position
  <1>5. Sized(p)
    BY DEF OpenPositions
  <1> HIDE DEF q
  <1>6. Sized(q)
    BY <1>4, <1>5 DEF Sized
  <1>7. CostOf(q) = CostOf(p)
    BY <1>4 DEF CostOf
  <1> QED BY <1>3, <1>6, <1>7 DEF OpenPositions, q, stop

LEMMA TrailsKeep ==
    ASSUME BacktestInv, UpdateTrailingStops
    PROVE  BacktestInv'
  <1>1. /\ plan' = plan /\ arm' = arm /\ session' = session /\ today' = today
        /\ latest' = latest /\ pending' = pending /\ signal' = signal
        /\ blocks' = blocks /\ exposure' = exposure /\ cash' = cash /\ trades' = trades
        /\ phase = "trail" /\ phase' = "screen"
    BY DEF UpdateTrailingStops
  <1>2. BacktestShape /\ CalendarInv /\ CashInv /\ CrowdInv /\ CandidatesInv
    BY DEF BacktestInv
  <1>3. held \in Seq(OpenPositions) /\ today \in [Tickers -> Bar \cup {NoBar}]
    BY <1>2 DEF BacktestShape
  <1> DEFINE N == Len(held)
             trailed(i) ==
                 LET bar == today[held[i].symbol]
                 IN  IF bar = NoBar \/ latest[held[i].symbol].atr = NoAtr THEN held[i]
                     ELSE [held[i] EXCEPT !.stop = TrailedStop(@, bar.close, bar.atr)]
  <1>4. N \in Nat /\ DOMAIN held = 1..N /\ held' = [i \in 1..N |-> trailed(i)]
    BY <1>3 DEF UpdateTrailingStops
  <1>5. ASSUME NEW i \in 1..N
        PROVE  trailed(i) \in OpenPositions /\ CostOf(trailed(i)) = CostOf(held[i])
    <2> DEFINE p == held[i]
               bar == today[p.symbol]
               q == [p EXCEPT !.stop = TrailedStop(@, bar.close, bar.atr)]
    <2>1. p \in OpenPositions
      BY <1>3, <1>4
    <2>2. CASE trailed(i) = p
      BY <2>1, <2>2
    <2>3. CASE bar # NoBar /\ trailed(i) = q
      <3>1. bar \in Bar
        <4>1. p.symbol \in Tickers
          BY <2>1 DEF OpenPositions, Position
        <4> QED BY <1>3, <2>3, <4>1
      <3>2. q \in OpenPositions /\ CostOf(q) = CostOf(p)
        BY <2>1, <3>1, TrailedPosition
      <3> HIDE DEF q, p, trailed
      <3> QED BY <2>3, <3>2 DEF p
    <2>4. trailed(i) = p \/ (bar # NoBar /\ trailed(i) = q)
      OBVIOUS
    <2> QED BY <2>2, <2>3, <2>4
  <1> HIDE DEF trailed
  <1>6. held' \in Seq(OpenPositions) /\ Len(held') = N
    BY <1>4, <1>5
  <1>7. CostsOf(held') = CostsOf(held)
    <2>1. [i \in DOMAIN held' |-> CostOf(held'[i])] = [i \in DOMAIN held |-> CostOf(held[i])]
      BY <1>4, <1>5
    <2> QED BY <2>1 DEF CostsOf, Total
  <1>8. BacktestShape'
    <2>1. OpenPositions' = OpenPositions
      BY <1>1, SamePlan
    <2> QED BY <1>1, <1>2, <1>6, <2>1 DEF BacktestShape, Phases
  <1>9. CalendarInv'
    BY <1>1, <1>2 DEF CalendarInv
  <1>10. CashInv'
    BY <1>1, <1>2, <1>7, NextBooks DEF CashInv
  <1>11. CrowdInv'
    BY <1>1, <1>2, <1>6 DEF CrowdInv
  <1>12. CandidatesInv'
    <2>1. Offered' = Offered
      BY <1>1 DEF Offered, Total
    <2> QED BY <1>1, <1>2, <1>6, <2>1, NextBooks DEF CandidatesInv, UnderWay
  <1>13. SizingInv'
    BY <1>1 DEF SizingInv
  <1> QED BY <1>8, <1>9, <1>10, <1>11, <1>12, <1>13 DEF BacktestInv

LEMMA CloseKeeps ==
    ASSUME BacktestInv, CloseSession
    PROVE  BacktestInv'
  <1> DEFINE invested == MarkToMarket(held, latest)
             record == [invested |-> invested, equity |-> cash + invested,
                        open |-> Len(held), offered |-> Len(pending)]
  <1>1. /\ plan' = plan /\ arm' = arm /\ session' = session /\ today' = today
        /\ latest' = latest /\ blocks' = blocks /\ cash' = cash /\ trades' = trades
        /\ held' = held /\ phase = "screen" /\ pending' \in Rankings
        /\ signal' = [day |-> session, equity |-> cash + invested]
        /\ exposure' = Append(exposure, record)
        /\ phase' = IF session = TradingDays THEN "liquidate" ELSE "open"
    BY DEF CloseSession
  <1>2. BacktestShape /\ CalendarInv /\ CashInv /\ CrowdInv /\ CandidatesInv
    BY DEF BacktestInv
  <1>3. /\ cash \in Int /\ held \in Seq(OpenPositions) /\ session \in Nat
        /\ latest \in [Tickers -> Bar \cup {NoBar}] /\ exposure \in Seq(SessionRecord)
    BY <1>2, BacktestFacts DEF BacktestShape
  <1>4. /\ BlocksOf(blocks) \in Int /\ Len(held) \in Nat /\ Len(trades) \in Nat
        /\ Len(pending) \in Nat /\ Len(exposure) \in Nat /\ Offered \in Int
    BY <1>2, WholeBooks
  <1>5. invested \in Int
    BY <1>3, MarksAreWhole
  <1>6. record \in SessionRecord /\ record.open = Len(held) /\ record.offered = Len(pending)
    <2>1. cash + invested \in Int
      <3> HIDE DEF invested
      <3> QED BY <1>3, <1>5
    <2> HIDE DEF invested
    <2> QED BY <1>4, <1>5, <2>1 DEF SessionRecord
  <1>7. signal'.equity = cash + invested /\ signal' \in [day : Nat, equity : Int]
    <2>1. cash + invested \in Int
      <3> HIDE DEF invested
      <3> QED BY <1>3, <1>5
    <2> HIDE DEF invested
    <2> QED BY <1>1, <1>3, <2>1
  <1> HIDE DEF record, invested
  <1>8. /\ exposure' \in Seq(SessionRecord) /\ Len(exposure') = Len(exposure) + 1
        /\ \A i \in 1..Len(exposure) : exposure'[i] = exposure[i]
        /\ exposure'[Len(exposure) + 1] = record
    BY <1>1, <1>3, <1>6
  <1>9. BacktestShape'
    <2>1. OpenPositions' = OpenPositions
      BY <1>1, SamePlan
    <2>2. pending' \in Seq(Tickers)
      BY <1>1, MarketConstants
    <2>3. phase' \in Phases
      BY <1>1 DEF Phases
    <2> QED BY <1>1, <1>2, <1>7, <1>8, <2>1, <2>2, <2>3 DEF BacktestShape
  <1>10. CalendarInv'
    <2>1. session >= 1 /\ Len(exposure) = session - 1
      BY <1>1, <1>2 DEF CalendarInv
    <2>2. Len(exposure') = session'
      BY <1>1, <1>3, <1>8, <2>1
    <2> QED BY <1>1, <2>2 DEF CalendarInv
  <1>11. CashInv'
    BY <1>1, <1>2, NextBooks DEF CashInv
  <1>12. CrowdInv'
    <2>1. \A i \in 1..(Len(exposure) + 1) : exposure'[i].open <= plan.concurrent
      <3> SUFFICES ASSUME NEW i \in 1..(Len(exposure) + 1)
                   PROVE  exposure'[i].open <= plan.concurrent
        OBVIOUS
      <3>1. CASE i \in 1..Len(exposure)
        BY <1>2, <1>8, <3>1 DEF CrowdInv
      <3>2. CASE i = Len(exposure) + 1
        BY <1>2, <1>6, <1>8, <3>2 DEF CrowdInv
      <3> QED BY <1>4, <3>1, <3>2
    <2> QED BY <1>1, <1>2, <1>8, <2>1 DEF CrowdInv
  <1>13. CandidatesInv'
    <2> DEFINE N == Len(exposure)
               a == [i \in DOMAIN exposure |-> exposure[i].offered]
               b == [i \in DOMAIN exposure' |-> exposure'[i].offered]
    <2>1. N \in Nat /\ DOMAIN exposure = 1..N /\ DOMAIN exposure' = 1..(N + 1)
      BY <1>3, <1>8
    <2>2. \A r \in SessionRecord : r.offered \in Int
      BY DEF SessionRecord
    <2>3. /\ \A i \in 1..N : exposure[i] \in SessionRecord
          /\ \A i \in 1..(N + 1) : exposure'[i] \in SessionRecord
      BY <1>3, <1>8, <2>1
    <2>4. a \in [1..N -> Int] /\ b \in [1..(N + 1) -> Int]
      BY <2>1, <2>2, <2>3
    <2>5. (\A i \in 1..N : b[i] = a[i]) /\ b[N + 1] = Len(pending)
      BY <1>6, <1>8, <2>1
    <2> HIDE DEF a, b, N
    <2>6. SumOf(b) = SumOf(a) + Len(pending)
      BY <2>1, <2>4, <2>5, SumOfOneMore
    <2>7. Offered = SumOf(a) /\ Offered' = SumOf(b)
      BY DEF Offered, Total, SumOf, AfterEach, a, b
    <2>8. BlocksOf(blocks) + Len(trades) + Len(held) = Offered + Len(pending)
      BY <1>1, <1>2 DEF CandidatesInv, UnderWay
    <2>9. Offered' = Offered + Len(pending)
      BY <2>6, <2>7
    <2>10. Offered' = Offered' + 0
      BY <1>4, <2>9
    <2>11. UnderWay' = 0
      BY <1>1 DEF UnderWay
    <2> QED BY <1>1, <2>8, <2>9, <2>10, <2>11, NextBooks DEF CandidatesInv
  <1>14. SizingInv'
    <2>1. MarkToMarket(held, latest)' = invested
      BY <1>1, NextBooks DEF invested
    <2> QED BY <1>1, <1>7, <2>1 DEF SizingInv
  <1> QED BY <1>9, <1>10, <1>11, <1>12, <1>13, <1>14 DEF BacktestInv

LEMMA SaleKeeps ==
    ASSUME BacktestInv, LiquidateRemaining
    PROVE  BacktestInv'
  <1> DEFINE book == [cash |-> cash, trades |-> trades]
             after == Selling(book, held)
  <1>1. /\ plan' = plan /\ arm' = arm /\ session' = session /\ today' = today
        /\ latest' = latest /\ pending' = pending /\ signal' = signal
        /\ blocks' = blocks /\ held' = <<>>
        /\ phase = "liquidate" /\ phase' = "done"
    BY DEF LiquidateRemaining
  <1>2. /\ cash' = after.cash /\ trades' = after.trades
        /\ exposure' = [exposure EXCEPT ![TradingDays].equity = after.cash]
    BY DEF LiquidateRemaining, Selling
  <1>3. BacktestShape /\ CalendarInv /\ CashInv /\ CrowdInv /\ CandidatesInv
    BY DEF BacktestInv
  <1>4. /\ cash \in Int /\ held \in Seq(OpenPositions) /\ trades \in Seq(ClosedPositions)
        /\ latest \in [Tickers -> Bar \cup {NoBar}] /\ exposure \in Seq(SessionRecord)
    BY <1>3 DEF BacktestShape
  <1>5. /\ CostsOf(held) \in Int /\ PnlsOf(trades) \in Int /\ BlocksOf(blocks) \in Int
        /\ Len(held) \in Nat /\ Len(trades) \in Nat /\ Offered \in Int
    BY <1>3, WholeBooks
  <1>6. book \in SaleBooks /\ book.cash = cash /\ book.trades = trades
    BY <1>3, <1>4 DEF SaleBooks, CashInv
  <1>7. /\ after \in SaleBooks
        /\ SaleWorth(after) = SaleWorth(book) + CostsOf(held)
        /\ Len(after.trades) = Len(book.trades) + Len(held)
    <2> HIDE DEF book
    <2> QED BY <1>4, <1>6, SalesAddUp
  <1>8. SaleWorth(book) = cash - PnlsOf(trades)
    BY <1>6 DEF SaleWorth
  <1> HIDE DEF book, after
  <1>9. cash' \in Int /\ cash' >= 0 /\ trades' \in Seq(ClosedPositions)
    BY <1>2, <1>7 DEF SaleBooks
  <1>10. PnlsOf(trades') \in Int /\ Len(trades') = Len(trades) + Len(held)
    <2>1. PnlsOf(trades') \in Int
      BY <1>9, PnlsAreWhole DEF ClosedPositions
    <2> QED BY <1>2, <1>6, <1>7, <2>1
  <1>11. /\ TradingDays \in Nat \ {0} /\ Len(exposure) = TradingDays /\ session = TradingDays
    BY <1>1, <1>3, BacktestFacts DEF CalendarInv
  <1>12. /\ exposure' \in Seq(SessionRecord) /\ Len(exposure') = Len(exposure)
         /\ exposure'[TradingDays].equity = cash'
         /\ \A i \in 1..Len(exposure) : /\ exposure'[i].open = exposure[i].open
                                        /\ exposure'[i].offered = exposure[i].offered
    <2> DEFINE last == [exposure[TradingDays] EXCEPT !.equity = cash']
    <2>1. exposure[TradingDays] \in SessionRecord
      BY <1>4, <1>11
    <2>2. /\ last \in SessionRecord /\ last.equity = cash'
          /\ last.open = exposure[TradingDays].open
          /\ last.offered = exposure[TradingDays].offered
      BY <1>9, <2>1 DEF SessionRecord
    <2>3. exposure' = [exposure EXCEPT ![TradingDays] = last]
      BY <1>2
    <2> HIDE DEF last
    <2> QED BY <1>4, <1>11, <2>2, <2>3
  <1>13. BacktestShape'
    <2>1. OpenPositions' = OpenPositions
      BY <1>1, SamePlan
    <2> QED BY <1>1, <1>3, <1>9, <1>12, <2>1 DEF BacktestShape, Phases
  <1>14. CalendarInv'
    BY <1>1, <1>11, <1>12 DEF CalendarInv
  <1>15. CashInv'
    <2> DEFINE initial == InitialCash * Money
               costs == CostsOf(held)
               pnls == PnlsOf(trades)
               nextCash == cash'
               nextPnls == PnlsOf(trades')
    <2>1. initial \in Int
      BY BacktestFacts
    <2>2. nextCash - nextPnls = cash - pnls + costs
      BY <1>2, <1>7, <1>8 DEF SaleWorth
    <2>3. cash + costs = initial + pnls
      BY <1>3 DEF CashInv
    <2>4. costs \in Int /\ pnls \in Int /\ nextCash \in Int /\ nextPnls \in Int
      BY <1>5, <1>9, <1>10
    <2>5. nextCash + 0 = initial + nextPnls
      <3> HIDE DEF initial, costs, pnls, nextCash, nextPnls
      <3>1. cash - pnls + costs = initial
        BY <1>4, <2>1, <2>3, <2>4
      <3>2. nextCash - nextPnls = initial
        BY <2>2, <3>1
      <3> QED BY <2>1, <2>4, <3>2
    <2>6. CostsOf(held') = 0
      BY <1>1, NothingCosts
    <2> QED BY <1>9, <2>5, <2>6, NextBooks DEF CashInv
  <1>16. CrowdInv'
    <2>1. plan.concurrent \in Nat
      BY <1>3, PlanFacts
    <2> QED BY <1>1, <1>3, <1>12, <2>1 DEF CrowdInv
  <1>17. CandidatesInv'
    <2>1. Offered' = Offered
      <3>1. DOMAIN exposure' = DOMAIN exposure /\ DOMAIN exposure = 1..Len(exposure)
        BY <1>4, <1>12
      <3> DEFINE a == [i \in DOMAIN exposure |-> exposure[i].offered]
                 b == [i \in DOMAIN exposure' |-> exposure'[i].offered]
      <3>2. a = b
        BY <1>12, <3>1
      <3> HIDE DEF a, b
      <3>3. Offered = SumOf(a) /\ Offered' = SumOf(b)
        BY DEF Offered, Total, SumOf, AfterEach, a, b
      <3> QED BY <3>2, <3>3
    <2> DEFINE b == BlocksOf(blocks)
               t == Len(trades)
               h == Len(held)
               tt == Len(trades')
    <2>2. b + t + h = Offered + 0
      BY <1>1, <1>3 DEF CandidatesInv, UnderWay
    <2>3. b + tt + 0 = Offered + 0
      <3>1. b \in Int /\ t \in Int /\ h \in Int /\ tt = t + h
        BY <1>5, <1>10
      <3> HIDE DEF b, t, h, tt
      <3> QED BY <1>5, <2>2, <3>1
    <2>4. Len(held') = 0
      BY <1>1
    <2> QED BY <1>1, <2>1, <2>3, <2>4, NextBooks DEF CandidatesInv, UnderWay
  <1>18. SizingInv'
    BY <1>1 DEF SizingInv
  <1> QED BY <1>13, <1>14, <1>15, <1>16, <1>17, <1>18 DEF BacktestInv

LEMMA BacktestSteps == BacktestInv /\ [BacktestNext]_engineVars => BacktestInv'
  <1> SUFFICES ASSUME BacktestInv, [BacktestNext]_engineVars PROVE BacktestInv'
    OBVIOUS
  <1>1. CASE OpenSession
    BY <1>1, OpenSessionKeeps
  <1>2. CASE FillPendingEntries
    BY <1>2, FillsKeep
  <1>3. CASE ProcessExits
    BY <1>3, ExitsKeep
  <1>4. CASE UpdateTrailingStops
    BY <1>4, TrailsKeep
  <1>5. CASE CloseSession
    BY <1>5, CloseKeeps
  <1>6. CASE LiquidateRemaining
    BY <1>6, SaleKeeps
  <1>7. CASE UNCHANGED engineVars
    <2>1. /\ arm' = arm /\ plan' = plan /\ session' = session /\ phase' = phase
          /\ today' = today /\ latest' = latest /\ cash' = cash /\ held' = held
          /\ trades' = trades /\ pending' = pending /\ signal' = signal
          /\ blocks' = blocks /\ exposure' = exposure
      BY <1>7 DEF engineVars
    <2>2. OpenPositions' = OpenPositions /\ Offered' = Offered
      BY <2>1, SamePlan DEF Offered, Total
    <2> QED BY <2>1, <2>2, NextBooks
            DEF BacktestInv, BacktestShape, CalendarInv, CashInv, CrowdInv,
                CandidatesInv, UnderWay, SizingInv
  <1> QED BY <1>1, <1>2, <1>3, <1>4, <1>5, <1>6, <1>7 DEF BacktestNext

LEMMA BacktestStays == BacktestSpec => []BacktestInv
  <1>1. BacktestInit => BacktestInv
    BY BacktestStarts
  <1>2. BacktestInv /\ [BacktestNext]_engineVars => BacktestInv'
    BY BacktestSteps
  <1> QED BY <1>1, <1>2, PTL DEF BacktestSpec

(* What a report adds up over the trades.                                  *)
LEMMA GainsLessLosses ==
    ASSUME BacktestShape
    PROVE  GrossGains - GrossLosses = TotalPnl
  <1> DEFINE N == Len(trades)
             gains == [i \in DOMAIN trades |-> IF Pnl(trades[i]) > 0 THEN Pnl(trades[i]) ELSE 0]
             losses == [i \in DOMAIN trades |-> IF Pnl(trades[i]) < 0 THEN -Pnl(trades[i]) ELSE 0]
             pnls == [i \in DOMAIN trades |-> Pnl(trades[i])]
  <1>1. N \in Nat /\ DOMAIN trades = 1..N
    BY DEF BacktestShape
  <1>2. \A i \in 1..N : Pnl(trades[i]) \in Int
    <2> SUFFICES ASSUME NEW i \in 1..N PROVE Pnl(trades[i]) \in Int
      OBVIOUS
    <2>1. trades[i] \in ClosedPosition /\ <<>> \in Seq(ClosedPosition)
      BY <1>1 DEF BacktestShape, ClosedPositions
    <2> QED BY <2>1, PnlsAddUp
  <1>3. gains \in [1..N -> Int] /\ losses \in [1..N -> Int] /\ pnls \in [1..N -> Int]
    BY <1>1, <1>2
  <1>4. \A i \in 1..N : gains[i] = losses[i] + pnls[i]
    BY <1>1, <1>2
  <1>5. GrossGains = SumOf(gains) /\ GrossLosses = SumOf(losses) /\ TotalPnl = SumOf(pnls)
    BY DEF GrossGains, GrossLosses, TotalPnl, Total
  <1> HIDE DEF N, gains, losses, pnls
  <1>6. /\ SumOf(gains) = SumOf(losses) + SumOf(pnls)
        /\ SumOf(losses) \in Int /\ SumOf(pnls) \in Int
    BY <1>1, <1>3, <1>4, SumOfPairs, SumIsWhole
  <1> QED BY <1>5, <1>6

LEMMA EveryTradeHasOneReason ==
    ASSUME BacktestShape
    PROVE  Len(trades) = ExitReasonCount("stop") + ExitReasonCount("max_hold")
                         + ExitReasonCount("end_of_backtest")
  <1> DEFINE N == Len(trades)
             is(r) == [i \in DOMAIN trades |-> IF trades[i].reason = r THEN 1 ELSE 0]
             stops == is("stop")
             holds == is("max_hold")
             ends == is("end_of_backtest")
             both == [i \in 1..N |-> stops[i] + holds[i]]
             all == [i \in 1..N |-> both[i] + ends[i]]
  <1>1. N \in Nat /\ DOMAIN trades = 1..N
    BY DEF BacktestShape
  <1>2. \A i \in 1..N : trades[i].reason \in {"stop", "max_hold", "end_of_backtest"}
    <2> SUFFICES ASSUME NEW i \in 1..N
                 PROVE  trades[i].reason \in {"stop", "max_hold", "end_of_backtest"}
      OBVIOUS
    <2>1. trades[i] \in ClosedPosition
      BY <1>1 DEF BacktestShape, ClosedPositions
    <2> QED BY <2>1 DEF ClosedPosition, ExitReasons
  <1>3. stops \in [1..N -> Int] /\ holds \in [1..N -> Int] /\ ends \in [1..N -> Int]
    BY <1>1
  <1>4. \A i \in 1..N : stops[i] + holds[i] + ends[i] = 1
    BY <1>1, <1>2
  <1>5. /\ ExitReasonCount("stop") = SumOf(stops)
        /\ ExitReasonCount("max_hold") = SumOf(holds)
        /\ ExitReasonCount("end_of_backtest") = SumOf(ends)
    BY DEF ExitReasonCount, Total
  <1> HIDE DEF N, stops, holds, ends
  <1>6. both \in [1..N -> Int]
    BY <1>3
  <1>7. SumOf(both) = SumOf(stops) + SumOf(holds)
    <2>1. \A i \in 1..N : both[i] = stops[i] + holds[i]
      OBVIOUS
    <2> HIDE DEF both
    <2> QED BY <1>1, <1>3, <1>6, <2>1, SumOfPairs
  <1>8. all \in [1..N -> Int] /\ \A i \in 1..N : all[i] = 1
    BY <1>3, <1>4, <1>6
  <1>9. SumOf(all) = SumOf(both) + SumOf(ends) /\ SumOf(all) = N
    <2>1. \A i \in 1..N : all[i] = both[i] + ends[i]
      OBVIOUS
    <2> HIDE DEF both, all
    <2>2. SumOf(all) = SumOf(both) + SumOf(ends)
      <3>1. all \in [1..N -> Int] /\ ends \in [1..N -> Int]
        BY <1>3, <1>8
      <3> QED BY <1>1, <1>6, <2>1, <3>1, SumOfPairs
    <2>3. SumOf(all) = N
      BY <1>1, <1>8, SumOfOnes
    <2> QED BY <2>2, <2>3
  <1> QED BY <1>5, <1>7, <1>9 DEF N

(* The cash ledger and the trade log tell the same story: what was spent   *)
(* and earned is what the trades report after both commissions, nothing is *)
(* borrowed, and the final equity is the start plus every pnl.             *)
THEOREM BacktestBooksBalance == BacktestSpec => []BooksBalance
  <1>1. BacktestInv => BooksBalance
    <2> SUFFICES ASSUME BacktestInv PROVE BooksBalance
      OBVIOUS
    <2>1. BacktestShape /\ CalendarInv /\ CashInv /\ CrowdInv
      BY DEF BacktestInv
    <2>2. EntryCosts = CostsOf(held) /\ TotalPnl = PnlsOf(trades)
      BY DEF EntryCosts, CostsOf, CostOf, TotalPnl, PnlsOf, Total
    <2>3. cash + EntryCosts = InitialCash * Money + TotalPnl /\ cash >= 0
      BY <2>1, <2>2 DEF CashInv
    <2>4. GrossGains - GrossLosses = TotalPnl
      BY <2>1, GainsLessLosses
    <2>5. ASSUME phase = "done"
          PROVE  exposure[TradingDays].equity = InitialCash * Money + TotalPnl
      <3>1. held = <<>> /\ exposure[TradingDays].equity = cash
        BY <2>1, <2>5 DEF CalendarInv
      <3>2. EntryCosts = 0
        BY <2>2, <3>1, NothingCosts
      <3>3. cash \in Int
        BY <2>1 DEF BacktestShape
      <3> QED BY <2>3, <3>1, <3>2, <3>3
    <2>6. Len(trades) = ExitReasonCount("stop") + ExitReasonCount("max_hold")
                        + ExitReasonCount("end_of_backtest")
      BY <2>1, EveryTradeHasOneReason
    <2>7. MaxConcurrentReached <= plan.concurrent
      <3> DEFINE S == {exposure[i].open : i \in DOMAIN exposure} \cup {0}
      <3>1. plan.concurrent \in Nat
        BY <2>1, PlanFacts
      <3>2. \A i \in DOMAIN exposure : exposure[i] \in SessionRecord /\ i \in 1..Len(exposure)
        BY <2>1 DEF BacktestShape
      <3>3. S \in SUBSET Nat /\ S # {}
        BY <3>2 DEF SessionRecord
      <3>4. \A x \in S : x <= plan.concurrent
        BY <2>1, <3>1, <3>2 DEF CrowdInv
      <3> HIDE DEF S
      <3>5. Max(S) \in S
        BY <3>1, <3>3, <3>4, GreatestNatural
      <3> QED BY <3>4, <3>5 DEF MaxConcurrentReached, S
    <2> QED BY <2>3, <2>4, <2>5, <2>6, <2>7 DEF BooksBalance
  <1> QED BY <1>1, BacktestStays, PTL

(* Between two sessions every candidate that was ever offered is a position *)
(* or one counted block: the fills of a morning lose none and count none    *)
(* twice, however full the book and whatever stopped the order.             *)
THEOREM EveryCandidateIsCounted == BacktestSpec => []EveryCandidateCounts
  <1>1. BacktestInv => EveryCandidateCounts
    <2> SUFFICES ASSUME BacktestInv, phase = "open"
                 PROVE  EntryBlocks + Len(trades) + Len(held) = Offered
      BY DEF EveryCandidateCounts
    <2>1. EntryBlocks = BlocksOf(blocks)
      BY DEF EntryBlocks, BlocksOf, EntryBlockCount, Total
    <2>2. Offered \in Int
      BY WholeBooks DEF BacktestInv
    <2>3. BlocksOf(blocks) + Len(trades) + Len(held) = Offered + 0
      BY DEF BacktestInv, CandidatesInv, UnderWay
    <2> QED BY <2>1, <2>2, <2>3
  <1> QED BY <1>1, BacktestStays, PTL

(* The equity that sizes the fills is the mark of the book at the signal    *)
(* day's close, no position is beyond the caps of the equity it was sized   *)
(* by, and every trade's planned risk can be measured.                      *)
THEOREM PositionsAreSizedAsPlanned == BacktestSpec => []SizedAsPlanned
  <1>1. BacktestInv => SizedAsPlanned
    <2> SUFFICES ASSUME BacktestInv PROVE SizedAsPlanned
      OBVIOUS
    <2>1. held \in Seq(OpenPositions) /\ trades \in Seq(ClosedPositions)
      BY DEF BacktestInv, BacktestShape
    <2>2. phase = "fill" /\ session > 1 => signal.equity = cash + MarkToMarket(held, latest)
      BY DEF BacktestInv, SizingInv
    <2>3. \A i \in DOMAIN held : Sized(held[i])
      BY <2>1 DEF OpenPositions
    <2>4. \A i \in DOMAIN trades : PlannedRisk(trades[i]) > 0
      BY <2>1 DEF ClosedPositions
    <2>5. MeasuredInR = DOMAIN trades
      BY <2>4 DEF MeasuredInR
    <2> QED BY <2>2, <2>3, <2>5 DEF SizedAsPlanned, Sized
  <1> QED BY <1>1, BacktestStays, PTL

(********** MarketRegime: what a confirmed Follow-Through Day rests on *******)
MachineStates == {"AWAITING", "EXPIRED", "CORRECTION", "DAY1", "DAY2_3", "CONFIRMED"}
Machines == [state : MachineStates, day1Low : Int, day : Int, quality : Int,
             confirmed : Int, low : Int]
Trends == [high : Int, down : Int]
FtdStates == [trend : Trends, machine : Machines]

(* The constants as numbers.                                               *)
LEMMA RegimeNumbers ==
    /\ SmaPeriod \in Nat /\ CorrectionDownDays \in Nat /\ SmaPeriod >= 1 /\ CorrectionDownDays >= 1
    /\ FtdFirstDay \in Nat /\ FtdLastDay \in Nat /\ 1 < FtdFirstDay /\ FtdFirstDay <= FtdLastDay
    /\ HistoryRows \in Nat /\ EarlyLastDay \in Nat /\ FtdGain \in Nat /\ CorrectionDecline \in Nat
  BY RegimeConstants

(* An average is a number.                                                 *)
LEMMA SmaIsANumber ==
    ASSUME NEW bars \in Seq(IndexBars), NEW k \in 1..Len(bars), k >= SmaPeriod
    PROVE  SmaSum(bars, k) \in Int
  <1> DEFINE step == [n \in 1..SmaPeriod |-> [x \in Int |-> x + bars[k - n + 1].close]]
             sum == CHOOSE f : f = [n \in 0..SmaPeriod |->
                        IF n = 0 THEN 0 ELSE f[n - 1] + bars[k - n + 1].close]
  <1>1. SmaPeriod \in Nat /\ SmaPeriod >= 1
    BY RegimeNumbers
  <1>2. StaysIn(Int, step, SmaPeriod)
    <2>1. ASSUME NEW n \in 1..SmaPeriod PROVE bars[k - n + 1].close \in Int
      <3>1. k - n + 1 \in 1..Len(bars)
        BY <1>1
      <3>2. bars[k - n + 1] \in IndexBars
        BY <3>1
      <3> QED BY <3>2 DEF IndexBars
    <2> QED BY <2>1 DEF StaysIn
  <1>3. PICK f \in [0..SmaPeriod -> Int] : Iterates(f, 0, step, SmaPeriod)
    <2>1. 0 \in Int
      OBVIOUS
    <2> HIDE DEF step
    <2> QED BY <1>1, <1>2, <2>1, RecursionExists
  <1>4. f = [n \in 0..SmaPeriod |-> IF n = 0 THEN 0 ELSE f[n - 1] + bars[k - n + 1].close]
    <2>1. ASSUME NEW n \in 0..SmaPeriod
          PROVE  f[n] = IF n = 0 THEN 0 ELSE f[n - 1] + bars[k - n + 1].close
      <3>1. CASE n = 0
        BY <1>3, <3>1 DEF Iterates
      <3>2. CASE n # 0
        <4>1. n \in 1..SmaPeriod /\ n - 1 \in 0..SmaPeriod
          BY <1>1, <3>2
        <4>2. f[n - 1] \in Int
          BY <1>3, <4>1
        <4>3. f[n] = step[n][f[n - 1]]
          <5> HIDE DEF step
          <5> QED BY <1>3, <4>1 DEF Iterates
        <4> QED BY <3>2, <4>1, <4>2, <4>3
      <3> QED BY <3>1, <3>2
    <2> QED BY <2>1, <1>3
  <1>5. sum = [n \in 0..SmaPeriod |-> IF n = 0 THEN 0 ELSE sum[n - 1] + bars[k - n + 1].close]
    BY <1>4
  <1>6. \A n \in 0..SmaPeriod : sum[n] \in Int
    <2> DEFINE G == {n \in 0..SmaPeriod : sum[n] \in Int}
    <2>1. 0 \in G
      <3> HIDE DEF sum
      <3> QED BY <1>1, <1>5
    <2>2. ASSUME NEW n \in 1..SmaPeriod, n - 1 \in G PROVE n \in G
      <3>1. /\ k - n + 1 \in 1..Len(bars) /\ n \in 0..SmaPeriod /\ n # 0
            /\ sum[n - 1] \in Int
        <4> HIDE DEF sum
        <4> QED BY <1>1, <2>2
      <3>2. bars[k - n + 1] \in IndexBars
        BY <3>1
      <3>3. bars[k - n + 1].close \in Int
        BY <3>2 DEF IndexBars
      <3>4. sum[n] = sum[n - 1] + bars[k - n + 1].close
        <4> HIDE DEF sum
        <4> QED BY <1>5, <3>1
      <3> HIDE DEF sum
      <3> QED BY <3>1, <3>3, <3>4
    <2>3. \A n \in 0..SmaPeriod : n \in G
      <3> HIDE DEF G
      <3> QED BY <1>1, <2>1, <2>2, Induction
    <2> HIDE DEF sum
    <2> QED BY <2>3
  <1>7. SmaSum(bars, k) = sum[SmaPeriod]
    BY DEF SmaSum
  <1> HIDE DEF sum
  <1> QED BY <1>1, <1>6, <1>7

(* The columns of the rows are numbers.                                    *)
LEMMA BarNumbers ==
    ASSUME NEW bars \in Seq(IndexBars), NEW j \in 1..Len(bars)
    PROVE  bars[j].close \in Int /\ bars[j].low \in Int
  <1>1. bars[j] \in IndexBars
    OBVIOUS
  <1> DEFINE b == bars[j]
  <1> HIDE DEF b
  <1>2. b \in IndexBars => b.close \in Int /\ b.low \in Int
    BY DEF IndexBars
  <1> QED BY <1>1, <1>2 DEF b

(* The trend: the highest close of the rows, and the run of closes that    *)
(* fell, all before the first row.                                         *)
TrendIs(t, bars, k) ==
    /\ t \in Trends
    /\ \E j \in 1..k : bars[j].close = t.high
    /\ \A j \in 1..k : bars[j].close <= t.high
    /\ 0 <= t.down /\ t.down < k
    /\ \A j \in (k - t.down + 1)..k : bars[j].close < bars[j - 1].close

LEMMA TrendStep ==
    ASSUME NEW bars \in Seq(IndexBars), NEW k \in 2..Len(bars), NEW t, TrendIs(t, bars, k - 1)
    PROVE  TrendIs(Trend(t, bars, k), bars, k)
  <1> DEFINE u == Trend(t, bars, k)
  <1>1. /\ \A j \in 1..k : bars[j].close \in Int
        /\ t.high \in Int /\ t.down \in Int /\ k \in Int /\ k >= 2
    <2>1. \A j \in 1..k : bars[j].close \in Int
      <3>1. 1..k \subseteq 1..Len(bars)
        OBVIOUS
      <3> QED BY <3>1, BarNumbers
    <2> QED BY <2>1 DEF TrendIs, Trends
  <1>a. \A j \in 1..k : j # k => bars[j].close <= t.high
    BY DEF TrendIs
  <1>2. CASE bars[k].close > t.high
    <2>1. u = [high |-> bars[k].close, down |-> 0]
      BY <1>2 DEF Trend
    <2>2. \A j \in 1..k : bars[j].close <= bars[k].close
      BY <1>1, <1>2, <1>a
    <2> QED BY <1>1, <2>1, <2>2 DEF TrendIs, Trends
  <1>3. CASE ~(bars[k].close > t.high) /\ bars[k].close < bars[k - 1].close
    <2>1. u = [high |-> t.high, down |-> t.down + 1]
      BY <1>3 DEF Trend, TrendIs, Trends
    <2>2. \A j \in 1..k : bars[j].close <= t.high
      BY <1>1, <1>3, <1>a
    <2>3. \A j \in (k - u.down + 1)..k : bars[j].close < bars[j - 1].close
      <3>1. \A j \in ((k - 1) - t.down + 1)..(k - 1) : bars[j].close < bars[j - 1].close
        BY DEF TrendIs
      <3>2. u.down = t.down + 1
        BY <2>1
      <3> HIDE DEF u
      <3>3. ASSUME NEW j \in (k - u.down + 1)..k PROVE bars[j].close < bars[j - 1].close
        <4>1. j = k \/ j \in (k - 1 - t.down + 1)..(k - 1)
          BY <1>1, <3>2
        <4> QED BY <1>3, <3>1, <4>1
      <3> QED BY <3>3
    <2> QED BY <1>1, <2>1, <2>2, <2>3 DEF TrendIs, Trends
  <1>4. CASE ~(bars[k].close > t.high) /\ ~(bars[k].close < bars[k - 1].close)
    <2>1. u = [high |-> t.high, down |-> 0]
      BY <1>4 DEF Trend, TrendIs, Trends
    <2>2. \A j \in 1..k : bars[j].close <= t.high
      BY <1>1, <1>4, <1>a
    <2> QED BY <1>1, <2>1, <2>2 DEF TrendIs, Trends
  <1> QED BY <1>2, <1>3, <1>4

(* A correction that the machine sees is one of the rows.                  *)
LEMMA SeenIsCorrected ==
    ASSUME NEW bars \in Seq(IndexBars), NEW k \in 2..Len(bars), NEW t, TrendIs(t, bars, k),
           1000 * bars[k].close <= (1000 - CorrectionDecline) * t.high,
           t.down >= CorrectionDownDays
    PROVE  Corrected(bars, k)
  <1> DEFINE D == {bars[j].close : j \in 1..k}
  <1>1. \A j \in 1..k : bars[j].close \in Int
    <2>1. 1..k \subseteq 1..Len(bars)
      OBVIOUS
    <2> QED BY <2>1, BarNumbers
  <1>2. D \in SUBSET Int /\ t.high \in D /\ \A x \in D : x <= t.high
    BY <1>1 DEF TrendIs
  <1>3. Max(D) = t.high
    <2> HIDE DEF D
    <2> QED BY <1>2, MaxIsGreatest
  <1>4. /\ k > CorrectionDownDays
        /\ \A j \in (k - CorrectionDownDays + 1)..k : bars[j].close < bars[j - 1].close
    <2>1. t.down \in Int /\ CorrectionDownDays \in Int
      BY RegimeNumbers DEF TrendIs, Trends
    <2> QED BY <2>1 DEF TrendIs
  <1>5. 1000 * bars[k].close <= (1000 - CorrectionDecline) * Max(D)
    BY <1>3
  <1> HIDE DEF D
  <1>6. Max({bars[j].close : j \in 1..k}) = Max(D)
    BY DEF D
  <1> QED BY <1>4, <1>5, <1>6 DEF Corrected

(* A rally begins on a first day after a correction, and its low holds.    *)
RallyHolds(bars, first, k) ==
    /\ first \in 3..k
    /\ Day1(bars, first)
    /\ \E c \in 2..(first - 1) : Corrected(bars, c)
    /\ \A j \in (first + 1)..k : bars[j].low >= bars[first].low

StaysConfirmed(bars, confirmed, k) ==
    \A j \in confirmed..k : j > confirmed => bars[j].close >= bars[confirmed].low

StaysBelow(bars, confirmed, k) ==
    \A j \in confirmed..k : j >= SmaPeriod => SmaPeriod * bars[j].close < SmaSum(bars, j)

FirstDay(m, k) == k - m.day + 1

CorrectedBefore(bars, k) == \E c \in 2..k : Corrected(bars, c)

RallyIs(m, bars, k) ==
    /\ m.day \in 1..(FtdLastDay - 1)
    /\ m.day1Low = bars[FirstDay(m, k)].low
    /\ RallyHolds(bars, FirstDay(m, k), k)

ConfirmationIs(m, bars, k) ==
    /\ m.day \in FtdFirstDay..FtdLastDay
    /\ m.confirmed \in 2..k
    /\ m.low = bars[m.confirmed].low
    /\ FollowsThrough(bars, m.confirmed)
    /\ RallyHolds(bars, FirstDay(m, m.confirmed), m.confirmed)
    /\ StaysConfirmed(bars, m.confirmed, k)

MachineIs(m, bars, k) ==
    /\ m \in Machines
    /\ m.state = "CORRECTION" => CorrectedBefore(bars, k)
    /\ m.state \in {"DAY1", "DAY2_3"} => RallyIs(m, bars, k)
    /\ m.state = "CONFIRMED" => ConfirmationIs(m, bars, k)

LEMMA MachineFields ==
    ASSUME NEW state
    PROVE  Machine(state).state = state /\ (state \in MachineStates => Machine(state) \in Machines)
  BY DEF Machine, Machines

LEMMA RestingMachine ==
    ASSUME NEW state \in {"AWAITING", "EXPIRED"}, NEW bars, NEW k
    PROVE  MachineIs(Machine(state), bars, k)
  BY MachineFields DEF MachineIs, MachineStates

LEMMA CorrectedMachine ==
    ASSUME NEW bars, NEW k, CorrectedBefore(bars, k)
    PROVE  MachineIs(Machine("CORRECTION"), bars, k)
  BY MachineFields DEF MachineIs, MachineStates

LEMMA CorrectedStays ==
    ASSUME NEW bars, NEW k \in Nat, CorrectedBefore(bars, k - 1)
    PROVE  CorrectedBefore(bars, k)
  BY DEF CorrectedBefore

(* From a correction: the first day of a rally, or none yet.               *)
LEMMA FromCorrection ==
    ASSUME NEW bars \in Seq(IndexBars), NEW k \in 2..Len(bars), NEW m,
           MachineIs(m, bars, k - 1), m.state = "CORRECTION", NEW corrected
    PROVE  MachineIs(Transition(m, bars, k, corrected), bars, k)
  <1>1. CorrectedBefore(bars, k - 1) /\ m \in Machines
    BY DEF MachineIs
  <1>2. CASE ~Day1(bars, k)
    <2>1. Transition(m, bars, k, corrected) = m
      BY <1>2 DEF Transition
    <2> QED BY <1>1, <2>1, CorrectedStays DEF MachineIs
  <1>3. CASE Day1(bars, k)
    <2> DEFINE n == [state |-> "DAY1", day1Low |-> bars[k].low, day |-> 1, quality |-> 0,
                     confirmed |-> 0, low |-> 0]
    <2>1. Transition(m, bars, k, corrected) = n
      BY <1>3 DEF Transition, Machine
    <2>2. bars[k].low \in Int
      BY BarNumbers
    <2>3. n \in Machines
      BY <2>2 DEF Machines, MachineStates
    <2>4. k - 1 >= 2
      BY <1>1 DEF CorrectedBefore
    <2>5. RallyHolds(bars, k, k)
      BY <1>1, <1>3, <2>4 DEF RallyHolds, CorrectedBefore
    <2>6. FirstDay(n, k) = k
      BY DEF FirstDay
    <2>7. n.day \in 1..(FtdLastDay - 1)
      BY RegimeNumbers
    <2> QED BY <2>1, <2>3, <2>5, <2>6, <2>7 DEF MachineIs, RallyIs
  <1> QED BY <1>2, <1>3

LEMMA QualityIsANumber ==
    ASSUME NEW day, NEW bars, NEW k
    PROVE  QualityScore(day, bars, k) \in Int
  BY DEF QualityScore

(* In a rally: undercut, confirmed, expired, or one day further.           *)
LEMMA FromRally ==
    ASSUME NEW bars \in Seq(IndexBars), NEW k \in 2..Len(bars), NEW m,
           MachineIs(m, bars, k - 1), m.state \in {"DAY1", "DAY2_3"}, NEW corrected
    PROVE  MachineIs(Transition(m, bars, k, corrected), bars, k)
  <1> DEFINE first == FirstDay(m, k - 1)
  <1>1. RallyIs(m, bars, k - 1) /\ m \in Machines
    BY DEF MachineIs
  <1>2. /\ m.day \in 1..(FtdLastDay - 1) /\ m.day \in Int /\ FtdLastDay \in Int
        /\ first \in 3..(k - 1) /\ first = k - m.day /\ first \in Int
    BY <1>1, RegimeNumbers DEF RallyIs, RallyHolds, FirstDay
  <1>3. bars[k].low \in Int /\ bars[first].low \in Int
    <2>1. first \in 1..Len(bars)
      BY <1>2
    <2> HIDE DEF first
    <2> QED BY <2>1, BarNumbers
  <1>4. m.day1Low = bars[first].low /\ RallyHolds(bars, first, k - 1)
    BY <1>1 DEF RallyIs
  <1> HIDE DEF first
  <1>5. CASE bars[k].low < m.day1Low
    <2>1. Transition(m, bars, k, corrected) = Machine("CORRECTION")
      BY <1>5 DEF Transition
    <2>2. CorrectedBefore(bars, k)
      BY <1>2, <1>4 DEF CorrectedBefore, RallyHolds
    <2> QED BY <2>1, <2>2, CorrectedMachine
  <1>6. CASE ~(bars[k].low < m.day1Low)
    <2>1. RallyHolds(bars, first, k)
      <3>1. bars[k].low >= bars[first].low
        BY <1>3, <1>4, <1>6
      <3>2. \A j \in (first + 1)..k : bars[j].low >= bars[first].low
        BY <1>2, <1>4, <3>1 DEF RallyHolds
      <3> QED BY <1>2, <1>4, <3>2 DEF RallyHolds
    <2>2. CASE m.day + 1 \in FtdFirstDay..FtdLastDay /\ FollowsThrough(bars, k)
      <3> DEFINE n == [state |-> "CONFIRMED", day1Low |-> m.day1Low, day |-> m.day + 1,
                       quality |-> QualityScore(m.day + 1, bars, k), confirmed |-> k,
                       low |-> bars[k].low]
      <3>1. Transition(m, bars, k, corrected) = n
        BY <1>6, <2>2 DEF Transition
      <3>2. n \in Machines
        BY <1>1, <1>2, <1>3, QualityIsANumber DEF Machines, MachineStates
      <3>3. FirstDay(n, k) = first
        BY <1>2 DEF FirstDay
      <3>4. StaysConfirmed(bars, k, k)
        BY DEF StaysConfirmed
      <3>5. ConfirmationIs(n, bars, k)
        BY <2>1, <2>2, <3>3, <3>4 DEF ConfirmationIs
      <3> QED BY <3>1, <3>2, <3>5 DEF MachineIs
    <2>3. CASE ~(m.day + 1 \in FtdFirstDay..FtdLastDay /\ FollowsThrough(bars, k))
               /\ m.day + 1 >= FtdLastDay
      <3>1. Transition(m, bars, k, corrected) = Machine("EXPIRED")
        BY <1>6, <2>3 DEF Transition
      <3> QED BY <3>1, RestingMachine
    <2>4. CASE ~(m.day + 1 \in FtdFirstDay..FtdLastDay /\ FollowsThrough(bars, k))
               /\ ~(m.day + 1 >= FtdLastDay)
      <3> DEFINE n == [m EXCEPT !.state = "DAY2_3", !.day = m.day + 1]
      <3>1. Transition(m, bars, k, corrected) = n
        BY <1>6, <2>4 DEF Transition
      <3>2. n \in Machines /\ n.state = "DAY2_3" /\ n.day = m.day + 1 /\ n.day1Low = m.day1Low
        <4>1. m.day + 1 \in Int
          BY <1>2
        <4> QED BY <1>1, <4>1 DEF Machines, MachineStates
      <3> HIDE DEF n
      <3>3. FirstDay(n, k) = first
        BY <1>2, <3>2 DEF FirstDay
      <3>4. n.day \in 1..(FtdLastDay - 1)
        BY <1>2, <2>4, <3>2
      <3>5. RallyIs(n, bars, k)
        BY <1>4, <2>1, <3>2, <3>3, <3>4 DEF RallyIs
      <3> QED BY <3>1, <3>2, <3>5 DEF MachineIs
    <2> QED BY <2>2, <2>3, <2>4
  <1> QED BY <1>5, <1>6

(* Once confirmed: until a close breaks the day's low.                     *)
LEMMA FromConfirmation ==
    ASSUME NEW bars \in Seq(IndexBars), NEW k \in 2..Len(bars), NEW m,
           MachineIs(m, bars, k - 1), m.state = "CONFIRMED", NEW corrected
    PROVE  MachineIs(Transition(m, bars, k, corrected), bars, k)
  <1>1. ConfirmationIs(m, bars, k - 1) /\ m \in Machines
    BY DEF MachineIs
  <1>2. CASE bars[k].close < m.low
    <2>1. Transition(m, bars, k, corrected) = Machine("EXPIRED")
      BY <1>2 DEF Transition
    <2> QED BY <2>1, RestingMachine
  <1>3. CASE ~(bars[k].close < m.low)
    <2>1. Transition(m, bars, k, corrected) = m
      BY <1>3 DEF Transition
    <2>2. /\ m.confirmed \in 2..(k - 1) /\ m.confirmed \in Int /\ m.low = bars[m.confirmed].low
          /\ StaysConfirmed(bars, m.confirmed, k - 1)
      BY <1>1 DEF ConfirmationIs
    <2>3. bars[k].close >= bars[m.confirmed].low
      <3>1. m.confirmed \in 1..Len(bars)
        BY <2>2
      <3>2. bars[k].close \in Int /\ bars[m.confirmed].low \in Int
        BY <3>1, BarNumbers
      <3> QED BY <1>3, <2>2, <3>2
    <2>4. StaysConfirmed(bars, m.confirmed, k)
      BY <2>2, <2>3 DEF StaysConfirmed
    <2>5. ConfirmationIs(m, bars, k)
      BY <1>1, <2>2, <2>4 DEF ConfirmationIs
    <2> QED BY <1>1, <2>1, <2>5 DEF MachineIs
  <1> QED BY <1>2, <1>3

LEMMA TransitionRests ==
    ASSUME NEW bars \in Seq(IndexBars), NEW k \in 2..Len(bars), NEW m,
           MachineIs(m, bars, k - 1), NEW corrected, corrected => Corrected(bars, k)
    PROVE  MachineIs(Transition(m, bars, k, corrected), bars, k)
  <1>1. m.state \in MachineStates /\ m \in Machines
    BY DEF MachineIs, Machines
  <1>2. CASE m.state \in {"AWAITING", "EXPIRED"}
    <2>1. CASE corrected
      <3>1. Transition(m, bars, k, corrected) = Machine("CORRECTION")
        BY <1>2, <2>1 DEF Transition
      <3>2. CorrectedBefore(bars, k)
        BY <2>1 DEF CorrectedBefore
      <3> QED BY <3>1, <3>2, CorrectedMachine
    <2>2. CASE ~corrected
      <3>1. Transition(m, bars, k, corrected) = m
        BY <1>2, <2>2 DEF Transition
      <3> QED BY <1>1, <1>2, <3>1 DEF MachineIs
    <2> QED BY <2>1, <2>2
  <1> QED BY <1>1, <1>2, FromCorrection, FromRally, FromConfirmation DEF MachineStates

(* One row further: the machine moves, then SPY's average may expire it.   *)
FtdIs(s, bars, k, expiresAtSma) ==
    /\ s \in FtdStates
    /\ TrendIs(s.trend, bars, k)
    /\ MachineIs(s.machine, bars, k)
    /\ s.machine.state = "CONFIRMED" /\ expiresAtSma
          => StaysBelow(bars, s.machine.confirmed, k)

LEMMA FtdIsMade ==
    ASSUME NEW bars, NEW k, NEW expiresAtSma, NEW t, NEW m,
           TrendIs(t, bars, k), MachineIs(m, bars, k),
           m.state = "CONFIRMED" /\ expiresAtSma => StaysBelow(bars, m.confirmed, k)
    PROVE  FtdIs([trend |-> t, machine |-> m], bars, k, expiresAtSma)
  <1>1. t \in Trends /\ m \in Machines
    BY DEF TrendIs, MachineIs
  <1> QED BY <1>1 DEF FtdIs, FtdStates

(* What a step confirms was confirmed before, or is confirmed by this row. *)
LEMMA ConfirmationIsKept ==
    ASSUME NEW bars, NEW k, NEW m, m \in Machines, NEW corrected,
           Transition(m, bars, k, corrected).state = "CONFIRMED"
    PROVE  \/ Transition(m, bars, k, corrected) = m
           \/ Transition(m, bars, k, corrected).confirmed = k
  <1>1. m.state \in MachineStates
    BY DEF Machines
  <1>2. CASE m.state \in {"AWAITING", "EXPIRED"}
    BY <1>2 DEF Transition, Machine
  <1>3. CASE m.state = "CORRECTION"
    BY <1>3 DEF Transition, Machine
  <1>4. CASE m.state \in {"DAY1", "DAY2_3"}
    <2> DEFINE t == Transition(m, bars, k, corrected)
               n == [m EXCEPT !.state = "DAY2_3", !.day = m.day + 1]
    <2>1. \/ t = Machine("CORRECTION") \/ t = Machine("EXPIRED") \/ t.confirmed = k \/ t = n
      BY <1>4 DEF Transition
    <2>2. n.state = "DAY2_3"
      BY DEF Machines
    <2> HIDE DEF t, n
    <2> QED BY <2>1, <2>2, MachineFields DEF t
  <1>5. CASE m.state = "CONFIRMED"
    BY <1>5 DEF Transition, Machine
  <1> QED BY <1>1, <1>2, <1>3, <1>4, <1>5 DEF MachineStates

LEMMA FtdStepRests ==
    ASSUME NEW bars \in Seq(IndexBars), NEW k \in 2..Len(bars), NEW s,
           NEW expiresAtSma \in BOOLEAN, FtdIs(s, bars, k - 1, expiresAtSma)
    PROVE  FtdIs(FtdStep(s, bars, k, expiresAtSma), bars, k, expiresAtSma)
  <1> DEFINE trend == Trend(s.trend, bars, k)
             corrected == /\ 1000 * bars[k].close <= (1000 - CorrectionDecline) * trend.high
                          /\ trend.down >= CorrectionDownDays
             m == Transition(s.machine, bars, k, corrected)
             recovered == /\ expiresAtSma
                          /\ m.state = "CONFIRMED"
                          /\ k >= SmaPeriod
                          /\ SmaPeriod * bars[k].close >= SmaSum(bars, k)
             u == FtdStep(s, bars, k, expiresAtSma)
  <1>0. /\ TrendIs(s.trend, bars, k - 1) /\ MachineIs(s.machine, bars, k - 1)
        /\ s.machine.state = "CONFIRMED" /\ expiresAtSma
              => StaysBelow(bars, s.machine.confirmed, k - 1)
    BY DEF FtdIs
  <1>1. u = [trend |-> trend, machine |-> IF recovered THEN Machine("EXPIRED") ELSE m]
    BY DEF FtdStep
  <1>2. TrendIs(trend, bars, k)
    BY <1>0, TrendStep
  <1>3. corrected => Corrected(bars, k)
    <2> HIDE DEF trend
    <2> QED BY <1>2, SeenIsCorrected
  <1>4. MachineIs(m, bars, k)
    <2> HIDE DEF corrected
    <2> QED BY <1>0, <1>3, TransitionRests
  <1>5. CASE recovered
    <2>1. u = [trend |-> trend, machine |-> Machine("EXPIRED")]
      <3> HIDE DEF m, trend
      <3> QED BY <1>1, <1>5
    <2>2. MachineIs(Machine("EXPIRED"), bars, k) /\ Machine("EXPIRED").state # "CONFIRMED"
      BY RestingMachine, MachineFields
    <2> HIDE DEF u, m, trend, recovered
    <2>3. FtdIs(u, bars, k, expiresAtSma)
      BY <1>2, <2>1, <2>2, FtdIsMade
    <2> QED BY <2>3 DEF u
  <1>6. CASE ~recovered
    <2>1. u = [trend |-> trend, machine |-> m]
      <3> HIDE DEF m, trend
      <3> QED BY <1>1, <1>6
    <2>2. ASSUME m.state = "CONFIRMED", expiresAtSma
          PROVE  StaysBelow(bars, m.confirmed, k)
      <3>1. k >= SmaPeriod => SmaPeriod * bars[k].close < SmaSum(bars, k)
        <4>1. k >= SmaPeriod => ~(SmaPeriod * bars[k].close >= SmaSum(bars, k))
          <5> HIDE DEF m, trend
          <5> QED BY <1>6, <2>2
        <4>2. bars[k].close \in Int /\ SmaPeriod \in Int /\ (k >= SmaPeriod => SmaSum(bars, k) \in Int)
          BY BarNumbers, RegimeNumbers, SmaIsANumber
        <4> DEFINE scaled == SmaPeriod * bars[k].close
        <4>3. scaled \in Int
          BY <4>2
        <4> HIDE DEF scaled, m, trend, recovered
        <4>4. k >= SmaPeriod => scaled < SmaSum(bars, k)
          BY <4>1, <4>2, <4>3 DEF scaled
        <4> QED BY <4>4 DEF scaled
      <3>2. s.machine \in Machines
        BY <1>0 DEF MachineIs
      <3>3. m = s.machine \/ m.confirmed = k
        <4> HIDE DEF corrected
        <4> QED BY <2>2, <3>2, ConfirmationIsKept
      <3> HIDE DEF m
      <3>4. CASE m = s.machine
        <4>1. StaysBelow(bars, m.confirmed, k - 1)
          BY <1>0, <2>2, <3>4
        <4> QED BY <3>1, <4>1 DEF StaysBelow
      <3>5. CASE m.confirmed = k
        BY <3>1, <3>5 DEF StaysBelow
      <3> QED BY <3>3, <3>4, <3>5
    <2> HIDE DEF u, m, trend, recovered
    <2>3. FtdIs(u, bars, k, expiresAtSma)
      BY <1>2, <1>4, <2>1, <2>2, FtdIsMade
    <2> QED BY <2>3 DEF u
  <1> QED BY <1>5, <1>6

FtdStart(bars) ==
    [trend |-> [high |-> bars[1].close, down |-> 0], machine |-> Machine("AWAITING")]

LEMMA FtdStarts ==
    ASSUME NEW bars \in Seq(IndexBars), Len(bars) >= 1, NEW expiresAtSma \in BOOLEAN
    PROVE  FtdIs(FtdStart(bars), bars, 1, expiresAtSma)
  <1>1. bars[1].close \in Int
    BY BarNumbers
  <1>2. MachineIs(Machine("AWAITING"), bars, 1) /\ Machine("AWAITING").state = "AWAITING"
    BY RestingMachine, MachineFields
  <1>3. TrendIs(FtdStart(bars).trend, bars, 1)
    BY <1>1 DEF TrendIs, Trends, FtdStart
  <1> QED BY <1>2, <1>3 DEF FtdIs, FtdStates, FtdStart, TrendIs, MachineIs

(* The whole series: the recursion is well founded on the states that rest *)
(* on the rows so far, and so its last one does.                           *)
LEMMA FtdRests ==
    ASSUME NEW bars \in Seq(IndexBars), Len(bars) >= 2, NEW expiresAtSma \in BOOLEAN
    PROVE  \E s : /\ CalculateFtd(bars, expiresAtSma) = s.machine
                  /\ FtdIs(s, bars, Len(bars), expiresAtSma)
  <1> DEFINE N == Len(bars) - 1
             Stages == {p \in (1..Len(bars)) \X FtdStates : FtdIs(p[2], bars, p[1], expiresAtSma)}
             after == CHOOSE f : f = [n \in 0..N |->
                         IF n = 0 THEN FtdStart(bars)
                         ELSE FtdStep(f[n - 1], bars, n + 1, expiresAtSma)]
             base == <<1, FtdStart(bars)>>
             step == [n \in 1..N |-> [p \in Stages |->
                         IF p[1] = n THEN <<n + 1, FtdStep(p[2], bars, n + 1, expiresAtSma)>> ELSE p]]
  <1>1. N \in Nat /\ N >= 1
    OBVIOUS
  <1>2. base \in Stages
    <2>1. FtdIs(FtdStart(bars), bars, 1, expiresAtSma)
      BY FtdStarts
    <2>2. FtdStart(bars) \in FtdStates
      BY <2>1 DEF FtdIs
    <2> QED BY <2>1, <2>2
  <1>3. StaysIn(Stages, step, N)
    <2>1. ASSUME NEW n \in 1..N, NEW p \in Stages PROVE step[n][p] \in Stages
      <3>1. CASE p[1] = n
        <4>1. FtdIs(p[2], bars, (n + 1) - 1, expiresAtSma) /\ n + 1 \in 2..Len(bars)
          BY <3>1
        <4>2. FtdIs(FtdStep(p[2], bars, n + 1, expiresAtSma), bars, n + 1, expiresAtSma)
          BY <4>1, FtdStepRests
        <4>3. FtdStep(p[2], bars, n + 1, expiresAtSma) \in FtdStates
          BY <4>2 DEF FtdIs
        <4>4. <<n + 1, FtdStep(p[2], bars, n + 1, expiresAtSma)>> \in Stages
          BY <4>1, <4>2, <4>3
        <4>5. step[n][p] = <<n + 1, FtdStep(p[2], bars, n + 1, expiresAtSma)>>
          BY <3>1
        <4> QED BY <4>4, <4>5
      <3>2. CASE p[1] # n
        BY <3>2
      <3> QED BY <3>1, <3>2
    <2> HIDE DEF step, Stages
    <2> QED BY <2>1 DEF StaysIn
  <1>4. PICK f \in [0..N -> Stages] : Iterates(f, base, step, N)
    <2> HIDE DEF base, step, Stages
    <2> QED BY <1>1, <1>2, <1>3, RecursionExists
  <1>5. f[0] = base /\ \A n \in 1..N : f[n] = step[n][f[n - 1]]
    <2> HIDE DEF base, step, Stages
    <2> QED BY <1>4 DEF Iterates
  <1>6. \A n \in 0..N : f[n][1] = n + 1
    <2> DEFINE G == {n \in 0..N : f[n][1] = n + 1}
    <2>1. 0 \in G
      BY <1>1, <1>5
    <2>2. ASSUME NEW n \in 1..N, n - 1 \in G PROVE n \in G
      <3>1. f[n - 1] \in Stages /\ f[n - 1][1] = n
        <4> HIDE DEF Stages
        <4> QED BY <1>1, <1>4, <2>2
      <3>2. f[n] = <<n + 1, FtdStep(f[n - 1][2], bars, n + 1, expiresAtSma)>>
        <4> DEFINE p == f[n - 1]
        <4>1. p \in Stages /\ p[1] = n /\ f[n] = step[n][p]
          <5> HIDE DEF step, Stages
          <5> QED BY <1>5, <3>1
        <4> HIDE DEF p, Stages
        <4>2. f[n] = <<n + 1, FtdStep(p[2], bars, n + 1, expiresAtSma)>>
          BY <4>1
        <4> QED BY <4>2 DEF p
      <3> QED BY <3>2
    <2>3. \A n \in 0..N : n \in G
      <3> HIDE DEF G, N
      <3> QED BY <1>1, <2>1, <2>2, Induction
    <2> QED BY <2>3
  <1> DEFINE g == [n \in 0..N |-> f[n][2]]
  <1>7. g = [n \in 0..N |-> IF n = 0 THEN FtdStart(bars)
                             ELSE FtdStep(g[n - 1], bars, n + 1, expiresAtSma)]
    <2>1. g[0] = FtdStart(bars)
      BY <1>1, <1>5
    <2>2. ASSUME NEW n \in 1..N PROVE g[n] = FtdStep(g[n - 1], bars, n + 1, expiresAtSma)
      <3> DEFINE p == f[n - 1]
      <3>1. p \in Stages /\ p[1] = n /\ f[n] = step[n][p] /\ g[n - 1] = p[2] /\ g[n] = f[n][2]
        <4>1. n - 1 \in 0..N /\ n \in 0..N
          BY <1>1
        <4>2. g[n - 1] = p[2] /\ g[n] = f[n][2]
          BY <4>1
        <4>3. p \in Stages /\ f[n] = step[n][p]
          <5> HIDE DEF step, Stages, N
          <5> QED BY <1>4, <1>5, <4>1
        <4>4. p[1] = (n - 1) + 1
          <5> HIDE DEF step, Stages, N
          <5> QED BY <1>6, <4>1
        <4> QED BY <4>2, <4>3, <4>4
      <3> HIDE DEF p, Stages, g
      <3>2. f[n] = <<n + 1, FtdStep(p[2], bars, n + 1, expiresAtSma)>>
        BY <3>1
      <3> QED BY <3>1, <3>2
    <2> HIDE DEF g
    <2>3. g = [n \in 0..N |-> g[n]]
      BY DEF g
    <2> DEFINE h == [n \in 0..N |-> IF n = 0 THEN FtdStart(bars)
                                    ELSE FtdStep(g[n - 1], bars, n + 1, expiresAtSma)]
    <2>4. \A n \in 0..N : h[n] = g[n]
      <3>1. \A n \in 0..N : n = 0 \/ n \in 1..N
        BY <1>1
      <3> HIDE DEF N
      <3> QED BY <2>1, <2>2, <3>1
    <2>5. h = [n \in 0..N |-> h[n]]
      OBVIOUS
    <2> HIDE DEF h
    <2>6. g = h
      BY <2>3, <2>4, <2>5
    <2> QED BY <2>6 DEF h
  <1>8. after = [n \in 0..N |-> IF n = 0 THEN FtdStart(bars)
                                ELSE FtdStep(after[n - 1], bars, n + 1, expiresAtSma)]
    <2> HIDE DEF g
    <2> QED BY <1>7
  <1>9. \A n \in 0..N : FtdIs(after[n], bars, n + 1, expiresAtSma)
    <2> DEFINE G == {n \in 0..N : FtdIs(after[n], bars, n + 1, expiresAtSma)}
    <2> HIDE DEF after
    <2>1. 0 \in G
      <3>1. after[0] = FtdStart(bars)
        BY <1>1, <1>8
      <3> QED BY <1>1, <3>1, FtdStarts
    <2>2. ASSUME NEW n \in 1..N, n - 1 \in G PROVE n \in G
      <3>1. after[n] = FtdStep(after[n - 1], bars, n + 1, expiresAtSma)
        BY <1>1, <1>8
      <3>2. FtdIs(after[n - 1], bars, (n + 1) - 1, expiresAtSma) /\ n + 1 \in 2..Len(bars)
        BY <2>2
      <3> QED BY <3>1, <3>2, FtdStepRests
    <2>3. \A n \in 0..N : n \in G
      <3> HIDE DEF G, N
      <3> QED BY <1>1, <2>1, <2>2, Induction
    <2> QED BY <2>3
  <1>10. CalculateFtd(bars, expiresAtSma) = after[N].machine
    BY DEF CalculateFtd, FtdStart
  <1>11. FtdIs(after[N], bars, Len(bars), expiresAtSma)
    <2> HIDE DEF after
    <2> QED BY <1>1, <1>9
  <1> HIDE DEF after
  <1> QED BY <1>10, <1>11

(* The rows of an index are bars.                                          *)
LEMMA RowsAreBars ==
    ASSUME NEW which \in Indices, NEW days \in Seq(MarketDays)
    PROVE  BarsOf(which, days) \in Seq(IndexBars)
  <1> DEFINE N == Len(days)
             step == [n \in 1..N |-> [bars \in Seq(IndexBars) |->
                         IF days[n][which] = Unlisted THEN bars
                         ELSE Append(bars, days[n][which])]]
             bars == CHOOSE f : f = [n \in 0..N |->
                        IF n = 0 THEN <<>>
                        ELSE IF days[n][which] = Unlisted THEN f[n - 1]
                        ELSE Append(f[n - 1], days[n][which])]
  <1>1. N \in Nat /\ <<>> \in Seq(IndexBars)
    OBVIOUS
  <1>2. \A n \in 1..N : days[n][which] = Unlisted \/ days[n][which] \in IndexBars
    <2>1. \A n \in 1..N : days[n] \in MarketDays
      OBVIOUS
    <2> QED BY <2>1 DEF MarketDays, Indices
  <1>3. StaysIn(Seq(IndexBars), step, N)
    <2>1. ASSUME NEW n \in 1..N, NEW x \in Seq(IndexBars) PROVE step[n][x] \in Seq(IndexBars)
      BY <1>2
    <2> HIDE DEF step
    <2> QED BY <2>1 DEF StaysIn
  <1>4. PICK f \in [0..N -> Seq(IndexBars)] : Iterates(f, <<>>, step, N)
    <2> HIDE DEF step, N
    <2> QED BY <1>1, <1>3, RecursionExists
  <1>5. \A n \in 0..N : f[n] = IF n = 0 THEN <<>>
                        ELSE IF days[n][which] = Unlisted THEN f[n - 1]
                        ELSE Append(f[n - 1], days[n][which])
    <2>1. f[0] = <<>>
      BY <1>4 DEF Iterates
    <2>2. ASSUME NEW n \in 1..N
          PROVE  f[n] = IF days[n][which] = Unlisted THEN f[n - 1]
                        ELSE Append(f[n - 1], days[n][which])
      <3>1. n - 1 \in 0..N
        BY <1>1
      <3>2. f[n - 1] \in Seq(IndexBars) /\ f[n] = step[n][f[n - 1]]
        <4> HIDE DEF step, N
        <4> QED BY <1>4, <3>1 DEF Iterates
      <3> QED BY <3>2
    <2>3. \A n \in 0..N : n = 0 \/ n \in 1..N
      BY <1>1
    <2> HIDE DEF N
    <2> QED BY <2>1, <2>2, <2>3
  <1>6. bars = [n \in 0..N |-> IF n = 0 THEN <<>>
                        ELSE IF days[n][which] = Unlisted THEN bars[n - 1]
                        ELSE Append(bars[n - 1], days[n][which])]
    <2>1. f = [n \in 0..N |-> IF n = 0 THEN <<>>
                        ELSE IF days[n][which] = Unlisted THEN f[n - 1]
                        ELSE Append(f[n - 1], days[n][which])]
      <3> HIDE DEF N
      <3> QED BY <1>4, <1>5
    <2> QED BY <2>1
  <1>7. \A n \in 0..N : bars[n] \in Seq(IndexBars)
    <2> DEFINE G == {n \in 0..N : bars[n] \in Seq(IndexBars)}
    <2> HIDE DEF bars
    <2>1. 0 \in G
      BY <1>1, <1>6
    <2>2. ASSUME NEW n \in 1..N, n - 1 \in G PROVE n \in G
      <3>1. n \in 0..N /\ n # 0 /\ bars[n - 1] \in Seq(IndexBars)
        BY <1>1, <2>2
      <3>2. bars[n] = IF days[n][which] = Unlisted THEN bars[n - 1]
                      ELSE Append(bars[n - 1], days[n][which])
        <4> HIDE DEF N
        <4> QED BY <1>6, <3>1
      <3> DEFINE x == days[n][which]
                 r == bars[n - 1]
      <3>3. /\ x = Unlisted \/ x \in IndexBars
            /\ r \in Seq(IndexBars)
            /\ bars[n] = IF x = Unlisted THEN r ELSE Append(r, x)
        <4> HIDE DEF bars
        <4> QED BY <1>2, <3>1, <3>2
      <3> HIDE DEF x, r
      <3>4. bars[n] \in Seq(IndexBars)
        BY <3>3
      <3> QED BY <3>1, <3>4
    <2>3. \A n \in 0..N : n \in G
      <3> HIDE DEF G, N
      <3> QED BY <1>1, <2>1, <2>2, Induction
    <2> QED BY <2>3
  <1>8. BarsOf(which, days) = bars[N]
    BY DEF BarsOf
  <1> HIDE DEF bars
  <1> QED BY <1>1, <1>7, <1>8

(* The store holds sessions, and a run reads some of the last of them.     *)
SessionsShape == market \in Seq(MarketDays)

LEMMA MarketStaysSessions == RegimeSpec => []SessionsShape
  <1>1. RegimeInit => SessionsShape
    BY RegimeConstants DEF RegimeInit, SessionsShape
  <1>2. SessionsShape /\ [RegimeNext]_regimeVars => SessionsShape'
    <2> SUFFICES ASSUME SessionsShape, [RegimeNext]_regimeVars PROVE SessionsShape'
      OBVIOUS
    <2>1. CASE RecordSession
      <3>1. PICK s \in Sessions : market' = Append(market, s)
        BY <2>1 DEF RecordSession
      <3>2. s \in MarketDays
        BY RegimeConstants
      <3> QED BY <3>1, <3>2 DEF SessionsShape
    <2>2. CASE UNCHANGED regimeVars
      BY <2>2 DEF SessionsShape, regimeVars
    <2> QED BY <2>1, <2>2 DEF RegimeNext
  <1> QED BY <1>1, <1>2, PTL DEF RegimeSpec

(* A confirmed Follow-Through Day rests on its rally, whatever the         *)
(* history, its length, the averages and the days the rules permit: the    *)
(* machine's state says of every row it was fed what the definition asks,  *)
(* so nothing but a correction, a first day whose low held and a gain in   *)
(* time can have confirmed it, and nothing since has ended it              *)
(* (calculate_ftd, ftd.py:138).                                            *)
THEOREM ConfirmationRestsOnItsRally == RegimeSpec => []FtdRestsOnItsRally
  <1>1. SessionsShape => FtdRestsOnItsRally
    <2> SUFFICES ASSUME SessionsShape, NEW which \in Indices
                 PROVE  LET bars == BarsOf(which, ReadBack(market, Len(market)))
                            ftd == CalculateFtd(bars, which = "spy")
                            first == ftd.confirmed - ftd.day + 1
                        IN  ftd.state = "CONFIRMED" =>
                                /\ ftd.day \in FtdFirstDay..FtdLastDay
                                /\ FollowsThrough(bars, ftd.confirmed)
                                /\ Day1(bars, first)
                                /\ \E c \in 2..(first - 1) : Corrected(bars, c)
                                /\ \A j \in (first + 1)..ftd.confirmed :
                                      bars[j].low >= bars[first].low
                                /\ \A j \in ftd.confirmed..Len(bars) :
                                      /\ j > ftd.confirmed =>
                                            bars[j].close >= bars[ftd.confirmed].low
                                      /\ which = "spy" /\ j >= SmaPeriod =>
                                            SmaPeriod * bars[j].close < SmaSum(bars, j)
      BY DEF FtdRestsOnItsRally
    <2> DEFINE read == ReadBack(market, Len(market))
               bars == BarsOf(which, read)
               ftd == CalculateFtd(bars, which = "spy")
    <2>1. bars \in Seq(IndexBars)
      <3>1. read \in Seq(MarketDays)
        <4> DEFINE from == Max({1, Len(market) - HistoryRows + 1})
        <4>1. from \in Int /\ from >= 1
          <5>1. Len(market) - HistoryRows + 1 \in Int
            BY RegimeNumbers DEF SessionsShape
          <5> QED BY <5>1, MaxOfTwo
        <4>2. read = SubSeq(market, from, Len(market))
          BY DEF ReadBack
        <4> HIDE DEF from, read
        <4> QED BY <4>1, <4>2 DEF SessionsShape
      <3> HIDE DEF read
      <3> QED BY <3>1, RowsAreBars
    <2> HIDE DEF read, bars
    <2> SUFFICES ASSUME ftd.state = "CONFIRMED"
                 PROVE  /\ ConfirmationIs(ftd, bars, Len(bars))
                        /\ which = "spy" => StaysBelow(bars, ftd.confirmed, Len(bars))
      <3> HIDE DEF ftd
      <3> QED BY DEF ConfirmationIs, StaysBelow, StaysConfirmed, RallyHolds, FirstDay, ftd, bars, read
    <2>2. Len(bars) >= 2
      <3>1. CASE Len(bars) < 2
        <4>1. ftd = Machine("UNKNOWN")
          BY <3>1 DEF CalculateFtd
        <4> QED BY <4>1, MachineFields
      <3> QED BY <2>1, <3>1
    <2>3. PICK s : ftd = s.machine /\ FtdIs(s, bars, Len(bars), which = "spy")
      BY <2>1, <2>2, FtdRests
    <2> QED BY <2>3 DEF FtdIs, MachineIs
  <1> QED BY <1>1, MarketStaysSessions, PTL

=============================================================================
