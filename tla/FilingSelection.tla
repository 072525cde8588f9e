--------------------------- MODULE FilingSelection ---------------------------
(***************************************************************************)
(* What the analysis is given of a symbol's filings.  The filings share    *)
(* one ceiling and each has one of its own: every filing first reserves a  *)
(* minimum, then the ceiling is spent in priority order.  A filing longer  *)
(* than its budget is cut by its structure: a 10-Q by sections, an 8-K by  *)
(* exhibits and, inside one, by blocks.                                    *)
(*                                                                         *)
(* Texts are lengths.  A 10-Q has sections; an 8-K has parts, each with a  *)
(* header and blocks of a rank (0 table, 1 prose, 2 boilerplate).          *)
(***************************************************************************)
EXTENDS Integers, Sequences, FiniteSetsExt, SequencesExt

CONSTANTS
    Collectable,        \* the filings that may be stored
    MaxFilingsPerSymbol,         \* max_filings_per_symbol
    PerFiling, PerSymbol, MinFilingChars,
    SectionTargets,     \* the priority sections and their quotas, in order
    SectionHeader,      \* length of a section's header
    SectionMarker, PassageMarker, Separator,    \* lengths of what joins text
    ExhibitPriority     \* quota of the primary document and the release

\* config.py: the ceiling covers one filing, and every filing's minimum.
ASSUME FilingLimits ==
    /\ {MaxFilingsPerSymbol, PerFiling, PerSymbol, MinFilingChars, ExhibitPriority}
        \subseteq Nat \ {0}
    /\ {SectionHeader, SectionMarker, PassageMarker, Separator} \subseteq Nat
    /\ PerSymbol >= PerFiling
    /\ PerSymbol >= MaxFilingsPerSymbol * Min({PerFiling, MinFilingChars})

VARIABLES
    stored,      \* the symbol's filings, newest first
    exported        \* the last export: one entry per filing, in that order

filingVars == <<stored, exported>>

Total(lengths) == FoldSeq(+, 0, lengths)

BodyLength(part) ==
    Total([i \in DOMAIN part.blocks |-> part.blocks[i].chars])
        + Separator * (Len(part.blocks) - 1) + part.blanks

FilingLength(filing) ==
    IF filing.form = "8-K"
    THEN Total([i \in DOMAIN filing.parts |->
                    filing.parts[i].header + BodyLength(filing.parts[i])])
    ELSE filing.chars

-----------------------------------------------------------------------------
(* An 8-K: its primary document and exhibits.                              *)

IsRelease(part) == part.kind \in {"ex-99", "ex-99.1"}
IsExhibit99(part) == part.kind \in {"ex-99", "ex-99.1", "ex-99.2"}
Exhibits(parts) == {i \in DOMAIN parts : parts[i].kind # "primary"}

\* The primary document and the press release; with no release among them,
\* the first exhibit.
HasPriority(parts, i) ==
    \/ parts[i].kind = "primary"
    \/ IsRelease(parts[i])
    \/ i = Min(Exhibits(parts)) /\ \A j \in DOMAIN parts : ~IsRelease(parts[j])

Quota(parts, i) == IF HasPriority(parts, i) THEN ExhibitPriority ELSE 1

\* Scaled quotas first; then what is left over, priority parts before others.
AllocateExhibits(parts, budget) ==
    LET quotas == Total([i \in DOMAIN parts |-> Quota(parts, i)])
        scaled == [i \in DOMAIN parts |->
            Min({BodyLength(parts[i]), (budget * Quota(parts, i)) \div quotas})]
        order == SetToSortSeq(DOMAIN parts, LAMBDA i, j :
            \/ Quota(parts, i) > Quota(parts, j)
            \/ Quota(parts, i) = Quota(parts, j) /\ i < j)
        Give(given, i) ==
            [given EXCEPT ![i] = @ + Min({BodyLength(parts[i]) - @,
                                          budget - Total(given)})]
    IN  FoldLeft(Give, scaled, order)

\* A bug: a block out of the middle of a passage left out does not split it.
MarkerDeltaInside(kept, i, count) ==
    IF {i - 1, i + 1} \cap kept = {} THEN 0 ELSE -1

\* How keeping one more block changes the number of passages left out.
MarkerDelta(kept, i, count) ==
    LET left == i > 1 /\ i - 1 \notin kept
        right == i < count /\ i + 1 \notin kept
    IN  IF left /\ right THEN 1 ELSE IF left \/ right THEN 0 ELSE -1

AssembledLength(chars, kept, markers) ==
    chars + markers * PassageMarker + Separator * (kept + markers - 1)

\* Blocks are tried by rank; one that does not fit is passed over.
SelectBlocks(blocks, allocated) ==
    LET order == SetToSortSeq(DOMAIN blocks, LAMBDA i, j :
            \/ blocks[i].rank < blocks[j].rank
            \/ blocks[i].rank = blocks[j].rank /\ i < j)
        Try(state, i) ==
            LET chars == state.chars + blocks[i].chars
                markers == state.markers + MarkerDelta(state.kept, i, Len(blocks))
            IN  IF AssembledLength(chars, Cardinality(state.kept) + 1, markers) <= allocated
                THEN [kept |-> state.kept \cup {i}, chars |-> chars, markers |-> markers]
                ELSE state
    IN  FoldLeft(Try, [kept |-> {}, chars |-> 0, markers |-> 1], order).kept

\* The text of the kept blocks, a marker where a passage is left out.
Assembled(blocks, kept) ==
    LET gaps == {i \in DOMAIN blocks \ kept : i = 1 \/ i - 1 \in kept}
        pieces == Cardinality(kept) + Cardinality(gaps)
    IN  MapThenSumSet(LAMBDA i : blocks[i].chars, kept)
            + Cardinality(gaps) * PassageMarker + Separator * (pieces - 1)

Shaped(text, content, shape) == [text |-> text, content |-> content, shape |-> shape]
Leading(allocated) == Shaped(allocated, allocated, IF allocated = 0 THEN "none" ELSE "head_only")

ShapeExhibit(part, allocated) ==
    LET kept == SelectBlocks(part.blocks, allocated)
    IN  IF allocated >= BodyLength(part)
        THEN Shaped(BodyLength(part), BodyLength(part), "none")
        ELSE IF kept = {} THEN Leading(allocated)
        ELSE Shaped(Assembled(part.blocks, kept),
                    MapThenSumSet(LAMBDA i : part.blocks[i].chars, kept),
                    "value_selected")

Selection(text, budget, mode) == [whole |-> text, text |-> Min({text, budget}), mode |-> mode]
HeadFallback(budget) == Selection(budget, budget, "head_fallback")

SelectExhibits(parts, budget) ==
    LET headers == Total([i \in DOMAIN parts |-> parts[i].header])
        allocated == AllocateExhibits(parts, budget - headers)
        text == headers
            + Total([i \in DOMAIN parts |-> ShapeExhibit(parts[i], allocated[i]).text])
    IN  IF Exhibits(parts) = {} \/ budget <= headers THEN HeadFallback(budget)
        ELSE Selection(text, budget, "section_priority_partial")

-----------------------------------------------------------------------------
(* A 10-Q: its priority sections.                                          *)

Available(sections) == SelectSeq(SectionTargets, LAMBDA t : t.name \in DOMAIN sections)

\* Scaled quotas first; then what is left over, by how many times a section
\* is longer than what it got.
AllocateSections(sections, budget) ==
    LET targets == Available(sections)
        quotas == Total([i \in DOMAIN SectionTargets |-> SectionTargets[i].quota])
        chars(i) == sections[targets[i].name]
        scaled == [i \in DOMAIN targets |->
            Min({chars(i), (budget * targets[i].quota) \div quotas})]
        shortage(i, j) == chars(i) * Max({1, scaled[j]}) - chars(j) * Max({1, scaled[i]})
        order == SetToSortSeq(DOMAIN targets, LAMBDA i, j :
            \/ shortage(i, j) > 0
            \/ shortage(i, j) = 0 /\ targets[i].rank < targets[j].rank)
        Give(given, i) ==
            [given EXCEPT ![i] = @ + Min({chars(i) - @, budget - Total(given)})]
    IN  FoldLeft(Give, scaled, order)

\* Head and tail, three to two, around a marker.
ShapeSection(chars, allocated) ==
    LET kept == allocated - SectionMarker
    IN  IF allocated >= chars THEN Shaped(chars, chars, "none")
        ELSE IF kept <= 0 \/ kept - (kept * 3) \div 5 <= 0 THEN Leading(allocated)
        ELSE Shaped(allocated, kept, "head_and_tail")

SelectSections(sections, budget) ==
    LET targets == Available(sections)
        content == budget - Len(targets) * SectionHeader - Separator * (Len(targets) - 1)
        allocated == AllocateSections(sections, content)
        piece(i) == ShapeSection(sections[targets[i].name], allocated[i])
        shown == {i \in DOMAIN targets : allocated[i] > 0}
        text == MapThenSumSet(LAMBDA i : SectionHeader + piece(i).text, shown)
                    + Separator * (Cardinality(shown) - 1)
    IN  IF targets = <<>> \/ content <= 0 THEN HeadFallback(budget)
        ELSE Selection(text, budget,
                IF Len(targets) = Len(SectionTargets)
                   /\ \A i \in DOMAIN targets : piece(i).content >= sections[targets[i].name]
                THEN "section_priority" ELSE "section_priority_partial")

-----------------------------------------------------------------------------
(* One filing under its budget, and all of them under the ceiling.         *)

SelectText(filing, budget) ==
    IF budget <= 0 THEN Selection(0, 0, "omitted_symbol_budget")
    ELSE IF FilingLength(filing) <= budget
    THEN Selection(FilingLength(filing), budget, "full")
    ELSE CASE filing.form = "8-K" -> SelectExhibits(filing.parts, budget)
           [] filing.form = "10-Q" /\ DOMAIN filing.sections # {} ->
                SelectSections(filing.sections, budget)
           [] OTHER -> HeadFallback(budget)

IsEarnings(filing) ==
    /\ filing.form = "8-K"
    /\ filing.item202 \/ \E i \in DOMAIN filing.parts : IsExhibit99(filing.parts[i])

Tier(filing) ==
    IF IsEarnings(filing) THEN 0 ELSE IF filing.form = "10-Q" THEN 1 ELSE 2

AllocationOrder(filings) ==
    SetToSortSeq(DOMAIN filings, LAMBDA i, j :
        \/ Tier(filings[i]) < Tier(filings[j])
        \/ Tier(filings[i]) = Tier(filings[j]) /\ i < j)

\* A bug: priority alone shares the ceiling out.
ReserveNothing(lengths) == [i \in DOMAIN lengths |-> 0]

\* Each filing's minimum, out of one ceiling, in allocation order.
ReserveMinimum(lengths) ==
    FoldLeft(LAMBDA reserved, length :
                Append(reserved, Min({length, PerFiling, MinFilingChars,
                                      PerSymbol - Total(reserved)})),
             <<>>, lengths)

\* What the filings still waiting hold back is not there to be spent.
SelectFilings(filings) ==
    LET order == AllocationOrder(filings)
        reserved == ReserveMinimum([k \in DOMAIN order |-> FilingLength(filings[order[k]])])
        Serve(served, k) ==
            LET spent == Total([n \in DOMAIN served |-> served[n].text])
                withheld == Total(SubSeq(reserved, k + 1, Len(reserved)))
                budget == Min({PerFiling, PerSymbol - spent - withheld})
                chosen == SelectText(filings[order[k]], budget)
            IN  Append(served, [filing |-> order[k], budget |-> budget, whole |-> chosen.whole,
                                text |-> chosen.text, mode |-> chosen.mode])
        served == FoldLeft(Serve, <<>>, [k \in DOMAIN order |-> k])
    IN  [i \in DOMAIN filings |-> CHOOSE s \in ToSet(served) : s.filing = i]

-----------------------------------------------------------------------------
(* Behaviour.                                                              *)

FilingInit ==
    /\ stored = <<>>
    /\ exported = <<>>

\* A newer filing is stored, only so many are kept, and the day's context is
\* exported from them.
CollectAndExport(filing) ==
    /\ \A i \in DOMAIN stored : stored[i] # filing
    /\ stored' = SubSeq(<<filing>> \o stored, 1, Min({MaxFilingsPerSymbol, Len(stored) + 1}))
    /\ exported' = SelectFilings(stored')

FilingNext == \E filing \in Collectable : CollectAndExport(filing)

FilingSpec == FilingInit /\ [][FilingNext]_filingVars

-----------------------------------------------------------------------------
(* Properties.                                                             *)

\* Both ceilings hold, and no excerpt had to be cut again to its budget: what
\* was counted while the parts were chosen is what their text takes, markers,
\* headers and joints included.  A second cut would drop the end of the last
\* part, which the coverage then reports as exported.
ExcerptsFitTheirBudgets ==
    /\ Total([i \in DOMAIN exported |-> exported[i].text]) <= PerSymbol
    /\ \A i \in DOMAIN exported :
        exported[i].whole <= exported[i].budget /\ exported[i].budget <= PerFiling

\* No order of priority starves a filing: whatever the others are, its budget
\* is at least its own length, a whole filing's ceiling or the minimum, and
\* something of it is exported.
NoFilingIsStarved ==
    \A i \in DOMAIN exported :
        /\ exported[i].budget >=
            Min({FilingLength(stored[i]), PerFiling, MinFilingChars})
        /\ exported[i].text > 0 /\ exported[i].mode # "omitted_symbol_budget"
=============================================================================
