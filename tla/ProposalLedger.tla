--------------------------- MODULE ProposalLedger ---------------------------
(***************************************************************************)
(* The retrospective's cycle: `copilot-retro export` writes a dossier for  *)
(* a date, the skill answers it with narrations and improvement proposals, *)
(* `copilot-retro ingest` verifies the answer and records it: one document *)
(* per new proposal, then the ledger's rows, the report, and the           *)
(* narrations in the database.  These are four stores and no transaction,  *)
(* and the ledger is a file that people edit.                              *)
(*                                                                         *)
(* A proposal is its key and whether it says why it reopens a closed key;  *)
(* those that the evidence and output-policy rules withhold are left out   *)
(* of an answer.  RP numbers are natural numbers; a hand-written row has   *)
(* no key (Unkeyed).                                                       *)
(***************************************************************************)
EXTENDS Naturals, Sequences, FiniteSetsExt, SequencesExt

CONSTANTS
    Keys,               \* proposal keys
    Offers,             \* the proposals an answer may hold
    AsOfs,              \* dates of retrospectives, a set of numbers
    Surprises,          \* what a dossier asks about
    GateWindow,         \* L2_GATE_SESSION_WINDOW
    Overlaps,           \* may anyone else act while an ingest runs
    MaxExports, MaxAnswers, MaxHandRows, MaxNumber, MaxIngestCrashes   \* bounds

Unkeyed == "unkeyed"

ASSUME ProposalConstants ==
    /\ Unkeyed \notin Keys
    /\ Offers \subseteq [key : Keys, justified : BOOLEAN]
    /\ AsOfs \subseteq Nat
    /\ GateWindow \in Nat \ {0}
    /\ Overlaps \in BOOLEAN
    /\ {MaxExports, MaxAnswers, MaxHandRows, MaxNumber, MaxIngestCrashes} \subseteq Nat

VARIABLES
    dossier,        \* dossier[d]: retro_input.json of date d
    answer,         \* answer[d]: retro_result.json of date d
    proposals,      \* the rows of docs/retro/proposals.md, in order
    fullTexts,      \* docs/retro/proposals/RP-NNN-<slug>.md
    sessions,       \* sessions[d]: retro_sessions and its narrations
    ingest,         \* the ingest under way
    effort          \* exports, answers, hand-written rows and crashes so far

proposalVars == <<dossier, answer, proposals, fullTexts, sessions, ingest, effort>>

Proposed == "proposed"
\* Either of rejected and verification_failed.
ClosedStatuses == {"rejected"}
\* settled stands for every other status of the lifecycle (applied, deferred,
\* merged, reverted) and for a hand-written one, which the reader takes as "".
Statuses == ClosedStatuses \cup {Proposed, "settled"}

NoFile == [digest |-> 0]
NoIngest == [stage |-> "none"]

Row == [number : 1..MaxNumber, key : Keys \cup {Unkeyed}, status : Statuses]
FullText == [number : 1..MaxNumber, key : Keys, justified : BOOLEAN]

-----------------------------------------------------------------------------
(* Reading the ledger.                                                     *)

Rows == ToSet(proposals)
ClosedProposalKeys == {r.key : r \in {x \in Rows : x.status \in ClosedStatuses}} \ {Unkeyed}
OpenRows(key) == {r \in Rows : r.key = key /\ r.status \notin ClosedStatuses}

\* A bug: only a row that nobody has decided on yet is the same proposal.
RpIdForUndecidedKey(key) ==
    LET undecided == SelectInSeq(proposals, LAMBDA r : r.key = key /\ r.status = Proposed)
    IN  IF undecided = 0 THEN 0 ELSE proposals[undecided].number

\* The first open row of the key gives its number; 0 when there is none.
RpIdForKey(key) ==
    LET open == SelectInSeq(proposals, LAMBDA r : r \in OpenRows(key))
    IN  IF open = 0 THEN 0 ELSE proposals[open].number

\* A bug: full texts whose rows never landed do not reserve their numbers.
NextNumberOfRows == Max({r.number : r \in Rows} \cup {0}) + 1

NextNumber ==
    Max({r.number : r \in Rows} \cup {d.number : d \in fullTexts} \cup {0}) + 1

Undisturbed == Overlaps \/ ingest = NoIngest

-----------------------------------------------------------------------------
(* Export, and the skill's answer.                                         *)

\* The sessions the L2 gate counts: the last ones at or before the cutoff.
FailureClassSessions(asOf) ==
    LET known == {d \in AsOfs : d <= asOf /\ sessions[d] # NoFile}
    IN  {d \in known : Cardinality({e \in known : e > d}) < GateWindow}

FailureClassHistory(asOf) ==
    [d \in FailureClassSessions(asOf) |-> sessions[d].narrated]

\* The digest covers generated_at: every export has a digest of its own.
Export(d) ==
    /\ Undisturbed
    /\ effort.exports < MaxExports
    /\ effort' = [effort EXCEPT !.exports = @ + 1]
    /\ \E found \in SUBSET Surprises :
          dossier' = [dossier EXCEPT ![d] =
              [digest |-> effort.exports + 1,
               surprises |-> found,
               history |-> FailureClassHistory(d),
               closed |-> {r.number : r \in {x \in Rows : x.status \in ClosedStatuses}}]]
    /\ UNCHANGED <<answer, proposals, fullTexts, sessions, ingest>>

\* The schema refuses a result that repeats a key.
WellFormed(list) == \A i, j \in DOMAIN list : list[i].key = list[j].key => i = j

AnswerDossier(d) ==
    /\ Undisturbed
    /\ dossier[d] # NoFile
    /\ effort.answers < MaxAnswers
    /\ effort' = [effort EXCEPT !.answers = @ + 1]
    /\ \E list \in SeqOf(Offers, Cardinality(Keys)), narrated \in SUBSET Surprises :
          /\ WellFormed(list)
          /\ answer' = [answer EXCEPT ![d] =
                 [digest |-> dossier[d].digest, proposals |-> list, narrated |-> narrated]]
    /\ UNCHANGED <<dossier, proposals, fullTexts, sessions, ingest>>

-----------------------------------------------------------------------------
(* Ingest.                                                                 *)

\* A bug: the guard is not applied.
SurvivesAny(p) == p.key \in Keys

Survives(p) == p.key \in ClosedProposalKeys => p.justified

\* How many of a set of positions come before i, and the set in order.
Rank(i, S) == Cardinality({j \in S : j < i})
InOrder(S) == [k \in 1..Cardinality(S) |-> CHOOSE i \in S : Rank(i, S) = k - 1]

\* The result must answer this very export, or nothing is written at all.  What
\* survives keeps its position in the result.
BeginIngest(d) ==
    /\ ingest = NoIngest
    /\ dossier[d] # NoFile
    /\ answer[d] # NoFile
    /\ answer[d].digest = dossier[d].digest
    /\ ingest' =
          [stage |-> "validated", asOf |-> d, digest |-> dossier[d].digest,
           proposals |-> RestrictDomain(answer[d].proposals,
                                        LAMBDA i : Survives(answer[d].proposals[i])),
           narrated |-> answer[d].narrated \cap dossier[d].surprises]
    /\ UNCHANGED <<dossier, answer, proposals, fullTexts, sessions, effort>>

\* New keys are numbered consecutively, in the order of the result.
Numbered(list) ==
    LET new == {i \in DOMAIN list : RpIdForKey(list[i].key) = 0}
    IN  [i \in DOMAIN list |->
            [number |-> IF i \in new THEN NextNumber + Rank(i, new)
                        ELSE RpIdForKey(list[i].key),
             key |-> list[i].key, justified |-> list[i].justified, isNew |-> i \in new]]

HasFullText(item) ==
    \E d \in fullTexts : d.number = item.number /\ d.key = item.key

Number ==
    /\ ingest.stage = "validated"
    /\ NextNumber + Cardinality(DOMAIN ingest.proposals) <= MaxNumber + 1
    /\ LET recorded == Numbered(ingest.proposals)
       IN  ingest' =
             [stage |-> "documents", asOf |-> ingest.asOf, digest |-> ingest.digest,
              narrated |-> ingest.narrated, recorded |-> recorded,
              todo |-> {i \in DOMAIN recorded :
                           recorded[i].isNew \/ ~HasFullText(recorded[i])}]
    /\ UNCHANGED <<dossier, answer, proposals, fullTexts, sessions, effort>>

WriteFullText ==
    /\ ingest.stage = "documents"
    /\ ingest.todo # {}
    /\ LET item == ingest.recorded[Min(ingest.todo)]
       IN  fullTexts' = {d \in fullTexts : d.number # item.number \/ d.key # item.key}
               \cup {[number |-> item.number, key |-> item.key,
                      justified |-> item.justified]}
    /\ ingest' = [ingest EXCEPT !.todo = @ \ {Min(@)}]
    /\ UNCHANGED <<dossier, answer, proposals, sessions, effort>>

\* The file is read again for the append, so an edit made since is kept.
AppendRows ==
    /\ ingest.stage = "documents"
    /\ ingest.todo = {}
    /\ LET added == InOrder({i \in DOMAIN ingest.recorded : ingest.recorded[i].isNew})
       IN  proposals' = proposals \o
               [k \in DOMAIN added |->
                   [number |-> ingest.recorded[added[k]].number,
                    key |-> ingest.recorded[added[k]].key, status |-> Proposed]]
    /\ ingest' = [ingest EXCEPT !.stage = "report"]
    /\ UNCHANGED <<dossier, answer, fullTexts, sessions, effort>>

\* The report, then one transaction that replaces the date's narrations.
PersistNarrations ==
    /\ ingest.stage = "report"
    /\ sessions' = [sessions EXCEPT ![ingest.asOf] =
           [digest |-> ingest.digest, narrated |-> ingest.narrated,
            proposals |-> Cardinality(DOMAIN ingest.recorded)]]
    /\ ingest' = NoIngest
    /\ UNCHANGED <<dossier, answer, proposals, fullTexts, effort>>

IngestDies ==
    /\ ingest # NoIngest
    /\ effort.crashes < MaxIngestCrashes
    /\ effort' = [effort EXCEPT !.crashes = @ + 1]
    /\ ingest' = NoIngest
    /\ UNCHANGED <<dossier, answer, proposals, fullTexts, sessions>>

-----------------------------------------------------------------------------
(* People: the lifecycle after `proposed`, and rows written by hand.       *)

Decide ==
    /\ Undisturbed
    /\ \E i \in DOMAIN proposals, status \in Statuses \ {Proposed} :
          /\ proposals[i].key # Unkeyed
          /\ proposals[i].status = Proposed
          /\ proposals' = [proposals EXCEPT ![i].status = status]
    /\ UNCHANGED <<dossier, answer, fullTexts, sessions, ingest, effort>>

WriteRowByHand ==
    /\ Undisturbed
    /\ effort.handRows < MaxHandRows
    /\ NextNumber <= MaxNumber
    /\ effort' = [effort EXCEPT !.handRows = @ + 1]
    /\ proposals' = Append(proposals,
           [number |-> NextNumber, key |-> Unkeyed, status |-> "settled"])
    /\ UNCHANGED <<dossier, answer, fullTexts, sessions, ingest>>

-----------------------------------------------------------------------------
ProposalInit ==
    /\ dossier = [d \in AsOfs |-> NoFile]
    /\ answer = [d \in AsOfs |-> NoFile]
    /\ proposals = <<>>
    /\ fullTexts = {}
    /\ sessions = [d \in AsOfs |-> NoFile]
    /\ ingest = NoIngest
    /\ effort = [exports |-> 0, answers |-> 0, handRows |-> 0, crashes |-> 0]

ProposalNext ==
    \/ \E d \in AsOfs : Export(d) \/ AnswerDossier(d) \/ BeginIngest(d)
    \/ Number
    \/ WriteFullText
    \/ AppendRows
    \/ PersistNarrations
    \/ IngestDies
    \/ Decide
    \/ WriteRowByHand

ProposalSpec == ProposalInit /\ [][ProposalNext]_proposalVars

-----------------------------------------------------------------------------
ProposalTypeOK ==
    /\ \A d \in AsOfs : dossier[d].digest \in 0..MaxExports
    /\ \A d \in AsOfs : answer[d].digest \in 0..MaxExports
    /\ proposals \in Seq(Row)
    /\ fullTexts \subseteq FullText
    /\ \A d \in AsOfs : sessions[d].digest \in 0..MaxExports
    /\ ingest.stage \in {"none", "validated", "documents", "report"}

(* An RP number names one proposal for ever, although an ingest may die    *)
(* between a full text and its row: rows have numbers of their own, and    *)
(* every row that ingest wrote has its full text and no other's            *)
(* (_next_number consults the full texts too).                             *)
NumbersNameOneProposal ==
    /\ \A i, j \in DOMAIN proposals : proposals[i].number = proposals[j].number => i = j
    /\ \A r \in Rows :
          {d.key : d \in {t \in fullTexts : t.number = r.number}} = {r.key} \ {Unkeyed}

(* Ingesting again, also after an ingest that died half-way or answered    *)
(* another retrospective, never gives a key a second open row.             *)
OneOpenRowPerKey == \A key \in Keys : Cardinality(OpenRows(key)) <= 1

(* A key that people closed comes back only with its justification, as a   *)
(* row of its own (E32.2), and a row is never dropped or edited by ingest. *)
ReopenedWithReason ==
    [][ Len(proposals') > Len(proposals) =>
          /\ IsPrefix(proposals, proposals')
          /\ \A i \in (Len(proposals) + 1)..Len(proposals') :
                proposals'[i].key \in ClosedProposalKeys =>
                    \E t \in fullTexts :
                        t.number = proposals'[i].number /\ t.justified ]_proposalVars

(* "re-exporting an old retrospective reproduces the number it saw"        *)
(* (get_failure_class_history): unless a session before it changed.        *)
ReexportReproduces ==
    [][ \A d \in AsOfs :
          dossier[d] # NoFile /\ dossier'[d] # dossier[d] =>
              [e \in DOMAIN dossier[d].history |-> e] =
              [e \in DOMAIN dossier'[d].history |-> e] ]_proposalVars
=============================================================================
