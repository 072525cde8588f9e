------------------------------ MODULE MCFetch ------------------------------
(* What the daily run asks of its providers and keeps of the answers, one  *)
(* area at a time: the refresh of fundamentals over days (one symbol,      *)
(* whose filings arrive on any day, with or without facts), the requests   *)
(* of a few calls over seconds, the collection of news and filings, and    *)
(* the excerpts an export takes of a symbol's filings. They share no       *)
(* state; a behaviour follows one of them.                                 *)
EXTENDS Fundamentals, RequestThrottle, TextCollection, FilingSelection, TLC

CONSTANTS acme, feed, earnings, edgar, finnhub, sec

OneSymbol == <<acme>>
Gaps == <<1, 2>>

Accounts == feed :> finnhub @@ earnings :> finnhub @@ edgar :> sec
Spacing == finnhub :> 3 @@ sec :> 1
Backoff == <<1, 2>>
-----------------------------------------------------------------------------
\* TextCollection: an article two symbols' feeds list; notices whose exhibits
\* run out of budget, are empty or fail.
Feeds == {[id |-> "n1", feeds |-> {1, 2}, published |-> 1],
          [id |-> "n2", feeds |-> {2}, published |-> 2]}
Submitted(id, owner, form, day, exhibits) ==
    [id |-> id, owners |-> {owner}, form |-> form, filed |-> day, exhibits |-> exhibits]
Submissions == <<Submitted("f1", 1, "8-K", 1, <<2, 0, 1>>), Submitted("f2", 2, "10-Q", 1, <<>>),
                 Submitted("f3", 2, "8-K", 2, <<1, 2, 1, 1>>)>>
Holdings == {[held |-> {2}, candidates |-> {1}], [held |-> {}, candidates |-> {1, 2}],
             [held |-> {}, candidates |-> {}]}
-----------------------------------------------------------------------------
\* FilingSelection: 8-Ks with and without a release, their passages short or
\* long; 10-Qs with all, some and none of the sections; a 10-K short or long.
Passage(rank, chars) == [rank |-> rank, chars |-> chars]
Section(kind, header, blocks, blanks) ==
    [kind |-> kind, header |-> header, blocks |-> blocks, blanks |-> blanks]
Sections == <<[name |-> "i1", rank |-> 1, quota |-> 5], [name |-> "i2", rank |-> 2, quota |-> 4],
              [name |-> "ii1a", rank |-> 4, quota |-> 2], [name |-> "ii1", rank |-> 3, quota |-> 1]>>
Short == <<Passage(1, 4), Passage(2, 5), Passage(0, 6)>>
Long == <<Passage(2, 9), Passage(0, 3), Passage(1, 4), Passage(0, 8), Passage(2, 3)>>
Cover == Section("primary", 0, <<Passage(1, 6)>>, 0)
Notice(results, parts) == [form |-> "8-K", item202 |-> results, parts |-> parts]
Notices ==
    {Notice(FALSE, <<Cover, Section("ex-99.1", 3, b, 0),
                     Section("ex-99.2", 3, <<Passage(1, 30)>>, 0)>>) : b \in {Short, Long}}
    \cup {Notice(FALSE, <<Cover, Section("ex-10", 3, Short, 2), Section("ex-10", 3, Long, 0)>>),
          Notice(FALSE, <<Section("ex-99.2", 3, Long, 2)>>),
          Notice(TRUE, <<Section("primary", 0, Long, 0)>>),
          Notice(FALSE, <<Section("primary", 0, Short, 0)>>)}
Quarterlies ==
    {[form |-> "10-Q", chars |-> 60, sections |-> s] : s \in
        {[i1 |-> 20, i2 |-> 20, ii1 |-> 3], [i1 |-> 25, i2 |-> 2, ii1 |-> 12, ii1a |-> 8],
         [i1 |-> 9], <<>>}}
FilingTexts == Notices \cup Quarterlies \cup {[form |-> "10-K", chars |-> n] : n \in {3, 50}}
-----------------------------------------------------------------------------
VARIABLE scale
fetchVars == <<scale, vars, throttleVars, textVars, filingVars>>

FetchInit ==
    /\ Init /\ ThrottleInit /\ TextInit /\ FilingInit
    /\ scale \in {"days", "seconds", "texts", "excerpts"}
    /\ scale # "days" => \A s \in Symbols : filings[s] = {}
    /\ scale # "excerpts" => stored = <<>>

FetchNext ==
    /\ scale' = scale
    /\ \/ scale = "days" /\ Next /\ UNCHANGED <<throttleVars, textVars, filingVars>>
       \/ scale = "seconds" /\ ThrottleNext /\ UNCHANGED <<vars, textVars, filingVars>>
       \/ scale = "texts" /\ TextNext /\ UNCHANGED <<vars, throttleVars, filingVars>>
       \/ scale = "excerpts" /\ FilingNext /\ UNCHANGED <<vars, throttleVars, textVars>>

FetchSpec == FetchInit /\ [][FetchNext]_fetchVars
=============================================================================
