-------------------------- MODULE MCVerdictArchive --------------------------
(* VerdictArchive on a small instance: two directories of one date, the    *)
(* later one broken at first; corrections that flip and drop symbols; bars *)
(* that disappear and move.                                                *)
EXTENDS VerdictArchive, TLC

CONSTANTS acme, other, spy, daily, manual

Document(recommended, cited) ==
    [readable |-> TRUE, present |-> TRUE, recommended |-> recommended, cited |-> cited,
     supplied |-> {<<acme, 1>>, <<other, 1>>}]
Broken == [readable |-> FALSE, present |-> TRUE, recommended |-> NoRows,
           cited |-> {}, supplied |-> {}]

Dates == 1 :> 1 @@ 2 :> 1 @@ 3 :> 2
Started == 1 :> 5 @@ 2 :> 0 @@ 3 :> 6
StartedLater == 1 :> 5 @@ 2 :> 6 @@ 3 :> 7

Corrections ==
    1 :> << Document(acme :> "proceed" @@ other :> "skip", {<<acme, 1>>, <<acme, 2>>}),
            Document(acme :> "skip", {<<acme, 1>>}) >>
    @@ 2 :> << Broken,
               Document(acme :> "proceed" @@ other :> "proceed", {<<other, 1>>}),
               Document(acme :> "skip", {<<acme, 1>>}) >>
    @@ 3 :> << Document(other :> "skip", {}) >>

(* Documents that come back to an earlier text; a later run of a date      *)
(* whose documents break after they were collected; and one with documents *)
(* that give no verdict.                                                   *)
Kept == Document(acme :> "proceed", {})
Reverted == 1 :> << Kept, Document(acme :> "skip", {}), Kept >> @@ 2 :> << Broken >> @@ 3 :> << Broken >>
BreaksLater == 1 :> << Kept >> @@ 2 :> << Document(other :> "skip", {}), Broken >> @@ 3 :> << Broken >>
EmptyLater == 1 :> << Kept >> @@ 2 :> << Document(NoRows, {}) >> @@ 3 :> << Broken >>

Closes == acme :> <<200, 200, 199, 196>> @@ other :> <<200, 201, 199, 204>>
          @@ spy :> <<100, 101, 100, 101>>
Refetches == {<<acme, 2, 0>>, <<spy, 2, 0>>}
=============================================================================
