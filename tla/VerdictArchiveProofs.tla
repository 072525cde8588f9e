------------------------ MODULE VerdictArchiveProofs ------------------------
(***************************************************************************)
(* Theorems about VerdictArchive, for any runs, documents, bars, horizons  *)
(* and processes.                                                          *)
(***************************************************************************)
EXTENDS VerdictArchive, OrderFacts

-----------------------------------------------------------------------------
(* What the tables and a pass hold.                                        *)

Idle == [pc : {"idle"}]
Pass == [pc : {"scan", "load", "write", "evaluate"}, asOf : 1..LastDate, calm : BOOLEAN,
         stored : UNION {[S -> Nat] : S \in SUBSET Runs}, left : SUBSET Runs, hashed : Nat,
         found : UNION {[S -> [digest : Nat, parsed : Nat]] : S \in SUBSET Runs},
         slices : SUBSET (Runs \X Horizons),
         rows : UNION {[S -> Rows] : S \in SUBSET Runs}]

ArchiveShape ==
    /\ today \in 1..LastDate
    /\ revision \in [Runs -> Nat]
    /\ \A r \in Runs : revision[r] <= Len(Content[r])
    /\ verdicts \in [Runs -> Rows]
    /\ sources \in [Runs -> SUBSET (Symbols \X Nat)]
    /\ reasons \in [Runs -> SUBSET Symbols]
    /\ digests \in [Runs -> Nat]
    /\ outcomes = [r \in Runs |-> [h \in Horizons |-> outcomes[r][h]]]
    /\ worker \in [Workers -> Idle \cup Pass]
    /\ \A w \in Workers : worker[w].pc \in {"scan", "load"} => DOMAIN worker[w].stored = Runs

-----------------------------------------------------------------------------
(* Verdicts and outcomes, when processes never overlap.                    *)

OneProcess ==
    \A v, w \in Workers : worker[v].pc # "idle" /\ worker[w].pc # "idle" => v = w

(* The slices still to evaluate belong to rows that are the stored ones.   *)
WindowInv ==
    \A w \in Workers : worker[w].pc = "evaluate" =>
        \A slice \in worker[w].slices :
            /\ slice[1] \in DOMAIN worker[w].rows
            /\ worker[w].rows[slice[1]] = verdicts[slice[1]]

-----------------------------------------------------------------------------
(* Rows and documents.                                                     *)

RowsAre(r, p) ==
    /\ verdicts[r] = Content[r][p].recommended
    /\ sources[r] = ResolvedSources(Content[r][p])
    /\ reasons[r] = DOMAIN verdicts[r]

(* The rows of a stored digest were parsed from a revision that is no      *)
(* older than the bytes the digest was taken of.                           *)
DigestInv ==
    \A r \in Runs : digests[r] # None =>
        \E p \in DOMAIN Content[r] : /\ digests[r] <= p /\ p <= revision[r]
                                     /\ Content[r][p].readable /\ RowsAre(r, p)

(* The same, of what a pass has hashed and parsed and not yet written.     *)
Scanned(pass) ==
    /\ pass.pc = "load" => pass.left # {} /\ pass.hashed <= revision[Min(pass.left)]
    /\ pass.pc \in {"scan", "load", "write"} =>
          \A q \in DOMAIN pass.found : LET p == pass.found[q].parsed IN
              p # None => /\ pass.found[q].digest <= p /\ p <= revision[q]
                          /\ p \in DOMAIN Content[q] /\ Content[q][p].readable
    /\ pass.pc = "write" =>
          \A q \in pass.left : q \in DOMAIN pass.found /\ pass.found[q].parsed # None

ScanInv == \A w \in Workers : Scanned(worker[w])

-----------------------------------------------------------------------------
(* Who represents a date.                                                  *)

Readable(r) == Documents(r).readable
HasRows(r) == DOMAIN verdicts[r] # {}

(* The readable run no later readable run of its date replaces.            *)
Represents(r) ==
    Readable(r) /\ \A q \in Runs :
        Readable(q) /\ DateOf[q] = DateOf[r] /\ q # r => LaterRun(r, q)

(* As long as nothing disturbs a pass, no readable run escapes its scan,   *)
(* and every run that represents its date is written, or has its rows.     *)
Covered(pass) ==
    /\ pass.pc \in {"scan", "load"} => \A q \in Runs : pass.stored[q] # None => HasRows(q)
    /\ pass.pc \in {"scan", "load", "write"} =>
          \A q \in DOMAIN pass.found :
              Readable(q) /\ (pass.found[q].parsed = None => HasRows(q))
    /\ pass.pc \in {"scan", "load"} /\ pass.calm =>
          \A q \in Runs : DateOf[q] <= pass.asOf /\ Readable(q) =>
                              q \in pass.left \cup DOMAIN pass.found
    /\ pass.pc \in {"write", "evaluate"} /\ pass.calm =>
          \A q \in Runs : DateOf[q] <= pass.asOf /\ Represents(q) =>
                              q \in pass.left \/ HasRows(q)
    /\ pass.pc = "evaluate" => pass.left = {}

CoverInv ==
    /\ \A r \in Runs : HasRows(r) => Readable(r)
    /\ \A w \in Workers : Covered(worker[w])

-----------------------------------------------------------------------------
(* Choices among finitely many: the least run, the next slice, the run     *)
(* that represents a date.                                                 *)

LEMMA LeastRun ==
    ASSUME NEW S \in SUBSET Runs, S # {}
    PROVE  Min(S) \in S
  BY ArchiveAssumption, LeastNatural

LEMMA LeastSlice ==
    ASSUME NEW S \in SUBSET (Runs \X Horizons), S # {}
    PROVE  NextSlice(S) \in S
  <1> DEFINE Before(a, b) == a[1] < b[1] \/ (a[1] = b[1] /\ a[2] < b[2])
             R == {p \in S \X S : Before(p[1], p[2])}
  <1>1. /\ \A a \in S : a[1] \in Nat /\ a[2] \in Nat
        /\ \A a, b \in S : a[1] = b[1] /\ a[2] = b[2] => a = b
    <2>1. \A a \in S : a[1] \in Nat /\ a[2] \in Nat /\ a = <<a[1], a[2]>>
      <3>1. \A a \in Runs \X Horizons :
                a[1] \in Runs /\ a[2] \in Horizons /\ a = <<a[1], a[2]>>
        OBVIOUS
      <3> QED BY <3>1, ArchiveAssumption
    <2> QED BY <2>1
  <1>2. IsFiniteSet(S)
    BY ArchiveAssumption, FS_Product, FS_Subset
  <1>3. \E a \in S : \A b \in S : <<b, a>> \notin R
    <2>1. /\ \A a, b, c \in S : <<a, b>> \in R /\ <<b, c>> \in R => <<a, c>> \in R
          /\ \A a \in S : <<a, a>> \notin R
      BY <1>1
    <2> HIDE DEF R
    <2> QED BY <1>2, <2>1, FiniteOrderHasMinimum
  <1>4. PICK a \in S : \A b \in S : ~Before(b, a)
    BY <1>3
  <1>5. \A b \in S : a[1] < b[1] \/ (a[1] = b[1] /\ a[2] <= b[2])
    BY <1>1, <1>4
  <1> QED BY <1>5 DEF NextSlice

LEMMA LatestRun ==
    ASSUME NEW S \in SUBSET Runs, S # {}
    PROVE  \E r \in S : \A q \in S : q # r => LaterRun(r, q)
  <1> DEFINE R == {p \in S \X S : LaterRun(p[1], p[2])}
  <1>1. \A r \in S : r \in Nat /\ StartedAt[r] \in Nat
    BY ArchiveAssumption
  <1>2. IsFiniteSet(S)
    BY ArchiveAssumption, FS_Subset
  <1>3. \E r \in S : \A q \in S : <<q, r>> \notin R
    <2>1. /\ \A a, b, c \in S : <<a, b>> \in R /\ <<b, c>> \in R => <<a, c>> \in R
          /\ \A a \in S : <<a, a>> \notin R
      BY <1>1 DEF LaterRun
    <2> HIDE DEF R
    <2> QED BY <1>2, <2>1, FiniteOrderHasMinimum
  <1>4. PICK r \in S : \A q \in S : ~LaterRun(q, r)
    BY <1>3
  <1> QED BY <1>1, <1>4 DEF LaterRun

-----------------------------------------------------------------------------
(* Documents and their digests.                                            *)

LEMMA DocumentTypes ==
    ASSUME NEW r \in Runs
    PROVE  /\ \A k \in DOMAIN Content[r] : Content[r][k] \in DocumentPair
           /\ \A k \in Nat : k <= Len(Content[r]) /\ k # 0 <=> k \in DOMAIN Content[r]
           /\ \A document \in DocumentPair :
                 /\ document.recommended \in Rows
                 /\ DOMAIN document.recommended \subseteq Symbols
                 /\ ResolvedSources(document) \subseteq Symbols \X Nat
  <1>1. Content[r] \in Seq(DocumentPair)
    BY DocumentAssumption
  <1>2. \A document \in DocumentPair :
           /\ document.recommended \in Rows
           /\ ResolvedSources(document) \subseteq Symbols \X Nat
    BY DEF DocumentPair, ResolvedSources
  <1>3. \A rows \in Rows : DOMAIN rows \subseteq Symbols
    BY DEF Rows
  <1> QED BY <1>1, <1>2, <1>3

(* The digest of the documents is that of the first revision with their    *)
(* text, and so of one that is no later than theirs.                       *)
LEMMA DigestOfDocuments ==
    ASSUME ArchiveShape, NEW r \in Runs
    PROVE  /\ DocumentDigest(r) \in Nat /\ DocumentDigest(r) <= revision[r]
           /\ DocumentDigest(r) # None =>
                 /\ DocumentDigest(r) \in DOMAIN Content[r]
                 /\ revision[r] \in DOMAIN Content[r]
                 /\ Content[r][DocumentDigest(r)] = Content[r][revision[r]]
                 /\ Documents(r) = Content[r][revision[r]]
  <1>1. CASE ~Documents(r).present
    BY <1>1 DEF DocumentDigest, None, ArchiveShape
  <1>2. CASE Documents(r).present
    <2>1. revision[r] # 0 /\ Documents(r) = Content[r][revision[r]]
      BY <1>2 DEF Documents, Absent
    <2>2. revision[r] \in DOMAIN Content[r]
      BY <2>1, DocumentTypes DEF ArchiveShape
    <2> DEFINE S == {k \in DOMAIN Content[r] : Content[r][k] = Documents(r)}
    <2>3. S \subseteq Nat \ {0} /\ revision[r] \in S
      <3>1. DOMAIN Content[r] \subseteq Nat \ {0}
        BY DocumentAssumption
      <3> QED BY <2>1, <2>2, <3>1
    <2>4. Min(S) \in S /\ Min(S) <= revision[r]
      <3> HIDE DEF S
      <3> QED BY <2>3, LeastNatural
    <2> QED BY <1>2, <2>1, <2>2, <2>3, <2>4 DEF DocumentDigest
  <1> QED BY <1>1, <1>2

-----------------------------------------------------------------------------
(* Every step keeps the shape.                                             *)

(* What a change around a pass does to it: it is no longer calm.           *)
SamePass(v, pass) ==
    /\ pass.pc = worker[v].pc /\ pass.asOf = worker[v].asOf
    /\ pass.stored = worker[v].stored /\ pass.left = worker[v].left
    /\ pass.hashed = worker[v].hashed /\ pass.found = worker[v].found
    /\ pass.slices = worker[v].slices /\ pass.rows = worker[v].rows

LEMMA UnreadPass ==
    ASSUME ArchiveShape
    PROVE  /\ Unread \in [Workers -> Idle \cup Pass]
           /\ \A v \in Workers :
                 IF worker[v].pc = "idle" THEN Unread[v] = worker[v]
                 ELSE /\ worker[v] \in Pass /\ Unread[v] \in Pass
                      /\ Unread[v] = [worker[v] EXCEPT !.calm = FALSE]
           /\ \A v \in Workers :
                 /\ Unread[v].pc = worker[v].pc
                 /\ worker[v].pc # "idle" => ~Unread[v].calm /\ SamePass(v, Unread[v])
  <1>1. ASSUME NEW v \in Workers, worker[v].pc # "idle"
        PROVE  /\ worker[v] \in Pass /\ [worker[v] EXCEPT !.calm = FALSE] \in Pass
    <2>1. worker[v] \in Pass
      BY <1>1 DEF ArchiveShape, Idle
    <2> QED BY <2>1 DEF Pass
  <1>2. /\ Unread \in [Workers -> Idle \cup Pass]
        /\ \A v \in Workers :
              IF worker[v].pc = "idle" THEN Unread[v] = worker[v]
              ELSE /\ worker[v] \in Pass /\ Unread[v] \in Pass
                   /\ Unread[v] = [worker[v] EXCEPT !.calm = FALSE]
    BY <1>1 DEF ArchiveShape, Unread
  <1>3. ASSUME NEW v \in Workers
        PROVE  /\ Unread[v].pc = worker[v].pc
               /\ worker[v].pc # "idle" => ~Unread[v].calm /\ SamePass(v, Unread[v])
    BY <1>2 DEF Pass, SamePass
  <1> QED BY <1>2, <1>3

(* A step of one process: it goes on to some pass, the others are left     *)
(* alone or notice a change of the tables.                                 *)
Moves(w, pass) ==
    \/ worker' = [worker EXCEPT ![w] = pass]
    \/ worker' = [Unread EXCEPT ![w] = pass]

LEMMA MovesShape ==
    ASSUME ArchiveShape, NEW w \in Workers, NEW pass \in Idle \cup Pass, Moves(w, pass),
           pass.pc \in {"scan", "load"} => DOMAIN pass.stored = Runs
    PROVE  /\ worker' \in [Workers -> Idle \cup Pass]
           /\ \A v \in Workers : worker'[v].pc \in {"scan", "load"} =>
                                     DOMAIN worker'[v].stored = Runs
           /\ worker'[w] = pass
           /\ \A v \in Workers \ {w} : worker'[v] \in {worker[v], Unread[v]}
  <1>1. /\ worker' \in [Workers -> Idle \cup Pass]
        /\ worker'[w] = pass
        /\ \A v \in Workers \ {w} : worker'[v] \in {worker[v], Unread[v]}
    BY UnreadPass DEF Moves, ArchiveShape
  <1>2. ASSUME NEW v \in Workers
        PROVE  /\ Unread[v].pc = worker[v].pc
               /\ worker[v].pc \in {"scan", "load"} => Unread[v].stored = worker[v].stored
    BY UnreadPass DEF SamePass
  <1> QED BY <1>1, <1>2 DEF ArchiveShape

(* The tables a step leaves alone, and those a transaction replaces.       *)
LEMMA EmptyRows == NoRows \in Rows /\ DOMAIN NoRows = {}
  <1>1. NoRows \in [{} -> Recommendations]
    BY DEF NoRows
  <1> QED BY <1>1 DEF Rows, NoRows

LEMMA NoRowsIsEmpty ==
    ASSUME NEW T
    PROVE  NoRows \in UNION {[S -> T] : S \in SUBSET Runs}
  <1>1. NoRows \in [{} -> T]
    BY DEF NoRows
  <1> QED BY <1>1

LEMMA CandidateShape ==
    ASSUME ArchiveShape, NEW w \in Workers, worker[w] \in Pass,
           NEW r \in Runs, NEW digest \in Nat, NEW parsed \in Nat
    PROVE  /\ Candidate(w, r, digest, parsed) \in Pass
           /\ Candidate(w, r, digest, parsed).pc = "scan"
           /\ Candidate(w, r, digest, parsed).stored = worker[w].stored
           /\ Candidate(w, r, digest, parsed).calm = worker[w].calm
           /\ Candidate(w, r, digest, parsed).asOf = worker[w].asOf
           /\ Candidate(w, r, digest, parsed).left = worker[w].left \ {r}
           /\ DOMAIN Candidate(w, r, digest, parsed).found = DOMAIN worker[w].found \cup {r}
           /\ Candidate(w, r, digest, parsed).found[r].digest = digest
           /\ Candidate(w, r, digest, parsed).found[r].parsed = parsed
           /\ \A q \in DOMAIN worker[w].found \ {r} :
                 Candidate(w, r, digest, parsed).found[q] = worker[w].found[q]
  <1> DEFINE C == [digest : Nat, parsed : Nat]
             found == [q \in DOMAIN worker[w].found \cup {r} |->
                     IF q = r THEN [digest |-> digest, parsed |-> parsed]
                              ELSE worker[w].found[q]]
  <1>1. found \in UNION {[S -> C] : S \in SUBSET Runs}
    <2>1. PICK S \in SUBSET Runs : worker[w].found \in [S -> C]
      BY DEF Pass
    <2>2. found \in [S \cup {r} -> C] /\ S \cup {r} \in SUBSET Runs
      BY <2>1
    <2> QED BY <2>2
  <1>2. Candidate(w, r, digest, parsed) =
           [worker[w] EXCEPT !.pc = "scan", !.left = @ \ {r}, !.hashed = None, !.found = found]
    BY DEF Candidate
  <1> HIDE DEF found, C
  <1>3. None \in Nat /\ worker[w].left \ {r} \in SUBSET Runs
    BY DEF None, Pass
  <1>4. found \in UNION {[S -> [digest : Nat, parsed : Nat]] : S \in SUBSET Runs}
    BY <1>1 DEF C
  <1>5. Candidate(w, r, digest, parsed) \in Pass
    BY <1>2, <1>3, <1>4 DEF Pass
  <1>6. /\ Candidate(w, r, digest, parsed).pc = "scan"
        /\ Candidate(w, r, digest, parsed).stored = worker[w].stored
        /\ Candidate(w, r, digest, parsed).calm = worker[w].calm
        /\ Candidate(w, r, digest, parsed).asOf = worker[w].asOf
        /\ Candidate(w, r, digest, parsed).left = worker[w].left \ {r}
        /\ Candidate(w, r, digest, parsed).found = found
    BY <1>2 DEF Pass
  <1> QED BY <1>5, <1>6 DEF found

(* What a run whose sources are unchanged adds to it: no parsed document.  *)
LEMMA UnparsedShape ==
    ASSUME ArchiveShape, NEW w \in Workers, worker[w] \in Pass,
           NEW r \in Runs, NEW digest \in Nat
    PROVE  /\ Candidate(w, r, digest, None) \in Pass
           /\ Candidate(w, r, digest, None).stored = worker[w].stored
  BY CandidateShape DEF None

(* The pass a step of a process leads to.                                  *)
LEMMA RowsDomain == \A rows \in Rows : DOMAIN rows \subseteq Symbols
  BY DEF Rows

LEMMA BeginMoves ==
    ASSUME ArchiveShape, NEW w \in Workers, Begin(w)
    PROVE  \E pass \in Pass :
              /\ worker' = [worker EXCEPT ![w] = pass] /\ Moves(w, pass)
              /\ pass.pc = "scan" /\ pass.asOf = today /\ pass.stored = digests
              /\ pass.left = {r \in Runs : DateOf[r] <= today} /\ pass.found = NoRows
              /\ UNCHANGED <<today, revision, verdicts, sources, digests, outcomes>>
              /\ reasons' = [r \in Runs |-> reasons[r] \cup DOMAIN verdicts[r]]
              /\ worker[w].pc = "idle"
              /\ Exclusive => \A v \in Workers : worker[v].pc = "idle"
  <1> DEFINE pass == [pc |-> "scan", asOf |-> today, calm |-> TRUE, stored |-> digests,
                      left |-> {r \in Runs : DateOf[r] <= today}, hashed |-> None,
                      found |-> NoRows, slices |-> {}, rows |-> NoRows]
  <1>1. worker' = [worker EXCEPT ![w] = pass]
    BY DEF Begin
  <1>2. digests \in UNION {[S -> Nat] : S \in SUBSET Runs}
    BY DEF ArchiveShape
  <1>3. pass \in Pass
    <2>1. /\ NoRows \in UNION {[S -> [digest : Nat, parsed : Nat]] : S \in SUBSET Runs}
          /\ NoRows \in UNION {[S -> Rows] : S \in SUBSET Runs}
      BY NoRowsIsEmpty
    <2>2. /\ {r \in Runs : DateOf[r] <= today} \in SUBSET Runs
          /\ None \in Nat /\ today \in 1..LastDate
      BY DEF ArchiveShape, None
    <2> QED BY <1>2, <2>1, <2>2 DEF Pass
  <1> QED BY <1>1, <1>3 DEF Begin, Moves

LEMMA FingerprintMoves ==
    ASSUME ArchiveShape, NEW w \in Workers, Fingerprint(w)
    PROVE  /\ worker[w] \in Pass /\ worker[w].pc = "scan" /\ worker[w].left # {}
           /\ Min(worker[w].left) \in worker[w].left
           /\ UNCHANGED <<today, revision, closes, tables>>
           /\ LET r == Min(worker[w].left)  digest == DocumentDigest(r) IN
              \/ /\ digest # None /\ worker[w].stored[r] = digest
                 /\ worker' = [worker EXCEPT ![w] = Candidate(w, r, digest, None)]
              \/ /\ worker' = [worker EXCEPT ![w] =
                                  [worker[w] EXCEPT !.pc = "load", !.hashed = digest]]
                 /\ [worker[w] EXCEPT !.pc = "load", !.hashed = digest] \in Pass
  <1>1. worker[w] \in Pass
    BY DEF ArchiveShape, Fingerprint, Idle
  <1>2. Min(worker[w].left) \in worker[w].left
    BY <1>1, LeastRun DEF Fingerprint, Pass
  <1>3. DocumentDigest(Min(worker[w].left)) \in Nat
    BY <1>1, <1>2, DigestOfDocuments DEF Pass
  <1>4. [worker[w] EXCEPT !.pc = "load", !.hashed = DocumentDigest(Min(worker[w].left))] \in Pass
    BY <1>1, <1>3 DEF Pass
  <1> QED BY <1>1, <1>2, <1>4 DEF Fingerprint, Advance

LEMMA LoadMoves ==
    ASSUME ArchiveShape, ScanInv, NEW w \in Workers, Load(w)
    PROVE  /\ worker[w] \in Pass /\ worker[w].pc = "load"
           /\ Min(worker[w].left) \in worker[w].left
           /\ worker[w].hashed <= revision[Min(worker[w].left)]
           /\ UNCHANGED <<today, revision, closes, tables>>
           /\ LET r == Min(worker[w].left)
                  skip == [worker[w] EXCEPT !.pc = "scan", !.left = @ \ {r}, !.hashed = None] IN
              \/ /\ Readable(r)
                 /\ worker' = [worker EXCEPT ![w] = Candidate(w, r, worker[w].hashed, revision[r])]
              \/ /\ ~Readable(r)
                 /\ worker' = [worker EXCEPT ![w] = skip]
                 /\ skip \in Pass
  <1>1. worker[w] \in Pass
    BY DEF ArchiveShape, Load, Idle
  <1>2. worker[w].left # {} /\ worker[w].hashed <= revision[Min(worker[w].left)]
    BY DEF ScanInv, Scanned, Load
  <1>3. Min(worker[w].left) \in worker[w].left
    BY <1>1, <1>2, LeastRun DEF Pass
  <1>4. [worker[w] EXCEPT !.pc = "scan", !.left = @ \ {Min(worker[w].left)}, !.hashed = None] \in Pass
    BY <1>1 DEF Pass, None
  <1> QED BY <1>1, <1>2, <1>3, <1>4 DEF Load, Advance, Readable

LEMMA AdoptMoves ==
    ASSUME ArchiveShape, NEW w \in Workers, Adopt(w)
    PROVE  \E pass \in Pass :
              /\ worker[w] \in Pass /\ worker[w].pc = "scan" /\ worker[w].left = {}
              /\ worker' = [worker EXCEPT ![w] = pass]
              /\ pass = [worker[w] EXCEPT !.pc = "write", !.stored = NoRows, !.left = pass.left]
              /\ pass.pc = "write" /\ pass.asOf = worker[w].asOf /\ pass.calm = worker[w].calm
              /\ pass.found = worker[w].found /\ pass.slices = worker[w].slices
              /\ pass.left = {r \in Adopted(worker[w].found) : worker[w].found[r].parsed # None}
              /\ \A r \in Adopted(worker[w].found) : r \in DOMAIN worker[w].found /\ r \in Runs
              /\ UNCHANGED <<today, revision, closes, tables>>
  <1> DEFINE left == {r \in Adopted(worker[w].found) : worker[w].found[r].parsed # None}
             pass == [worker[w] EXCEPT !.pc = "write", !.stored = NoRows, !.left = left]
  <1>1. worker[w] \in Pass
    BY DEF ArchiveShape, Adopt, Idle
  <1>2. DOMAIN worker[w].found \subseteq Runs
    BY <1>1 DEF Pass
  <1>3. \A r \in Adopted(worker[w].found) : r \in DOMAIN worker[w].found
    BY DEF Adopted, AdoptOneRunPerDate
  <1>4. left \in SUBSET Runs
    BY <1>2, <1>3
  <1>5. NoRows \in UNION {[S -> Nat] : S \in SUBSET Runs}
    BY NoRowsIsEmpty
  <1>6. /\ pass \in Pass /\ pass.left = left
        /\ pass.pc = "write" /\ pass.asOf = worker[w].asOf /\ pass.calm = worker[w].calm
        /\ pass.found = worker[w].found /\ pass.slices = worker[w].slices
    <2> HIDE DEF left
    <2> QED BY <1>1, <1>4, <1>5 DEF Pass
  <1>7. worker' = [worker EXCEPT ![w] = pass]
    BY DEF Adopt, Advance
  <1>8. pass = [worker[w] EXCEPT !.pc = "write", !.stored = NoRows, !.left = pass.left]
    BY <1>6
  <1>9. /\ worker[w].pc = "scan" /\ worker[w].left = {}
        /\ UNCHANGED <<today, revision, closes, tables>>
    BY DEF Adopt
  <1> HIDE DEF pass
  <1> QED BY <1>1, <1>2, <1>3, <1>6, <1>7, <1>8, <1>9

LEMMA WriteRunMoves ==
    ASSUME ArchiveShape, ScanInv, NEW w \in Workers, WriteRun(w)
    PROVE  \E pass \in Pass, r \in Runs, p \in Nat, digest \in Nat :
              /\ worker[w] \in Pass /\ worker[w].pc = "write"
              /\ worker' = [Unread EXCEPT ![w] = pass]
              /\ pass = [worker[w] EXCEPT !.left = @ \ {r}]
              /\ pass.pc = "write" /\ pass.left = worker[w].left \ {r}
              /\ pass.found = worker[w].found /\ pass.asOf = worker[w].asOf
              /\ pass.calm = worker[w].calm
              /\ r \in worker[w].left
              /\ p \in DOMAIN Content[r] /\ Content[r][p].readable
              /\ digest <= p /\ p <= revision[r]
              /\ ReplaceCollectedRun(r, Content[r][p], digest)
              /\ UNCHANGED <<today, revision, closes>>
  <1> DEFINE r == Min(worker[w].left)
             pass == [worker[w] EXCEPT !.left = @ \ {r}]
             p == worker[w].found[r].parsed
             digest == worker[w].found[r].digest
  <1>1. worker[w] \in Pass
    BY DEF ArchiveShape, WriteRun, Idle
  <1>2. r \in worker[w].left /\ r \in Runs
    BY <1>1, LeastRun DEF WriteRun, Pass
  <1>3. /\ r \in DOMAIN worker[w].found /\ p # None
        /\ digest <= p /\ p <= revision[r] /\ p \in DOMAIN Content[r] /\ Content[r][p].readable
    BY <1>2 DEF ScanInv, Scanned, WriteRun
  <1>4. p \in Nat /\ digest \in Nat
    <2>1. worker[w].found[r] \in [digest : Nat, parsed : Nat]
      BY <1>1, <1>3 DEF Pass
    <2> QED BY <2>1
  <1>5. /\ pass \in Pass /\ pass.pc = worker[w].pc /\ pass.left = worker[w].left \ {r}
        /\ pass.found = worker[w].found /\ pass.asOf = worker[w].asOf
        /\ pass.calm = worker[w].calm
    <2> HIDE DEF r
    <2> QED BY <1>1 DEF Pass
  <1>6. /\ worker[w].pc = "write" /\ worker' = [Unread EXCEPT ![w] = pass]
        /\ ReplaceCollectedRun(r, Content[r][p], digest)
        /\ UNCHANGED <<today, revision, closes>>
    BY DEF WriteRun
  <1> HIDE DEF pass, r, p, digest
  <1>7. pass = [worker[w] EXCEPT !.left = @ \ {r}]
    BY DEF pass
  <1> QED BY <1>1, <1>2, <1>3, <1>4, <1>5, <1>6, <1>7

LEMMA OpenWindowMoves ==
    ASSUME ArchiveShape, NEW w \in Workers, OpenWindow(w)
    PROVE  \E pass \in Pass :
              /\ worker[w] \in Pass /\ worker[w].pc = "write" /\ worker[w].left = {}
              /\ worker' = [worker EXCEPT ![w] = pass]
              /\ pass.pc = "evaluate" /\ pass.left = {} /\ pass.asOf = worker[w].asOf
              /\ pass.calm = worker[w].calm
              /\ \A slice \in pass.slices :
                    /\ slice[1] \in DOMAIN pass.rows
                    /\ pass.rows[slice[1]] = verdicts[slice[1]]
              /\ UNCHANGED <<today, revision, closes, tables>>
  <1> DEFINE runs == AdoptedVerdictRuns(worker[w].asOf - EvaluationDays, worker[w].asOf)
             rows == [r \in runs |-> verdicts[r]]
             slices == {slice \in runs \X Horizons : ~(w \in PendingOnly /\ IsRecorded(slice))}
             pass == [worker[w] EXCEPT !.pc = "evaluate", !.found = NoRows,
                                       !.rows = rows, !.slices = slices]
  <1>1. worker[w] \in Pass
    BY DEF ArchiveShape, OpenWindow, Idle
  <1>2. runs \subseteq Runs
    <2>1. \A row \in VerdictRowsIn(worker[w].asOf - EvaluationDays, worker[w].asOf) : row.run \in Runs
      BY DEF VerdictRowsIn
    <2>2. KeepAdoptedRows(VerdictRowsIn(worker[w].asOf - EvaluationDays, worker[w].asOf))
             \subseteq VerdictRowsIn(worker[w].asOf - EvaluationDays, worker[w].asOf)
      BY DEF KeepAdoptedRows
    <2> QED BY <2>1, <2>2 DEF AdoptedVerdictRuns
  <1> HIDE DEF runs
  <1>3. /\ rows \in UNION {[S -> Rows] : S \in SUBSET Runs}
        /\ slices \in SUBSET (Runs \X Horizons)
        /\ \A slice \in slices : slice[1] \in DOMAIN rows /\ rows[slice[1]] = verdicts[slice[1]]
    <2>1. rows \in [runs -> Rows]
      BY <1>2 DEF ArchiveShape
    <2> QED BY <1>2, <2>1
  <1>4. NoRows \in UNION {[S -> [digest : Nat, parsed : Nat]] : S \in SUBSET Runs}
    BY NoRowsIsEmpty
  <1>5. /\ pass \in Pass /\ pass.pc = "evaluate" /\ pass.left = worker[w].left
        /\ pass.asOf = worker[w].asOf /\ pass.calm = worker[w].calm
        /\ pass.slices = slices /\ pass.rows = rows
    <2> HIDE DEF rows, slices
    <2> QED BY <1>1, <1>3, <1>4 DEF Pass
  <1>6. /\ worker[w].pc = "write" /\ worker[w].left = {}
        /\ worker' = [worker EXCEPT ![w] = pass]
        /\ UNCHANGED <<today, revision, closes, tables>>
    BY DEF OpenWindow, Advance, runs
  <1> HIDE DEF pass, rows, slices
  <1> QED BY <1>1, <1>3, <1>5, <1>6

(* A slice is replaced by rows of its run's verdicts, as the pass read them. *)
SliceStep(w, slice) ==
    \/ UNCHANGED outcomes
    \/ \E rows : /\ DOMAIN rows \subseteq DOMAIN worker[w].rows[slice[1]]
                /\ ReplaceVerdictOutcomes(slice[1], slice[2], rows)

LEMMA EvaluateSliceMoves ==
    ASSUME ArchiveShape, NEW w \in Workers, EvaluateSlice(w)
    PROVE  \E pass \in Pass, slice \in Runs \X Horizons :
              /\ worker[w] \in Pass /\ worker[w].pc = "evaluate"
              /\ slice \in worker[w].slices
              /\ worker' = [Unread EXCEPT ![w] = pass]
              /\ pass.pc = "evaluate" /\ pass.slices = worker[w].slices \ {slice}
              /\ pass.rows = worker[w].rows /\ pass.asOf = worker[w].asOf
              /\ pass.calm = worker[w].calm /\ pass.left = worker[w].left
              /\ UNCHANGED <<today, revision, closes, verdicts, sources, reasons, digests>>
              /\ SliceStep(w, slice)
  <1> DEFINE slice == NextSlice(worker[w].slices)
             pass == [worker[w] EXCEPT !.slices = @ \ {slice}]
  <1>1. worker[w] \in Pass
    BY DEF ArchiveShape, EvaluateSlice, Idle
  <1>2. slice \in worker[w].slices /\ slice \in Runs \X Horizons
    BY <1>1, LeastSlice DEF EvaluateSlice, Pass
  <1>3. /\ pass \in Pass /\ pass.pc = worker[w].pc
        /\ pass.slices = worker[w].slices \ {slice}
        /\ pass.rows = worker[w].rows /\ pass.asOf = worker[w].asOf
        /\ pass.calm = worker[w].calm /\ pass.left = worker[w].left
    <2> HIDE DEF slice
    <2> QED BY <1>1 DEF Pass
  <1>4. SliceStep(w, slice)
    <2> DEFINE rows(maturity) == EvaluatedSlice(worker[w].rows[slice[1]], DateOf[slice[1]],
                                                outcomes[slice[1]][slice[2]], maturity)
    <2>1. \/ UNCHANGED outcomes
          \/ \E m : ReplaceVerdictOutcomes(slice[1], slice[2], rows(m))
      BY DEF EvaluateSlice
    <2>2. \A m : DOMAIN rows(m) \subseteq DOMAIN worker[w].rows[slice[1]]
      BY DEF EvaluatedSlice
    <2> HIDE DEF rows, slice
    <2> QED BY <2>1, <2>2 DEF SliceStep
  <1>5. /\ worker[w].pc = "evaluate" /\ worker' = [Unread EXCEPT ![w] = pass]
        /\ UNCHANGED <<today, revision, closes, verdicts, sources, reasons, digests>>
    BY DEF EvaluateSlice
  <1> HIDE DEF slice, pass
  <1>6. pass \in Pass /\ slice \in Runs \X Horizons /\ pass.pc = "evaluate"
    BY <1>2, <1>3, <1>5
  <1> USE <1>6
  <1> WITNESS pass \in Pass, slice \in Runs \X Horizons
  <1> QED BY <1>1, <1>2, <1>3, <1>4, <1>5, <1>6

LEMMA EndMoves ==
    ASSUME ArchiveShape, NEW w \in Workers, Finish(w) \/ Crash(w)
    PROVE  /\ worker' = [worker EXCEPT ![w] = [pc |-> "idle"]]
           /\ [pc |-> "idle"] \in Idle
           /\ UNCHANGED <<today, revision, closes, tables>>
  BY DEF Finish, Crash, Advance, Idle

-----------------------------------------------------------------------------
(* A transaction replaces rows by rows of its kind.                        *)
LEMMA ReplaceShape ==
    ASSUME ArchiveShape, NEW r \in Runs, NEW document \in DocumentPair, NEW digest \in Nat,
           ReplaceCollectedRun(r, document, digest)
    PROVE  /\ verdicts' \in [Runs -> Rows]
           /\ sources' \in [Runs -> SUBSET (Symbols \X Nat)]
           /\ reasons' \in [Runs -> SUBSET Symbols]
           /\ digests' \in [Runs -> Nat]
           /\ outcomes' = [q \in Runs |-> [h \in Horizons |-> outcomes'[q][h]]]
           /\ verdicts'[r] = document.recommended
           /\ sources'[r] = ResolvedSources(document)
           /\ reasons'[r] = DOMAIN document.recommended
           /\ digests'[r] = digest
           /\ \A h \in Horizons :
                 DOMAIN outcomes'[r][h] = DOMAIN outcomes[r][h] \cap DOMAIN document.recommended
           /\ \A q \in Runs \ {r} :
                 /\ verdicts'[q] = verdicts[q] /\ sources'[q] = sources[q]
                 /\ reasons'[q] = reasons[q] /\ digests'[q] = digests[q]
                 /\ outcomes'[q] = outcomes[q]
  <1>1. /\ document.recommended \in Rows /\ DOMAIN document.recommended \subseteq Symbols
        /\ ResolvedSources(document) \subseteq Symbols \X Nat
    BY DocumentTypes
  <1>2. /\ verdicts' \in [Runs -> Rows] /\ verdicts'[r] = document.recommended
        /\ sources' \in [Runs -> SUBSET (Symbols \X Nat)]
        /\ sources'[r] = ResolvedSources(document)
        /\ reasons' \in [Runs -> SUBSET Symbols] /\ reasons'[r] = DOMAIN document.recommended
        /\ digests' \in [Runs -> Nat] /\ digests'[r] = digest
        /\ \A q \in Runs \ {r} :
              /\ verdicts'[q] = verdicts[q] /\ sources'[q] = sources[q]
              /\ reasons'[q] = reasons[q] /\ digests'[q] = digests[q]
    BY <1>1 DEF ReplaceCollectedRun, ArchiveShape
  <1> DEFINE slices == [h \in Horizons |->
          [s \in DOMAIN outcomes[r][h] \cap DOMAIN document.recommended |-> outcomes[r][h][s]]]
  <1>3. outcomes' = [outcomes EXCEPT ![r] = slices]
    BY DEF ReplaceCollectedRun
  <1>4. /\ outcomes' = [q \in Runs |-> IF q = r THEN slices ELSE outcomes[q]]
        /\ outcomes = [q \in Runs |-> [h \in Horizons |-> outcomes[q][h]]]
    BY <1>3 DEF ArchiveShape
  <1>5. /\ outcomes'[r] = slices
        /\ \A q \in Runs \ {r} : outcomes'[q] = outcomes[q]
    BY <1>4
  <1>6. \A q \in Runs : outcomes'[q] = [h \in Horizons |-> outcomes'[q][h]]
    <2>1. slices = [h \in Horizons |-> slices[h]]
      OBVIOUS
    <2>2. \A q \in Runs : outcomes[q] = [h \in Horizons |-> outcomes[q][h]]
      BY <1>4
    <2> HIDE DEF slices
    <2> QED BY <1>5, <2>1, <2>2
  <1>7. outcomes' = [q \in Runs |-> [h \in Horizons |-> outcomes'[q][h]]]
    <2>1. outcomes' = [q \in Runs |-> outcomes'[q]]
      BY <1>4
    <2> QED BY <1>6, <2>1
  <1>8. \A h \in Horizons :
           DOMAIN outcomes'[r][h] = DOMAIN outcomes[r][h] \cap DOMAIN document.recommended
    BY <1>5
  <1> QED BY <1>2, <1>5, <1>7, <1>8

LEMMA SliceShape ==
    ASSUME ArchiveShape, NEW r \in Runs, NEW h \in Horizons, NEW slice,
           ReplaceVerdictOutcomes(r, h, slice)
    PROVE  /\ outcomes' = [q \in Runs |-> [k \in Horizons |-> outcomes'[q][k]]]
           /\ outcomes'[r][h] = slice
           /\ \A q \in Runs, k \in Horizons :
                 <<q, k>> # <<r, h>> => outcomes'[q][k] = outcomes[q][k]
  <1>1. /\ outcomes = [q \in Runs |-> outcomes[q]]
        /\ \A q \in Runs : outcomes[q] = [k \in Horizons |-> outcomes[q][k]]
    BY DEF ArchiveShape
  <1>2. outcomes' = [q \in Runs |->
           IF q = r THEN [k \in Horizons |-> IF k = h THEN slice ELSE outcomes[q][k]]
                    ELSE outcomes[q]]
    BY <1>1 DEF ReplaceVerdictOutcomes
  <1>3. \A q \in Runs, k \in Horizons :
           outcomes'[q][k] = IF q = r /\ k = h THEN slice ELSE outcomes[q][k]
    BY <1>2
  <1>4. \A q \in Runs : outcomes'[q] = [k \in Horizons |-> outcomes'[q][k]]
    BY <1>1, <1>2
  <1>5. outcomes' = [q \in Runs |-> outcomes'[q]]
    BY <1>2
  <1> QED BY <1>3, <1>4, <1>5

LEMMA InitShape == Init => ArchiveShape
  <1> SUFFICES ASSUME Init
               PROVE  ArchiveShape
    OBVIOUS
  <1>1. \A r \in Legacy : /\ r \in Runs /\ 1 \in DOMAIN Content[r]
                          /\ Content[r][1] \in DocumentPair /\ Len(Content[r]) >= 1
    BY ArchiveAssumption, DocumentAssumption
  <1>2. \A r \in Runs : Len(Content[r]) \in Nat
    BY DocumentAssumption
  <1>3. revision \in [Runs -> Nat] /\ \A r \in Runs : revision[r] <= Len(Content[r])
    BY <1>1, <1>2 DEF Init
  <1>4. verdicts \in [Runs -> Rows]
    BY <1>1, DocumentTypes, EmptyRows DEF Init
  <1>5. sources \in [Runs -> SUBSET (Symbols \X Nat)]
    BY <1>1, DocumentTypes DEF Init
  <1>6. outcomes = [r \in Runs |-> [h \in Horizons |-> outcomes[r][h]]]
    BY DEF Init
  <1>7. today \in 1..LastDate
    BY ArchiveAssumption DEF Init
  <1>8. /\ worker \in [Workers -> Idle \cup Pass]
        /\ \A w \in Workers : worker[w].pc = "idle"
    BY DEF Init, Idle
  <1>9. reasons \in [Runs -> SUBSET Symbols] /\ digests \in [Runs -> Nat]
    BY DEF Init, None
  <1> QED BY <1>3, <1>4, <1>5, <1>6, <1>7, <1>8, <1>9 DEF ArchiveShape

LEMMA ShapeStep == ArchiveShape /\ ScanInv /\ [Next]_vars => ArchiveShape'
  <1> SUFFICES ASSUME ArchiveShape, ScanInv, [Next]_vars
               PROVE  ArchiveShape'
    OBVIOUS
  <1>1. ASSUME worker' = Unread
        PROVE  /\ worker' \in [Workers -> Idle \cup Pass]
               /\ \A w \in Workers : worker'[w].pc \in {"scan", "load"} =>
                                         DOMAIN worker'[w].stored = Runs
    BY <1>1, UnreadPass DEF ArchiveShape, SamePass
  <1>2. CASE NextSession
    <2>1. today' \in 1..LastDate
      BY <1>2, ArchiveAssumption DEF NextSession, ArchiveShape
    <2> QED BY <1>1, <1>2, <2>1 DEF NextSession, tables, ArchiveShape
  <1>3. ASSUME NEW r \in Runs, Ingest(r)
        PROVE  ArchiveShape'
    <2>1. /\ revision' \in [Runs -> Nat]
          /\ \A q \in Runs : revision'[q] <= Len(Content[q])
      BY <1>3, DocumentTypes DEF Ingest, ArchiveShape
    <2> QED BY <1>1, <1>3, <2>1 DEF Ingest, tables, ArchiveShape
  <1>4. ASSUME NEW repair \in Repairs, Repair(repair)
        PROVE  ArchiveShape'
    BY <1>1, <1>4 DEF Repair, tables, ArchiveShape
  <1>5. ASSUME NEW w \in Workers, NEW pass \in Idle \cup Pass, Moves(w, pass),
               pass.pc \in {"scan", "load"} => DOMAIN pass.stored = Runs,
               UNCHANGED <<today, revision, tables>>
        PROVE  ArchiveShape'
    BY <1>5, MovesShape DEF tables, ArchiveShape
  <1>6. ASSUME NEW w \in Workers, Begin(w)
        PROVE  ArchiveShape'
    <2>1. PICK pass \in Pass :
             /\ Moves(w, pass) /\ pass.stored = digests
             /\ UNCHANGED <<today, revision, verdicts, sources, digests, outcomes>>
             /\ reasons' = [r \in Runs |-> reasons[r] \cup DOMAIN verdicts[r]]
      BY <1>6, BeginMoves
    <2>2. reasons' \in [Runs -> SUBSET Symbols]
      BY <2>1, RowsDomain DEF ArchiveShape
    <2>3. DOMAIN pass.stored = Runs
      BY <2>1 DEF ArchiveShape
    <2> QED BY <2>1, <2>2, <2>3, MovesShape DEF ArchiveShape
  <1>7. ASSUME NEW w \in Workers, Fingerprint(w)
        PROVE  ArchiveShape'
    <2> DEFINE r == Min(worker[w].left)
               digest == DocumentDigest(r)
               load == [worker[w] EXCEPT !.pc = "load", !.hashed = digest]
    <2>1. /\ worker[w] \in Pass /\ worker[w].pc = "scan" /\ r \in Runs
          /\ UNCHANGED <<today, revision, closes, tables>>
          /\ \/ worker' = [worker EXCEPT ![w] = Candidate(w, r, digest, None)]
             \/ worker' = [worker EXCEPT ![w] = load] /\ load \in Pass
      BY <1>7, FingerprintMoves DEF Pass
    <2>2. DOMAIN worker[w].stored = Runs
      BY <2>1 DEF ArchiveShape
    <2>3. /\ Candidate(w, r, digest, None) \in Pass
          /\ Candidate(w, r, digest, None).stored = worker[w].stored
      <3>1. digest \in Nat /\ None \in Nat
        BY <2>1, DigestOfDocuments DEF None
      <3>2. worker[w] \in Pass /\ r \in Runs
        BY <2>1
      <3> HIDE DEF r, digest, load
      <3> QED BY <3>1, <3>2, UnparsedShape
    <2>4. load.stored = worker[w].stored
      BY <2>1 DEF Pass
    <2> HIDE DEF load, digest, r
    <2> QED BY <1>5, <2>1, <2>2, <2>3, <2>4 DEF Moves
  <1>8. ASSUME NEW w \in Workers, Load(w)
        PROVE  ArchiveShape'
    <2> DEFINE r == Min(worker[w].left)
               skip == [worker[w] EXCEPT !.pc = "scan", !.left = @ \ {r}, !.hashed = None]
               parsed == Candidate(w, r, worker[w].hashed, revision[r])
    <2>1. /\ worker[w] \in Pass /\ worker[w].pc = "load" /\ r \in Runs
          /\ UNCHANGED <<today, revision, closes, tables>>
          /\ \/ worker' = [worker EXCEPT ![w] = parsed]
             \/ worker' = [worker EXCEPT ![w] = skip] /\ skip \in Pass
      BY <1>8, LoadMoves DEF Pass
    <2>2. DOMAIN worker[w].stored = Runs
      BY <2>1 DEF ArchiveShape
    <2>3. parsed \in Pass /\ parsed.stored = worker[w].stored
      <3>1. revision[r] \in Nat /\ worker[w].hashed \in Nat
        BY <2>1 DEF ArchiveShape, Pass
      <3>2. worker[w] \in Pass /\ r \in Runs
        BY <2>1
      <3> HIDE DEF r
      <3> QED BY <3>1, <3>2, CandidateShape
    <2>4. skip.stored = worker[w].stored
      BY <2>1 DEF Pass
    <2> HIDE DEF parsed, skip, r
    <2> QED BY <1>5, <2>1, <2>2, <2>3, <2>4 DEF Moves
  <1>9. ASSUME NEW w \in Workers, Adopt(w)
        PROVE  ArchiveShape'
    BY <1>5, <1>9, AdoptMoves DEF Moves
  <1>10. ASSUME NEW w \in Workers, WriteRun(w)
         PROVE  ArchiveShape'
    <2>1. PICK pass \in Pass, r \in Runs, p \in Nat, digest \in Nat :
             /\ worker' = [Unread EXCEPT ![w] = pass] /\ pass.pc = "write"
             /\ p \in DOMAIN Content[r]
             /\ ReplaceCollectedRun(r, Content[r][p], digest)
             /\ UNCHANGED <<today, revision, closes>>
      BY <1>10, WriteRunMoves
    <2>2. Content[r][p] \in DocumentPair
      BY <2>1, DocumentTypes
    <2>3. /\ verdicts' \in [Runs -> Rows]
          /\ sources' \in [Runs -> SUBSET (Symbols \X Nat)]
          /\ reasons' \in [Runs -> SUBSET Symbols]
          /\ digests' \in [Runs -> Nat]
          /\ outcomes' = [q \in Runs |-> [h \in Horizons |-> outcomes'[q][h]]]
      BY <2>1, <2>2, ReplaceShape
    <2>4. /\ worker' \in [Workers -> Idle \cup Pass]
          /\ \A v \in Workers : worker'[v].pc \in {"scan", "load"} =>
                                    DOMAIN worker'[v].stored = Runs
      BY <2>1, MovesShape DEF Moves
    <2> QED BY <2>1, <2>3, <2>4 DEF ArchiveShape
  <1>11. ASSUME NEW w \in Workers, OpenWindow(w)
         PROVE  ArchiveShape'
    BY <1>5, <1>11, OpenWindowMoves DEF Moves
  <1>12. ASSUME NEW w \in Workers, EvaluateSlice(w)
         PROVE  ArchiveShape'
    <2>1. PICK pass \in Pass, slice \in Runs \X Horizons :
             /\ worker' = [Unread EXCEPT ![w] = pass] /\ pass.pc = "evaluate"
             /\ UNCHANGED <<today, revision, closes, verdicts, sources, reasons, digests>>
             /\ SliceStep(w, slice)
      BY <1>12, EvaluateSliceMoves
    <2>2. outcomes' = [q \in Runs |-> [h \in Horizons |-> outcomes'[q][h]]]
      <3>1. slice[1] \in Runs /\ slice[2] \in Horizons
        OBVIOUS
      <3>2. CASE UNCHANGED outcomes
        BY <3>2 DEF ArchiveShape
      <3>3. ASSUME NEW s, ReplaceVerdictOutcomes(slice[1], slice[2], s)
            PROVE  outcomes' = [q \in Runs |-> [h \in Horizons |-> outcomes'[q][h]]]
        BY <3>1, <3>3, SliceShape
      <3> QED BY <2>1, <3>2, <3>3 DEF SliceStep
    <2>3. /\ worker' \in [Workers -> Idle \cup Pass]
          /\ \A v \in Workers : worker'[v].pc \in {"scan", "load"} =>
                                    DOMAIN worker'[v].stored = Runs
      BY <2>1, MovesShape DEF Moves
    <2> QED BY <2>1, <2>2, <2>3 DEF ArchiveShape
  <1>13. ASSUME NEW w \in Workers, Finish(w) \/ Crash(w)
         PROVE  ArchiveShape'
    BY <1>5, <1>13, EndMoves DEF Moves
  <1>14. CASE UNCHANGED vars
    BY <1>14 DEF vars, tables, ArchiveShape
  <1> QED BY <1>2, <1>3, <1>4, <1>6, <1>7, <1>8, <1>9, <1>10, <1>11, <1>12, <1>13, <1>14
          DEF Next, Work

-----------------------------------------------------------------------------
(* What a pass has hashed and parsed is no newer than the documents.       *)
LEMMA ScannedMoves ==
    ASSUME ArchiveShape, ScanInv, NEW w \in Workers, NEW pass \in Idle \cup Pass,
           Moves(w, pass), revision' = revision, Scanned(pass)
    PROVE  ScanInv'
  <1>1. ASSUME NEW v \in Workers
        PROVE  Scanned(Unread[v])
    BY UnreadPass DEF ScanInv, Scanned, SamePass
  <1>2. \A v \in Workers : worker'[v] \in {pass, worker[v], Unread[v]}
    BY UnreadPass DEF Moves, ArchiveShape
  <1>3. \A v \in Workers : Scanned(worker'[v])
    BY <1>1, <1>2 DEF ScanInv
  <1>4. ASSUME NEW v \in Workers, Scanned(worker'[v])
        PROVE  Scanned(worker[v])'
    BY <1>4, revision' = revision DEF Scanned
  <1> QED BY <1>3, <1>4 DEF ScanInv

LEMMA ScanStep == ArchiveShape /\ ScanInv /\ [Next]_vars => ScanInv'
  <1> SUFFICES ASSUME ArchiveShape, ScanInv, [Next]_vars
               PROVE  ScanInv'
    OBVIOUS
  <1>1. ASSUME worker' = Unread, \A r \in Runs : revision'[r] >= revision[r],
               revision' \in [Runs -> Nat]
        PROVE  ScanInv'
    <2> SUFFICES ASSUME NEW v \in Workers
                 PROVE  Scanned(worker[v])'
      BY DEF ScanInv
    <2>1. Scanned(worker[v])
      BY DEF ScanInv
    <2>2. CASE worker[v].pc = "idle"
      BY <1>1, <2>2, UnreadPass DEF Scanned
    <2>3. CASE worker[v].pc # "idle"
      <3>1. worker[v] \in Pass /\ SamePass(v, worker'[v])
        BY <1>1, <2>3, UnreadPass
      <3>2. worker[v].pc = "load" => Min(worker[v].left) \in Runs
        BY <2>1, <3>1, LeastRun DEF Scanned, Pass
      <3>3. /\ worker[v].hashed \in Nat
            /\ \A q \in DOMAIN worker[v].found :
                  q \in Runs /\ worker[v].found[q].parsed \in Nat
        BY <3>1 DEF Pass
      <3> QED BY <1>1, <2>1, <3>1, <3>2, <3>3 DEF Scanned, SamePass, ArchiveShape
    <2> QED BY <2>2, <2>3
  <1>2. CASE NextSession
    BY <1>1, <1>2 DEF NextSession, ArchiveShape
  <1>3. ASSUME NEW r \in Runs, Ingest(r)
        PROVE  ScanInv'
    BY <1>1, <1>3 DEF Ingest, ArchiveShape
  <1>4. ASSUME NEW repair \in Repairs, Repair(repair)
        PROVE  ScanInv'
    BY <1>1, <1>4 DEF Repair, ArchiveShape
  <1>5. ASSUME NEW w \in Workers, Begin(w)
        PROVE  ScanInv'
    <2>1. PICK pass \in Pass : Moves(w, pass) /\ pass.pc = "scan" /\ pass.found = NoRows
                               /\ revision' = revision
      BY <1>5, BeginMoves
    <2>2. Scanned(pass)
      BY <2>1 DEF Scanned, NoRows
    <2> QED BY <2>1, <2>2, ScannedMoves
  <1>6. ASSUME NEW w \in Workers, Fingerprint(w)
        PROVE  ScanInv'
    <2> DEFINE r == Min(worker[w].left)
               digest == DocumentDigest(r)
               load == [worker[w] EXCEPT !.pc = "load", !.hashed = digest]
    <2>1. /\ worker[w] \in Pass /\ worker[w].pc = "scan" /\ worker[w].left # {}
          /\ r \in Runs /\ revision' = revision
          /\ \/ worker' = [worker EXCEPT ![w] = Candidate(w, r, digest, None)]
             \/ worker' = [worker EXCEPT ![w] = load] /\ load \in Pass
      BY <1>6, FingerprintMoves DEF Pass
    <2>2. digest \in Nat /\ digest <= revision[r] /\ None \in Nat /\ None = 0
      BY <2>1, DigestOfDocuments DEF None
    <2>3. Scanned(worker[w])
      BY DEF ScanInv
    <2>4. CASE worker' = [worker EXCEPT ![w] = Candidate(w, r, digest, None)]
      <3> HIDE DEF r, digest
      <3>1. /\ Candidate(w, r, digest, None) \in Pass
            /\ Candidate(w, r, digest, None).pc = "scan"
            /\ DOMAIN Candidate(w, r, digest, None).found = DOMAIN worker[w].found \cup {r}
            /\ Candidate(w, r, digest, None).found[r].parsed = None
            /\ \A q \in DOMAIN worker[w].found \ {r} :
                  Candidate(w, r, digest, None).found[q] = worker[w].found[q]
        BY <2>1, <2>2, CandidateShape
      <3>2. Scanned(Candidate(w, r, digest, None))
        BY <2>1, <2>3, <3>1 DEF Scanned
      <3> QED BY <2>1, <2>4, <3>1, <3>2, ScannedMoves DEF Moves
    <2>5. CASE worker' = [worker EXCEPT ![w] = load] /\ load \in Pass
      <3>1. load.pc = "load" /\ load.left = worker[w].left /\ load.hashed = digest
            /\ load.found = worker[w].found
        BY <2>1 DEF Pass
      <3>2. Scanned(load)
        <4> HIDE DEF load
        <4> QED BY <2>1, <2>2, <2>3, <3>1 DEF Scanned
      <3> HIDE DEF load
      <3> QED BY <2>1, <2>5, <3>2, ScannedMoves DEF Moves
    <2> QED BY <2>1, <2>4, <2>5
  <1>7. ASSUME NEW w \in Workers, Load(w)
        PROVE  ScanInv'
    <2> DEFINE r == Min(worker[w].left)
               skip == [worker[w] EXCEPT !.pc = "scan", !.left = @ \ {r}, !.hashed = None]
               parsed == Candidate(w, r, worker[w].hashed, revision[r])
    <2>1. /\ worker[w] \in Pass /\ worker[w].pc = "load" /\ r \in Runs /\ revision' = revision
          /\ worker[w].hashed <= revision[r]
          /\ \/ Readable(r) /\ worker' = [worker EXCEPT ![w] = parsed]
             \/ worker' = [worker EXCEPT ![w] = skip] /\ skip \in Pass
      BY <1>7, LoadMoves DEF Pass
    <2>2. revision[r] \in Nat /\ worker[w].hashed \in Nat
      BY <2>1 DEF ArchiveShape, Pass
    <2>3. Scanned(worker[w])
      BY DEF ScanInv
    <2>4. CASE Readable(r) /\ worker' = [worker EXCEPT ![w] = parsed]
      <3> HIDE DEF r
      <3>1. /\ parsed \in Pass /\ parsed.pc = "scan"
            /\ DOMAIN parsed.found = DOMAIN worker[w].found \cup {r}
            /\ parsed.found[r].parsed = revision[r]
            /\ parsed.found[r].digest = worker[w].hashed
            /\ \A q \in DOMAIN worker[w].found \ {r} : parsed.found[q] = worker[w].found[q]
        BY <2>1, <2>2, CandidateShape
      <3>2. revision[r] \in DOMAIN Content[r] /\ Content[r][revision[r]].readable
        <4>1. revision[r] # 0 /\ Content[r][revision[r]].readable
          BY <2>4 DEF Readable, Documents, Absent
        <4> QED BY <2>1, <2>2, <4>1, DocumentTypes DEF ArchiveShape
      <3> HIDE DEF parsed
      <3>3. Scanned(parsed)
        BY <2>1, <2>2, <2>3, <3>1, <3>2 DEF Scanned
      <3> QED BY <2>1, <2>4, <3>1, <3>3, ScannedMoves DEF Moves
    <2>5. CASE worker' = [worker EXCEPT ![w] = skip] /\ skip \in Pass
      <3>1. skip.pc = "scan" /\ skip.found = worker[w].found
        BY <2>1 DEF Pass
      <3> HIDE DEF skip
      <3>2. Scanned(skip)
        BY <2>1, <2>3, <3>1 DEF Scanned
      <3> QED BY <2>1, <2>5, <3>2, ScannedMoves DEF Moves
    <2> QED BY <2>1, <2>4, <2>5
  <1>8. ASSUME NEW w \in Workers, Adopt(w)
        PROVE  ScanInv'
    <2>1. PICK pass \in Pass :
             /\ worker[w].pc = "scan"
             /\ worker' = [worker EXCEPT ![w] = pass]
             /\ pass.pc = "write" /\ pass.found = worker[w].found
             /\ pass.left = {r \in Adopted(worker[w].found) : worker[w].found[r].parsed # None}
             /\ \A r \in Adopted(worker[w].found) : r \in DOMAIN worker[w].found
             /\ revision' = revision
      BY <1>8, AdoptMoves
    <2>2. Scanned(worker[w])
      BY DEF ScanInv
    <2>3. Scanned(pass)
      BY <2>1, <2>2 DEF Scanned
    <2> QED BY <2>1, <2>3, ScannedMoves DEF Moves
  <1>9. ASSUME NEW w \in Workers, WriteRun(w)
        PROVE  ScanInv'
    <2>1. PICK pass \in Pass, r \in Runs, p \in Nat, digest \in Nat :
             /\ worker[w].pc = "write"
             /\ worker' = [Unread EXCEPT ![w] = pass]
             /\ pass.pc = "write" /\ pass.left = worker[w].left \ {r}
             /\ pass.found = worker[w].found /\ revision' = revision
      BY <1>9, WriteRunMoves
    <2>2. Scanned(worker[w])
      BY DEF ScanInv
    <2>3. Scanned(pass)
      BY <2>1, <2>2 DEF Scanned
    <2> QED BY <2>1, <2>3, ScannedMoves DEF Moves
  <1>10. ASSUME NEW w \in Workers, OpenWindow(w) \/ EvaluateSlice(w)
         PROVE  ScanInv'
    <2>1. PICK pass \in Pass : Moves(w, pass) /\ pass.pc = "evaluate" /\ revision' = revision
      <3>1. CASE OpenWindow(w)
        BY <3>1, OpenWindowMoves DEF Moves
      <3>2. CASE EvaluateSlice(w)
        BY <3>2, EvaluateSliceMoves DEF Moves
      <3> QED BY <1>10, <3>1, <3>2
    <2>2. Scanned(pass)
      BY <2>1 DEF Scanned
    <2> QED BY <2>1, <2>2, ScannedMoves
  <1>11. ASSUME NEW w \in Workers, Finish(w) \/ Crash(w)
         PROVE  ScanInv'
    <2>1. Scanned([pc |-> "idle"])
      BY DEF Scanned
    <2> QED BY <1>11, <2>1, EndMoves, ScannedMoves DEF Moves
  <1>12. CASE UNCHANGED vars
    BY <1>12 DEF vars, ScanInv, Scanned
  <1> QED BY <1>2, <1>3, <1>4, <1>5, <1>6, <1>7, <1>8, <1>9, <1>10, <1>11, <1>12
          DEF Next, Work

-----------------------------------------------------------------------------
(* A stored digest speaks for the rows.                                    *)
LEMMA DigestStep == ArchiveShape /\ ScanInv /\ DigestInv /\ [Next]_vars => DigestInv'
  <1> SUFFICES ASSUME ArchiveShape, ScanInv, DigestInv, [Next]_vars
               PROVE  DigestInv'
    OBVIOUS
  <1>1. ASSUME UNCHANGED <<verdicts, sources, digests>>, revision' \in [Runs -> Nat],
               \A r \in Runs : revision'[r] >= revision[r],
               \A r \in Runs : reasons'[r] = reasons[r] \/
                                   reasons'[r] = reasons[r] \cup DOMAIN verdicts[r]
        PROVE  DigestInv'
    <2> SUFFICES ASSUME NEW r \in Runs, digests[r] # None
                 PROVE  \E p \in DOMAIN Content[r] :
                           /\ digests[r] <= p /\ p <= revision'[r]
                           /\ Content[r][p].readable /\ RowsAre(r, p)'
      BY <1>1 DEF DigestInv
    <2>1. PICK p \in DOMAIN Content[r] :
             /\ digests[r] <= p /\ p <= revision[r]
             /\ Content[r][p].readable /\ RowsAre(r, p)
      BY DEF DigestInv
    <2>2. RowsAre(r, p)'
      BY <1>1, <2>1 DEF RowsAre
    <2>3. p \in Nat /\ revision[r] \in Nat /\ revision'[r] \in Nat
      BY <1>1, DocumentAssumption DEF ArchiveShape
    <2> QED BY <1>1, <2>1, <2>2, <2>3
  <1>2. ASSUME UNCHANGED <<revision, verdicts, sources, reasons, digests>>
        PROVE  DigestInv'
    BY <1>1, <1>2 DEF ArchiveShape
  <1>3. CASE NextSession \/ \E repair \in Repairs : Repair(repair)
    BY <1>2, <1>3 DEF NextSession, Repair, tables
  <1>4. ASSUME NEW r \in Runs, Ingest(r)
        PROVE  DigestInv'
    BY <1>1, <1>4 DEF Ingest, tables, ArchiveShape
  <1>5. ASSUME NEW w \in Workers, Begin(w)
        PROVE  DigestInv'
    <2>1. /\ UNCHANGED <<revision, verdicts, sources, digests>>
          /\ \A r \in Runs : reasons'[r] = reasons[r] \cup DOMAIN verdicts[r]
      BY <1>5, BeginMoves
    <2> QED BY <1>1, <2>1 DEF ArchiveShape
  <1>6. ASSUME NEW w \in Workers, WriteRun(w)
        PROVE  DigestInv'
    <2>1. PICK pass \in Pass, r \in Runs, p \in Nat, digest \in Nat :
             /\ p \in DOMAIN Content[r] /\ Content[r][p].readable
             /\ digest <= p /\ p <= revision[r]
             /\ ReplaceCollectedRun(r, Content[r][p], digest)
             /\ UNCHANGED <<today, revision, closes>>
      BY <1>6, WriteRunMoves
    <2>2. Content[r][p] \in DocumentPair
      BY <2>1, DocumentTypes
    <2>3. /\ RowsAre(r, p)' /\ digests'[r] = digest
          /\ \A q \in Runs \ {r} :
                /\ verdicts'[q] = verdicts[q] /\ sources'[q] = sources[q]
                /\ reasons'[q] = reasons[q] /\ digests'[q] = digests[q]
      BY <2>1, <2>2, ReplaceShape DEF RowsAre
    <2> SUFFICES ASSUME NEW q \in Runs, digests'[q] # None
                 PROVE  \E k \in DOMAIN Content[q] :
                           /\ digests'[q] <= k /\ k <= revision'[q]
                           /\ Content[q][k].readable /\ RowsAre(q, k)'
      BY DEF DigestInv
    <2>4. CASE q = r
      BY <2>1, <2>3, <2>4
    <2>5. CASE q # r
      <3>1. PICK k \in DOMAIN Content[q] :
               /\ digests[q] <= k /\ k <= revision[q]
               /\ Content[q][k].readable /\ RowsAre(q, k)
        BY <2>3, <2>5 DEF DigestInv
      <3>2. RowsAre(q, k)'
        BY <2>3, <2>5, <3>1 DEF RowsAre
      <3> QED BY <2>1, <2>3, <2>5, <3>1, <3>2
    <2> QED BY <2>4, <2>5
  <1>7. ASSUME NEW w \in Workers, EvaluateSlice(w)
        PROVE  DigestInv'
    BY <1>2, <1>7, EvaluateSliceMoves
  <1>8. ASSUME NEW w \in Workers, \/ Fingerprint(w) \/ Load(w) \/ Adopt(w)
                                  \/ OpenWindow(w) \/ Finish(w) \/ Crash(w)
        PROVE  DigestInv'
    BY <1>2, <1>8 DEF Fingerprint, Load, Adopt, OpenWindow, Finish, Crash, tables
  <1>9. CASE UNCHANGED vars
    BY <1>2, <1>9 DEF vars, tables
  <1> QED BY <1>3, <1>4, <1>5, <1>6, <1>7, <1>8, <1>9 DEF Next, Work

LEMMA ArchiveInvariant == Spec => [](ArchiveShape /\ ScanInv /\ DigestInv)
  <1>1. Init => ArchiveShape /\ ScanInv /\ DigestInv
    <2> SUFFICES ASSUME Init
                 PROVE  ArchiveShape /\ ScanInv /\ DigestInv
      OBVIOUS
    <2>1. ScanInv
      BY DEF Init, ScanInv, Scanned
    <2>2. DigestInv
      BY DEF Init, DigestInv
    <2> QED BY <2>1, <2>2, InitShape
  <1>2. ArchiveShape /\ ScanInv /\ DigestInv /\ [Next]_vars
        => (ArchiveShape /\ ScanInv /\ DigestInv)'
    BY ShapeStep, ScanStep, DigestStep
  <1> QED BY <1>1, <1>2, PTL DEF Spec

(* A run that a scan would skip, because its stored digest is the digest   *)
(* of its documents, has exactly their rows: for any number of processes,  *)
(* documents replaced between their hash and their parse, and deaths       *)
(* anywhere, if documents never return to a text they had.                 *)
THEOREM DigestSpeaksForTheRows ==
    ASSUME NeverReverted
    PROVE  Spec => []RowsMatchDocuments
  <1>1. ArchiveShape /\ DigestInv => RowsMatchDocuments
    <2> SUFFICES ASSUME ArchiveShape, DigestInv, NEW r \in Runs,
                        digests[r] # None, digests[r] = DocumentDigest(r)
                 PROVE  /\ verdicts[r] = Documents(r).recommended
                        /\ sources[r] = ResolvedSources(Documents(r))
                        /\ reasons[r] = DOMAIN verdicts[r]
      BY DEF RowsMatchDocuments
    <2> DEFINE d == digests[r]
               k == revision[r]
    <2>1. /\ d \in DOMAIN Content[r] /\ k \in DOMAIN Content[r]
          /\ Content[r][k] = Content[r][d] /\ Documents(r) = Content[r][k]
      BY DigestOfDocuments
    <2>2. PICK p \in DOMAIN Content[r] : d <= p /\ p <= k /\ RowsAre(r, p)
      BY DEF DigestInv
    <2>3. Content[r][p] = Content[r][d]
      BY NeverReverted, <2>1, <2>2 DEF NeverReverted
    <2> QED BY <2>1, <2>2, <2>3 DEF RowsAre
  <1> QED BY <1>1, ArchiveInvariant, PTL

-----------------------------------------------------------------------------
(* No outcome outlives its verdict.                                        *)
VerdictInv == OneProcess /\ WindowInv /\ OutcomesHaveVerdicts

LEMMA VerdictStep ==
    ASSUME Exclusive
    PROVE  ArchiveShape /\ ScanInv /\ VerdictInv /\ [Next]_vars => VerdictInv'
  <1> SUFFICES ASSUME ArchiveShape, ScanInv, VerdictInv, [Next]_vars
               PROVE  VerdictInv'
    OBVIOUS
  <1> USE DEF VerdictInv
  <1>1. ASSUME worker' = Unread, UNCHANGED tables
        PROVE  VerdictInv'
    <2>1. \A v \in Workers : /\ worker'[v].pc = worker[v].pc
                             /\ worker[v].pc # "idle" => SamePass(v, worker'[v])
      BY <1>1, UnreadPass
    <2>2. OneProcess'
      BY <2>1 DEF OneProcess
    <2>3. WindowInv'
      BY <1>1, <2>1 DEF WindowInv, SamePass, tables
    <2>4. OutcomesHaveVerdicts'
      BY <1>1 DEF OutcomesHaveVerdicts, tables
    <2> QED BY <2>2, <2>3, <2>4
  <1>2. ASSUME NEW w \in Workers, NEW pass \in Idle \cup Pass, Moves(w, pass),
               worker[w].pc # "idle",
               pass.pc = "evaluate" => \A slice \in pass.slices :
                  slice[1] \in DOMAIN pass.rows /\ pass.rows[slice[1]] = verdicts'[slice[1]]
        PROVE  OneProcess' /\ WindowInv'
    <2>1. \A v \in Workers \ {w} : worker[v].pc = "idle"
      BY <1>2 DEF OneProcess
    <2>2. worker'[w] = pass /\ \A v \in Workers \ {w} : worker'[v].pc = "idle"
      BY <1>2, <2>1, UnreadPass DEF Moves, ArchiveShape
    <2> QED BY <1>2, <2>2 DEF OneProcess, WindowInv
  <1>3. CASE NextSession
    BY <1>1, <1>3 DEF NextSession
  <1>4. ASSUME NEW r \in Runs, Ingest(r)
        PROVE  VerdictInv'
    BY <1>1, <1>4 DEF Ingest
  <1>5. ASSUME NEW repair \in Repairs, Repair(repair)
        PROVE  VerdictInv'
    BY <1>1, <1>5 DEF Repair
  <1>6. ASSUME NEW w \in Workers, Begin(w)
        PROVE  VerdictInv'
    <2>1. PICK pass \in Pass :
             /\ Moves(w, pass) /\ pass.pc = "scan"
             /\ UNCHANGED <<verdicts, outcomes>>
             /\ \A v \in Workers : worker[v].pc = "idle"
      BY <1>6, BeginMoves
    <2>2. worker'[w] = pass /\ \A v \in Workers \ {w} : worker'[v].pc = "idle"
      BY <2>1, UnreadPass DEF Moves, ArchiveShape
    <2> QED BY <2>1, <2>2 DEF OneProcess, WindowInv, OutcomesHaveVerdicts
  <1>7. ASSUME NEW w \in Workers, \/ Fingerprint(w) \/ Load(w) \/ Adopt(w)
        PROVE  VerdictInv'
    <2>1. /\ UNCHANGED tables
          /\ \E pass \in Pass :
                Moves(w, pass) /\ pass.pc # "evaluate" /\ worker[w].pc # "idle"
      <3>1. CASE Fingerprint(w)
        <4> DEFINE r == Min(worker[w].left)
                   load == [worker[w] EXCEPT !.pc = "load", !.hashed = DocumentDigest(r)]
        <4>1. /\ worker[w] \in Pass /\ worker[w].pc = "scan" /\ r \in Runs
              /\ UNCHANGED tables
              /\ \/ worker' = [worker EXCEPT ![w] = Candidate(w, r, DocumentDigest(r), None)]
                 \/ worker' = [worker EXCEPT ![w] = load] /\ load \in Pass
          BY <3>1, FingerprintMoves DEF Pass
        <4>2. DocumentDigest(r) \in Nat /\ None \in Nat
          BY <4>1, DigestOfDocuments DEF None
        <4>3. load.pc = "load"
          BY <4>1 DEF Pass
        <4> HIDE DEF load, r
        <4>4. /\ Candidate(w, r, DocumentDigest(r), None) \in Pass
              /\ Candidate(w, r, DocumentDigest(r), None).pc = "scan"
          BY <4>1, <4>2, CandidateShape
        <4> QED BY <4>1, <4>3, <4>4 DEF Moves
      <3>2. CASE Load(w)
        <4> DEFINE r == Min(worker[w].left)
                   skip == [worker[w] EXCEPT !.pc = "scan", !.left = @ \ {r}, !.hashed = None]
                   parsed == Candidate(w, r, worker[w].hashed, revision[r])
        <4>1. /\ worker[w] \in Pass /\ worker[w].pc = "load" /\ r \in Runs
              /\ UNCHANGED tables
              /\ \/ worker' = [worker EXCEPT ![w] = parsed]
                 \/ worker' = [worker EXCEPT ![w] = skip] /\ skip \in Pass
          BY <3>2, LoadMoves DEF Pass
        <4>2. worker[w].hashed \in Nat /\ revision[r] \in Nat
          BY <4>1 DEF Pass, ArchiveShape
        <4>3. skip.pc = "scan"
          BY <4>1 DEF Pass
        <4> HIDE DEF skip, r
        <4>4. parsed \in Pass /\ parsed.pc = "scan"
          BY <4>1, <4>2, CandidateShape
        <4> HIDE DEF parsed
        <4> QED BY <4>1, <4>3, <4>4 DEF Moves
      <3>3. CASE Adopt(w)
        BY <3>3, AdoptMoves DEF Moves
      <3> QED BY <1>7, <3>1, <3>2, <3>3
    <2>2. OutcomesHaveVerdicts'
      BY <2>1 DEF tables, OutcomesHaveVerdicts
    <2> QED BY <1>2, <2>1, <2>2
  <1>8. ASSUME NEW w \in Workers, WriteRun(w)
        PROVE  VerdictInv'
    <2>1. PICK pass \in Pass, r \in Runs, p \in Nat, digest \in Nat :
             /\ worker[w].pc = "write"
             /\ worker' = [Unread EXCEPT ![w] = pass] /\ pass.pc = "write"
             /\ p \in DOMAIN Content[r]
             /\ ReplaceCollectedRun(r, Content[r][p], digest)
      BY <1>8, WriteRunMoves
    <2>2. /\ verdicts'[r] = Content[r][p].recommended
          /\ \A h \in Horizons : DOMAIN outcomes'[r][h]
                = DOMAIN outcomes[r][h] \cap DOMAIN Content[r][p].recommended
          /\ \A q \in Runs \ {r} : verdicts'[q] = verdicts[q] /\ outcomes'[q] = outcomes[q]
      BY <2>1, DocumentTypes, ReplaceShape
    <2>3. OutcomesHaveVerdicts'
      BY <2>2 DEF OutcomesHaveVerdicts
    <2> QED BY <1>2, <2>1, <2>3 DEF Moves
  <1>9. ASSUME NEW w \in Workers, OpenWindow(w)
        PROVE  VerdictInv'
    <2>1. PICK pass \in Pass :
             /\ worker[w].pc = "write"
             /\ worker' = [worker EXCEPT ![w] = pass]
             /\ \A slice \in pass.slices :
                   slice[1] \in DOMAIN pass.rows /\ pass.rows[slice[1]] = verdicts[slice[1]]
             /\ UNCHANGED tables
      BY <1>9, OpenWindowMoves
    <2>2. UNCHANGED <<verdicts, outcomes>>
      BY <2>1 DEF tables
    <2> QED BY <1>2, <2>1, <2>2 DEF Moves, OutcomesHaveVerdicts
  <1>10. ASSUME NEW w \in Workers, EvaluateSlice(w)
         PROVE  VerdictInv'
    <2>1. PICK pass \in Pass, slice \in Runs \X Horizons :
             /\ worker[w].pc = "evaluate" /\ slice \in worker[w].slices
             /\ worker' = [Unread EXCEPT ![w] = pass] /\ pass.pc = "evaluate"
             /\ pass.slices = worker[w].slices \ {slice} /\ pass.rows = worker[w].rows
             /\ verdicts' = verdicts
             /\ SliceStep(w, slice)
      BY <1>10, EvaluateSliceMoves
    <2>2. \A a \in worker[w].slices :
             a[1] \in DOMAIN worker[w].rows /\ worker[w].rows[a[1]] = verdicts[a[1]]
      BY <2>1 DEF WindowInv
    <2>3. OutcomesHaveVerdicts'
      <3>1. CASE UNCHANGED outcomes
        BY <2>1, <3>1 DEF OutcomesHaveVerdicts
      <3>2. ASSUME NEW rows, DOMAIN rows \subseteq DOMAIN worker[w].rows[slice[1]],
                   ReplaceVerdictOutcomes(slice[1], slice[2], rows)
            PROVE  OutcomesHaveVerdicts'
        <4>1. PICK r \in Runs, h \in Horizons : slice[1] = r /\ slice[2] = h
          OBVIOUS
        <4>2. ReplaceVerdictOutcomes(r, h, rows)
          BY <3>2, <4>1
        <4>3. /\ outcomes'[r][h] = rows
              /\ \A q \in Runs, k \in Horizons : <<q, k>> # <<r, h>> =>
                     outcomes'[q][k] = outcomes[q][k]
          BY <4>2, SliceShape
        <4>4. DOMAIN rows \subseteq DOMAIN verdicts[r]
          BY <2>1, <2>2, <3>2, <4>1
        <4> QED BY <2>1, <4>3, <4>4 DEF OutcomesHaveVerdicts
      <3> QED BY <2>1, <3>1, <3>2 DEF SliceStep
    <2> QED BY <1>2, <2>1, <2>2, <2>3 DEF Moves
  <1>11. ASSUME NEW w \in Workers, Finish(w) \/ Crash(w)
         PROVE  VerdictInv'
    <2>1. /\ Moves(w, [pc |-> "idle"]) /\ [pc |-> "idle"] \in Idle
          /\ worker[w].pc # "idle" /\ UNCHANGED <<verdicts, outcomes>>
      BY <1>11, EndMoves DEF Finish, Crash, Moves, tables
    <2> QED BY <1>2, <2>1 DEF OutcomesHaveVerdicts
  <1>12. CASE UNCHANGED vars
    BY <1>12 DEF vars, tables, OneProcess, WindowInv, OutcomesHaveVerdicts
  <1> QED BY <1>3, <1>4, <1>5, <1>6, <1>7, <1>8, <1>9, <1>10, <1>11, <1>12 DEF Next, Work

(* While processes never overlap, no outcome is stored of a symbol whose   *)
(* verdict a correction has dropped, whatever window, horizon, bar or      *)
(* death comes in between.                                                 *)
THEOREM NoOutcomeOutlivesItsVerdict ==
    ASSUME Exclusive
    PROVE  Spec => []OutcomesHaveVerdicts
  <1>1. Init => VerdictInv
    BY DEF Init, VerdictInv, OneProcess, WindowInv, OutcomesHaveVerdicts, NoRows
  <1>2. ArchiveShape /\ ScanInv /\ VerdictInv /\ [Next]_vars => VerdictInv'
    BY VerdictStep
  <1>3. VerdictInv => OutcomesHaveVerdicts
    BY DEF VerdictInv
  <1> QED BY <1>1, <1>2, <1>3, ArchiveInvariant, PTL DEF Spec

-----------------------------------------------------------------------------
(* Readers and collect agree on the run of a date.                         *)

(* A later revision of documents that could be parsed can be parsed.       *)
LEMMA ReadableRevision ==
    ASSUME StaysReadable, ArchiveShape, NEW r \in Runs,
           NEW p \in DOMAIN Content[r], p <= revision[r], Content[r][p].readable
    PROVE  Readable(r)
  <1>1. p \in Nat /\ p # 0 /\ revision[r] \in Nat /\ revision[r] <= Len(Content[r])
    BY DocumentAssumption DEF ArchiveShape
  <1>2. revision[r] # 0 /\ revision[r] \in DOMAIN Content[r]
    BY <1>1, DocumentTypes
  <1> QED BY <1>2 DEF StaysReadable, Readable, Documents

LEMMA ReadableDocuments ==
    ASSUME ArchiveShape, NEW r \in Runs, Readable(r)
    PROVE  revision[r] \in DOMAIN Content[r] /\ Content[r][revision[r]].readable
  <1>1. revision[r] # 0 /\ Content[r][revision[r]].readable
    BY DEF Readable, Documents, Absent
  <1> QED BY <1>1, DocumentTypes DEF ArchiveShape

(* A pass that nothing changes, and one that a change disturbs.            *)
Grows ==
    \A r \in Runs : (Readable(r) => Readable(r)') /\ (HasRows(r) => HasRows(r)')

LEMMA CoveredSame ==
    ASSUME UNCHANGED <<revision, verdicts>>, NEW pass, Covered(pass)
    PROVE  Covered(pass)'
  <1>1. \A r \in Runs : (Readable(r)' <=> Readable(r)) /\ (HasRows(r)' <=> HasRows(r))
    BY DEF Readable, Documents, HasRows
  <1>2. \A r \in Runs : Represents(r)' <=> Represents(r)
    BY <1>1 DEF Represents
  <1>3. \A q : (Readable(q)' <=> Readable(q)) /\ (HasRows(q)' <=> HasRows(q))
    BY DEF Readable, Documents, HasRows
  <1> QED BY <1>1, <1>2, <1>3 DEF Covered

LEMMA CoveredDisturbed ==
    ASSUME ArchiveShape, CoverInv, Grows, NEW v \in Workers, worker'[v] = Unread[v]
    PROVE  Covered(worker[v])'
  <1>1. Covered(worker[v])
    BY DEF CoverInv
  <1>2. CASE worker[v].pc = "idle"
    BY <1>2, UnreadPass DEF Covered
  <1>3. CASE worker[v].pc # "idle"
    <2>1. /\ worker[v] \in Pass /\ ~worker'[v].calm
          /\ worker'[v].pc = worker[v].pc /\ worker'[v].stored = worker[v].stored
          /\ worker'[v].left = worker[v].left /\ worker'[v].found = worker[v].found
      BY <1>3, UnreadPass DEF SamePass
    <2>2. \A q \in DOMAIN worker[v].found : q \in Runs
      BY <2>1 DEF Pass
    <2> QED BY <1>1, <2>1, <2>2 DEF Covered, Grows
  <1> QED BY <1>2, <1>3

(* A step of one process that is covered leaves every process covered.     *)
LEMMA CoveredMoves ==
    ASSUME ArchiveShape, CoverInv, NEW w \in Workers, NEW pass \in Idle \cup Pass,
           \/ worker' = [worker EXCEPT ![w] = pass] /\ UNCHANGED <<revision, verdicts>>
           \/ worker' = [Unread EXCEPT ![w] = pass] /\ Grows,
           Covered(pass)',
           \A r \in Runs : HasRows(r)' => Readable(r)'
    PROVE  CoverInv'
  <1> SUFFICES ASSUME NEW v \in Workers
               PROVE  Covered(worker[v])'
    BY DEF CoverInv
  <1>1. Covered(worker[v])
    BY DEF CoverInv
  <1>2. worker'[w] = pass /\ (v # w => worker'[v] \in {worker[v], Unread[v]})
    BY UnreadPass DEF ArchiveShape
  <1>3. CASE v = w
    BY <1>2, <1>3 DEF Covered
  <1>4. ASSUME v # w, worker'[v] = worker[v], UNCHANGED <<revision, verdicts>>
        PROVE  Covered(worker[v])'
    <2> PICK p : p = worker[v]
      OBVIOUS
    <2>1. Covered(p)'
      BY <1>1, <1>4, CoveredSame DEF Covered
    <2> QED BY <1>4, <2>1 DEF Covered
  <1>5. worker'[v] = Unread[v] /\ Grows => Covered(worker[v])'
    BY CoveredDisturbed
  <1>6. v # w /\ worker' = [worker EXCEPT ![w] = pass] => worker'[v] = worker[v]
    BY DEF ArchiveShape
  <1>7. v # w /\ worker' = [Unread EXCEPT ![w] = pass] => worker'[v] = Unread[v]
    BY UnreadPass
  <1> QED BY <1>3, <1>4, <1>5, <1>6, <1>7

(* Rows are never lost and documents stay readable, so whatever a pass has *)
(* found stays true of them.                                               *)
LEMMA CoverStep ==
    ASSUME StaysReadable, EveryRunHasVerdicts
    PROVE  ArchiveShape /\ ScanInv /\ DigestInv /\ CoverInv /\ ArchiveShape' /\ [Next]_vars
              => CoverInv'
  <1> SUFFICES ASSUME ArchiveShape, ScanInv, DigestInv, CoverInv, ArchiveShape', [Next]_vars
               PROVE  CoverInv'
    OBVIOUS
  <1>1. UNCHANGED <<revision, verdicts>> => \A r \in Runs : HasRows(r)' => Readable(r)'
    BY DEF CoverInv, HasRows, Readable, Documents
  <1>2. ASSUME worker' = Unread, Grows, \A r \in Runs : HasRows(r)' => Readable(r)'
        PROVE  CoverInv'
    BY <1>2, CoveredDisturbed DEF CoverInv
  <1>3. ASSUME NEW w \in Workers, NEW pass \in Idle \cup Pass, Covered(pass),
               worker' = [worker EXCEPT ![w] = pass], UNCHANGED <<revision, verdicts>>
        PROVE  CoverInv'
    BY <1>1, <1>3, CoveredSame, CoveredMoves
  <1>4. CASE NextSession \/ \E repair \in Repairs : Repair(repair)
    <2>1. worker' = Unread /\ UNCHANGED <<revision, verdicts>>
      BY <1>4 DEF NextSession, Repair, tables
    <2>2. Grows
      BY <2>1 DEF Grows, HasRows, Readable, Documents
    <2> QED BY <1>1, <1>2, <2>1, <2>2
  <1>5. ASSUME NEW r \in Runs, Ingest(r)
        PROVE  CoverInv'
    <2>1. /\ worker' = Unread /\ verdicts' = verdicts
          /\ \A q \in Runs : revision'[q] >= revision[q]
      BY <1>5 DEF Ingest, tables, ArchiveShape
    <2>2. \A q \in Runs : Readable(q) => Readable(q)'
      <3> SUFFICES ASSUME NEW q \in Runs, Readable(q)
                   PROVE  Readable(q)'
        OBVIOUS
      <3>1. revision[q] \in DOMAIN Content[q] /\ Content[q][revision[q]].readable
        BY ReadableDocuments
      <3>2. revision'[q] # 0 /\ revision'[q] \in DOMAIN Content[q] /\ revision[q] <= revision'[q]
        BY <2>1, <3>1, DocumentTypes DEF ArchiveShape
      <3> QED BY <3>1, <3>2 DEF StaysReadable, Readable, Documents
    <2> QED BY <1>2, <2>1, <2>2 DEF Grows, HasRows, CoverInv
  <1>6. ASSUME NEW w \in Workers, Begin(w)
        PROVE  CoverInv'
    <2>1. PICK pass \in Pass :
             /\ worker' = [worker EXCEPT ![w] = pass]
             /\ pass.pc = "scan" /\ pass.asOf = today /\ pass.stored = digests
             /\ pass.left = {r \in Runs : DateOf[r] <= today} /\ pass.found = NoRows
             /\ UNCHANGED <<revision, verdicts>>
      BY <1>6, BeginMoves
    <2>2. \A q \in Runs : digests[q] # None => HasRows(q)
      BY DEF DigestInv, RowsAre, EveryRunHasVerdicts, HasRows
    <2>3. Covered(pass)
      BY <2>1, <2>2, EmptyRows DEF Covered
    <2> QED BY <1>3, <2>1, <2>3
  <1>7. ASSUME NEW w \in Workers, Fingerprint(w)
        PROVE  CoverInv'
    <2> DEFINE r == Min(worker[w].left)
               digest == DocumentDigest(r)
               load == [worker[w] EXCEPT !.pc = "load", !.hashed = digest]
    <2>1. /\ worker[w] \in Pass /\ worker[w].pc = "scan" /\ r \in worker[w].left
          /\ r \in Runs /\ UNCHANGED <<revision, verdicts>>
          /\ \/ /\ digest # None /\ worker[w].stored[r] = digest
                /\ worker' = [worker EXCEPT ![w] = Candidate(w, r, digest, None)]
             \/ worker' = [worker EXCEPT ![w] = load] /\ load \in Pass
      BY <1>7, FingerprintMoves DEF Pass, tables
    <2>2. Covered(worker[w]) /\ None \in Nat /\ None = 0 /\ digest \in Nat
      BY <2>1, DigestOfDocuments DEF CoverInv, None
    <2>3. CASE /\ digest # None /\ worker[w].stored[r] = digest
               /\ worker' = [worker EXCEPT ![w] = Candidate(w, r, digest, None)]
      <3> HIDE DEF r, digest
      <3>1. /\ Candidate(w, r, digest, None) \in Pass
            /\ Candidate(w, r, digest, None).pc = "scan"
            /\ Candidate(w, r, digest, None).stored = worker[w].stored
            /\ Candidate(w, r, digest, None).calm = worker[w].calm
            /\ Candidate(w, r, digest, None).asOf = worker[w].asOf
            /\ Candidate(w, r, digest, None).left = worker[w].left \ {r}
            /\ DOMAIN Candidate(w, r, digest, None).found = DOMAIN worker[w].found \cup {r}
            /\ \A q \in DOMAIN worker[w].found \ {r} :
                  Candidate(w, r, digest, None).found[q] = worker[w].found[q]
        BY <2>1, <2>2, CandidateShape
      <3>2. HasRows(r) /\ Readable(r)
        BY <2>1, <2>2, <2>3 DEF Covered, CoverInv
      <3>3. Covered(Candidate(w, r, digest, None))
        BY <2>1, <2>2, <3>1, <3>2 DEF Covered
      <3> QED BY <1>3, <2>1, <2>3, <3>1, <3>3
    <2>4. CASE worker' = [worker EXCEPT ![w] = load] /\ load \in Pass
      <3>1. /\ load.pc = "load" /\ load.left = worker[w].left /\ load.found = worker[w].found
            /\ load.stored = worker[w].stored /\ load.calm = worker[w].calm
            /\ load.asOf = worker[w].asOf
        BY <2>1 DEF Pass
      <3> HIDE DEF load
      <3>2. Covered(load)
        BY <2>1, <2>2, <3>1 DEF Covered
      <3> QED BY <1>3, <2>1, <2>4, <3>2
    <2> QED BY <2>1, <2>3, <2>4
  <1>8. ASSUME NEW w \in Workers, Load(w)
        PROVE  CoverInv'
    <2> DEFINE r == Min(worker[w].left)
               skip == [worker[w] EXCEPT !.pc = "scan", !.left = @ \ {r}, !.hashed = None]
               parsed == Candidate(w, r, worker[w].hashed, revision[r])
    <2>1. /\ worker[w] \in Pass /\ worker[w].pc = "load" /\ r \in worker[w].left /\ r \in Runs
          /\ UNCHANGED <<revision, verdicts>>
          /\ \/ Readable(r) /\ worker' = [worker EXCEPT ![w] = parsed]
             \/ ~Readable(r) /\ worker' = [worker EXCEPT ![w] = skip] /\ skip \in Pass
      BY <1>8, LoadMoves DEF Pass, tables
    <2>2. Covered(worker[w]) /\ revision[r] \in Nat /\ worker[w].hashed \in Nat
      BY <2>1 DEF ArchiveShape, Pass, CoverInv
    <2>3. CASE Readable(r) /\ worker' = [worker EXCEPT ![w] = parsed]
      <3> HIDE DEF r
      <3>1. /\ parsed \in Pass /\ parsed.pc = "scan"
            /\ parsed.stored = worker[w].stored /\ parsed.calm = worker[w].calm
            /\ parsed.asOf = worker[w].asOf /\ parsed.left = worker[w].left \ {r}
            /\ DOMAIN parsed.found = DOMAIN worker[w].found \cup {r}
            /\ parsed.found[r].parsed = revision[r]
            /\ \A q \in DOMAIN worker[w].found \ {r} : parsed.found[q] = worker[w].found[q]
        BY <2>1, <2>2, CandidateShape
      <3>2. revision[r] # None
        BY <2>3 DEF Readable, Documents, Absent, None
      <3> HIDE DEF parsed
      <3>3. Covered(parsed)
        BY <2>1, <2>2, <2>3, <3>1, <3>2 DEF Covered
      <3> QED BY <1>3, <2>1, <2>3, <3>1, <3>3
    <2>4. CASE ~Readable(r) /\ worker' = [worker EXCEPT ![w] = skip] /\ skip \in Pass
      <3>1. /\ skip.pc = "scan" /\ skip.left = worker[w].left \ {r}
            /\ skip.found = worker[w].found /\ skip.stored = worker[w].stored
            /\ skip.calm = worker[w].calm /\ skip.asOf = worker[w].asOf
        BY <2>1 DEF Pass
      <3> HIDE DEF skip
      <3>2. Covered(skip)
        BY <2>1, <2>2, <2>4, <3>1 DEF Covered
      <3> QED BY <1>3, <2>1, <2>4, <3>2
    <2> QED BY <2>1, <2>3, <2>4
  <1>9. ASSUME NEW w \in Workers, Adopt(w)
        PROVE  CoverInv'
    <2>1. PICK pass \in Pass :
             /\ worker[w] \in Pass /\ worker[w].pc = "scan" /\ worker[w].left = {}
             /\ worker' = [worker EXCEPT ![w] = pass]
             /\ pass.pc = "write" /\ pass.asOf = worker[w].asOf /\ pass.calm = worker[w].calm
             /\ pass.found = worker[w].found
             /\ pass.left = {r \in Adopted(worker[w].found) : worker[w].found[r].parsed # None}
             /\ UNCHANGED <<revision, verdicts>>
      BY <1>9, AdoptMoves DEF tables
    <2>2. Covered(worker[w])
      BY DEF CoverInv
    <2>3. ASSUME NEW q \in DOMAIN worker[w].found, Represents(q)
          PROVE  q \in Adopted(worker[w].found)
      <3>1. \A e \in DOMAIN worker[w].found : e \in Runs /\ Readable(e)
        BY <2>1, <2>2 DEF Covered, Pass
      <3>2. \A e \in DOMAIN worker[w].found :
               DateOf[e] = DateOf[q] /\ e # q => LaterRun(q, e)
        BY <2>3, <3>1 DEF Represents
      <3> DEFINE dated == {<<DateOf[r], r>> : r \in DOMAIN worker[w].found}
      <3>3. /\ <<DateOf[q], q>> \in dated
            /\ \A e \in dated : e[1] = DateOf[q] /\ e[2] # q => LaterRun(q, e[2])
        BY <3>2
      <3> HIDE DEF dated
      <3>4. q \in AdoptOneRunPerDate(dated)
        BY <3>3 DEF AdoptOneRunPerDate
      <3> QED BY <3>4 DEF Adopted, dated
    <2>4. Covered(pass)
      <3>1. \A q \in DOMAIN pass.found :
               Readable(q) /\ (pass.found[q].parsed = None => HasRows(q))
        BY <2>1, <2>2 DEF Covered
      <3>2. ASSUME pass.calm, NEW q \in Runs, DateOf[q] <= pass.asOf, Represents(q)
            PROVE  q \in pass.left \/ HasRows(q)
        <4>1. q \in DOMAIN worker[w].found
          BY <2>1, <2>2, <3>2 DEF Covered, Represents
        <4> QED BY <2>1, <2>3, <3>1, <3>2, <4>1
      <3> QED BY <2>1, <3>1, <3>2 DEF Covered
    <2> QED BY <1>3, <2>1, <2>4
  <1>10. ASSUME NEW w \in Workers, WriteRun(w)
         PROVE  CoverInv'
    <2>1. PICK pass \in Pass, r \in Runs, p \in Nat, digest \in Nat :
             /\ worker[w] \in Pass /\ worker[w].pc = "write"
             /\ worker' = [Unread EXCEPT ![w] = pass]
             /\ pass.pc = "write" /\ pass.left = worker[w].left \ {r}
             /\ pass.found = worker[w].found /\ pass.asOf = worker[w].asOf
             /\ pass.calm = worker[w].calm
             /\ p \in DOMAIN Content[r] /\ Content[r][p].readable /\ p <= revision[r]
             /\ ReplaceCollectedRun(r, Content[r][p], digest)
             /\ revision' = revision
      BY <1>10, WriteRunMoves
    <2>2. /\ verdicts'[r] = Content[r][p].recommended
          /\ \A q \in Runs \ {r} : verdicts'[q] = verdicts[q]
      BY <2>1, DocumentTypes, ReplaceShape
    <2>3. HasRows(r)' /\ Readable(r)
      BY <2>1, <2>2, ReadableRevision DEF HasRows, EveryRunHasVerdicts
    <2>4. \A q \in Runs : (Readable(q)' <=> Readable(q)) /\ (HasRows(q) => HasRows(q)')
      BY <2>1, <2>2, <2>3 DEF Readable, Documents, HasRows
    <2>5. \A q \in Runs : HasRows(q)' => Readable(q)'
      BY <2>2, <2>3, <2>4 DEF CoverInv, HasRows
    <2>6. Covered(worker[w]) /\ \A q \in DOMAIN worker[w].found : q \in Runs
      BY <2>1 DEF CoverInv, Pass
    <2>7. \A q \in Runs : Represents(q)' <=> Represents(q)
      BY <2>4 DEF Represents
    <2>8. Covered(pass)'
      BY <2>1, <2>3, <2>4, <2>6, <2>7 DEF Covered
    <2> QED BY <2>1, <2>4, <2>5, <2>8, CoveredMoves DEF Grows
  <1>11. ASSUME NEW w \in Workers, OpenWindow(w)
         PROVE  CoverInv'
    <2>1. PICK pass \in Pass :
             /\ worker[w].pc = "write" /\ worker[w].left = {}
             /\ worker' = [worker EXCEPT ![w] = pass]
             /\ pass.pc = "evaluate" /\ pass.left = {} /\ pass.asOf = worker[w].asOf
             /\ pass.calm = worker[w].calm
             /\ UNCHANGED <<revision, verdicts>>
      BY <1>11, OpenWindowMoves DEF tables
    <2>2. Covered(worker[w])
      BY DEF CoverInv
    <2>3. Covered(pass)
      BY <2>1, <2>2 DEF Covered
    <2> QED BY <1>3, <2>1, <2>3
  <1>12. ASSUME NEW w \in Workers, EvaluateSlice(w)
         PROVE  CoverInv'
    <2>1. PICK pass \in Pass :
             /\ worker[w].pc = "evaluate"
             /\ worker' = [Unread EXCEPT ![w] = pass]
             /\ pass.pc = "evaluate" /\ pass.asOf = worker[w].asOf
             /\ pass.calm = worker[w].calm /\ pass.left = worker[w].left
             /\ UNCHANGED <<revision, verdicts>>
      BY <1>12, EvaluateSliceMoves
    <2>2. Covered(pass)
      BY <2>1 DEF CoverInv, Covered
    <2>3. Covered(pass)'
      BY <2>1, <2>2, CoveredSame
    <2>4. Grows
      BY <2>1 DEF Grows, HasRows, Readable, Documents
    <2> QED BY <1>1, <2>1, <2>3, <2>4, CoveredMoves
  <1>13. ASSUME NEW w \in Workers, Finish(w) \/ Crash(w)
         PROVE  CoverInv'
    <2>1. /\ worker' = [worker EXCEPT ![w] = [pc |-> "idle"]] /\ [pc |-> "idle"] \in Idle
          /\ UNCHANGED <<revision, verdicts>>
      BY <1>13, EndMoves DEF tables
    <2>2. Covered([pc |-> "idle"])
      BY DEF Covered
    <2> QED BY <1>3, <2>1, <2>2
  <1>14. CASE UNCHANGED vars
    <2>1. UNCHANGED <<revision, verdicts>> /\ worker' = worker
      BY <1>14 DEF vars, tables
    <2>2. ASSUME NEW v \in Workers
          PROVE  Covered(worker[v])'
      <3> PICK p : p = worker[v]
        OBVIOUS
      <3>1. Covered(p)'
        BY <2>1, CoveredSame DEF Covered, CoverInv
      <3> QED BY <2>1, <3>1 DEF Covered
    <2> QED BY <1>1, <2>1, <2>2 DEF CoverInv
  <1> QED BY <1>4, <1>5, <1>6, <1>7, <1>8, <1>9, <1>10, <1>11, <1>12, <1>13, <1>14
          DEF Next, Work

(* Of two runs of a date that have rows the readers keep one that is later *)
(* than the other.                                                         *)
LEMMA ReadersKeepTheLatest ==
    ASSUME NEW last, NEW r \in AdoptedVerdictRuns(1, last),
           NEW q \in Runs, HasRows(q), DateOf[q] \in 1..last, DateOf[q] = DateOf[r], q # r
    PROVE  LaterRun(r, q)
  <1> DEFINE S == VerdictRowsIn(1, last)
             dated == {<<row.asOf, row.run>> : row \in S}
             contested == {d \in {p[1] : p \in dated} :
                              Cardinality({p \in dated : p[1] = d}) > 1}
             d == DateOf[r]
             ofDate == {p \in dated : p[1] = d}
  <1>1. \A row \in S : row.run \in Runs /\ row.asOf = DateOf[row.run]
    BY DEF VerdictRowsIn
  <1>2. PICK row \in KeepAdoptedRows(S) : row.run = r
    BY DEF AdoptedVerdictRuns
  <1>3. row \in S /\ r \in Runs /\ row.asOf = d
    BY <1>1, <1>2 DEF KeepAdoptedRows
  <1>4. <<d, r>> \in dated /\ <<d, q>> \in dated
    <2>1. [run |-> q, asOf |-> DateOf[q]] \in S
      BY DEF VerdictRowsIn, HasRows
    <2> HIDE DEF S
    <2>2. <<row.asOf, row.run>> \in dated
      BY <1>3
    <2>3. <<DateOf[q], q>> \in dated
      BY <2>1
    <2> QED BY <1>2, <1>3, <2>2, <2>3
  <1>5. \A p \in dated : p[1] = DateOf[p[2]] /\ p \in (1..LastDate) \X Runs
    <2> SUFFICES ASSUME NEW a \in S
                 PROVE  /\ a.asOf = DateOf[a.run]
                        /\ a.asOf \in 1..LastDate /\ a.run \in Runs
      OBVIOUS
    <2> HIDE DEF S
    <2> QED BY <1>1, ArchiveAssumption
  <1>6. d \in contested
    <2>1. IsFiniteSet(ofDate)
      <3>1. IsFiniteSet((1..LastDate) \X Runs)
        <4>1. IsFiniteSet(1..LastDate) /\ IsFiniteSet(Runs)
          BY FS_Interval, ArchiveAssumption
        <4> QED BY <4>1, FS_Product
      <3>2. ofDate \subseteq (1..LastDate) \X Runs
        BY <1>5
      <3> HIDE DEF ofDate
      <3> QED BY <3>1, <3>2, FS_Subset
    <2>2. <<d, r>> \in ofDate /\ <<d, q>> \in ofDate /\ <<d, r>> # <<d, q>>
      BY <1>4
    <2> HIDE DEF dated, d
    <2>3. Cardinality(ofDate) > 1
      <3> HIDE DEF ofDate
      <3>1. Cardinality(ofDate) \in Nat /\ Cardinality(ofDate) # 0
        BY <2>1, <2>2, FS_CardinalityType, FS_EmptySet
      <3>2. Cardinality(ofDate) # 1
        BY <2>1, <2>2, FS_Singleton
      <3> QED BY <3>1, <3>2
    <2>4. d \in {p[1] : p \in dated}
      BY <2>2
    <2> QED BY <2>3, <2>4
  <1> DEFINE decided == {p \in dated : p[1] \in contested}
  <1>7. r \in AdoptOneRunPerDate(decided)
    <2>1. row \in {a \in S : a.asOf \in contested => a.run \in AdoptOneRunPerDate(decided)}
      BY <1>2 DEF KeepAdoptedRows
    <2> HIDE DEF contested, decided, S
    <2> QED BY <1>2, <1>3, <1>6, <2>1
  <1>8. PICK c \in decided : /\ c[2] = r
                             /\ \A e \in decided : e[1] = c[1] /\ e[2] # c[2] => LaterRun(c[2], e[2])
    <2> HIDE DEF decided
    <2> QED BY <1>7 DEF AdoptOneRunPerDate
  <1>9. c[1] = d /\ <<d, q>> \in decided
    <2> HIDE DEF dated, contested
    <2> QED BY <1>4, <1>5, <1>6, <1>8
  <1> HIDE DEF decided, d
  <1> QED BY <1>8, <1>9

(* In a pass that nothing disturbed the readers represent no date by a run *)
(* that `collect` would not adopt, whatever crashed before it: if          *)
(* corrections never break documents that could be parsed and no run ends  *)
(* without a verdict.                                                      *)
THEOREM DatesHaveOneRun ==
    ASSUME StaysReadable, EveryRunHasVerdicts
    PROVE  Spec => []ReadersFollowCollect
  <1>1. ArchiveShape /\ CoverInv => ReadersFollowCollect
    <2> SUFFICES ASSUME ArchiveShape, CoverInv, NEW w \in Workers,
                        worker[w].pc = "evaluate", worker[w].calm,
                        NEW r \in AdoptedVerdictRuns(1, worker[w].asOf)
                 PROVE  r \in Collectable(worker[w].asOf)
      BY DEF ReadersFollowCollect
    <2> DEFINE last == worker[w].asOf
               S == {q \in Runs : Readable(q) /\ DateOf[q] = DateOf[r]}
    <2>1. r \in Runs /\ HasRows(r) /\ DateOf[r] \in 1..last
      <3>1. PICK row \in KeepAdoptedRows(VerdictRowsIn(1, last)) : row.run = r
        BY DEF AdoptedVerdictRuns
      <3>2. row \in VerdictRowsIn(1, last)
        BY <3>1 DEF KeepAdoptedRows
      <3> QED BY <3>1, <3>2 DEF VerdictRowsIn, HasRows
    <2>2. last \in Int /\ DateOf[r] \in Nat /\ Readable(r)
      <3>1. worker[w] \in Pass
        BY DEF ArchiveShape, Idle
      <3> QED BY <2>1, <3>1, ArchiveAssumption DEF Pass, CoverInv
    <2>3. PICK t \in S : \A q \in S : q # t => LaterRun(t, q)
      <3>1. r \in S /\ S \subseteq Runs
        BY <2>1, <2>2
      <3> HIDE DEF S
      <3> QED BY <3>1, LatestRun
    <2>4. t \in Runs /\ Represents(t) /\ DateOf[t] = DateOf[r]
      BY <2>3 DEF Represents
    <2>5. HasRows(t)
      <3>1. DateOf[t] <= last
        BY <2>1, <2>2, <2>4
      <3> QED BY <2>4, <3>1 DEF CoverInv, Covered
    <2>6. t = r
      <3> SUFFICES ASSUME t # r
                   PROVE  FALSE
        OBVIOUS
      <3>1. LaterRun(r, t)
        BY <2>1, <2>4, <2>5, ReadersKeepTheLatest
      <3>2. LaterRun(t, r)
        BY <2>1, <2>2, <2>3
      <3>3. r \in Nat /\ t \in Nat /\ StartedAt[r] \in Nat /\ StartedAt[t] \in Nat
        BY <2>1, <2>4, ArchiveAssumption
      <3> QED BY <3>1, <3>2, <3>3 DEF LaterRun
    <2> DEFINE readable == {<<DateOf[q], q>> : q \in {k \in Runs : DateOf[k] <= last /\ Documents(k).readable}}
    <2>7. /\ <<DateOf[r], r>> \in readable
          /\ \A e \in readable : e[1] = DateOf[r] /\ e[2] # r => LaterRun(r, e[2])
      BY <2>1, <2>2, <2>4, <2>6 DEF Readable, Represents
    <2>8. r \in AdoptOneRunPerDate(readable)
      <3> HIDE DEF readable
      <3> QED BY <2>7 DEF AdoptOneRunPerDate
    <2> QED BY <2>8 DEF Collectable
  <1>2. Init => CoverInv
    <2> SUFFICES ASSUME Init
                 PROVE  CoverInv
      OBVIOUS
    <2>1. ASSUME NEW r \in Runs, HasRows(r)
          PROVE  Readable(r)
      <3>1. r \in Legacy /\ DOMAIN Content[r][1].recommended # {} /\ Content[r] # <<>>
        BY <2>1, EmptyRows, DocumentAssumption DEF Init, HasRows
      <3>2. 1 \in DOMAIN Content[r] /\ revision[r] = 1
        BY <3>1, DocumentAssumption DEF Init
      <3> QED BY <3>1, <3>2, DocumentAssumption DEF Readable, Documents
    <2>2. \A w \in Workers : Covered(worker[w])
      BY DEF Init, Covered
    <2> QED BY <2>1, <2>2 DEF CoverInv
  <1>3. ArchiveShape /\ ScanInv /\ DigestInv /\ CoverInv /\ ArchiveShape' /\ [Next]_vars
           => CoverInv'
    BY CoverStep
  <1> QED BY <1>1, <1>2, <1>3, ArchiveInvariant, PTL DEF Spec
=============================================================================
