------------------------ MODULE KnowledgeIndexProofs ------------------------
(***************************************************************************)
(* Proofs about KnowledgeIndex, for any number of versions, requests,      *)
(* readers and embedding models.  The inductive invariant adds to the      *)
(* properties that what is published was recorded as served (ArticleFacts),*)
(* that a run past its check works on a version that was served and knows  *)
(* what it found there (RunFacts), and when a reader has a hit.            *)
(***************************************************************************)
EXTENDS KnowledgeIndex, TLAPS

\* The points of a run that has claimed its version.
InRun == {"prepare", "embed", "recheck", "replace", "fail"}

ArticleFacts ==
    /\ CurrentIsNewest
    /\ served \subseteq 1 .. newest
    /\ status = "published" => current \in served

\* The version a request works on; and while its claim stands, nobody else
\* changes the status it found.
RunFacts ==
    \A r \in Requests :
        /\ pc[r] = "insert" => target[r] \in Versions
        /\ pc[r] \in {"publish", "check"} => target[r] \in 1 .. newest
        /\ pc[r] \in InRun \cup {"claim"} => target[r] \in served
        /\ (pc[r] \in InRun /\ ixOwner[target[r]] = r)
               => (had[r] <=> ixStatus[target[r]] = "indexed")

ReaderFacts ==
    /\ VectorsComparable
    /\ \A q \in Readers : qpc[q] # "lexical" => hit[q] = NoModel

IInv ==
    /\ TypeOK
    /\ ArticleFacts
    /\ IndexHonest
    /\ RunFacts
    /\ ReaderFacts

ArticleTypes ==
    /\ status \in ArticleStatus
    /\ newest \in Versions
    /\ current \in 1 .. newest
    /\ served \subseteq Versions

IndexTypes ==
    /\ ixStatus \in [Versions -> IndexStatus]
    /\ ixOwner \in [Versions -> Requests \cup {Nobody}]
    /\ ixLive \in [Versions -> BOOLEAN]
    /\ ixModel \in [Versions -> Models \cup {NoModel}]
    /\ chunks \in [Versions -> Models \cup {NoModel}]

RequestTypes ==
    /\ pc \in [Requests -> RequestPoint]
    /\ seen \in [Requests -> ArticleStatus]
    /\ target \in [Requests -> 0 .. MaxVersion]
    /\ had \in [Requests -> BOOLEAN]

ReaderTypes ==
    /\ qpc \in [Readers -> {"idle", "vector", "lexical"}]
    /\ qmodel \in [Readers -> Models \cup {NoModel}]
    /\ hit \in [Readers -> Models \cup {NoModel}]

LEMMA TypesTogether ==
    TypeOK <=> /\ ArticleTypes /\ IndexTypes /\ IndexShape
               /\ RequestTypes /\ ReaderTypes
BY DEF TypeOK, ArticleTypes, IndexTypes, RequestTypes, ReaderTypes

LEMMA TypesTogetherNext ==
    TypeOK' <=> /\ ArticleTypes' /\ IndexTypes' /\ IndexShape'
                /\ RequestTypes' /\ ReaderTypes'
BY DEF TypeOK, ArticleTypes, IndexTypes, RequestTypes, ReaderTypes

-----------------------------------------------------------------------------
(* What is left alone keeps its facts.                                     *)

LEMMA ArticleKept ==
    ArticleTypes /\ ArticleFacts /\ UNCHANGED articleRow
    => ArticleTypes' /\ ArticleFacts'
BY DEF ArticleTypes, ArticleFacts, CurrentIsNewest, articleRow

LEMMA RowKept == UNCHANGED articleVars => UNCHANGED articleRow
BY DEF articleVars, articleRow

LEMMA IndexKept ==
    IndexTypes /\ IndexHonest /\ UNCHANGED indexVars
    => IndexTypes' /\ IndexHonest'
BY DEF IndexTypes, IndexHonest, indexVars

LEMMA RangeShrinks ==
    ASSUME NEW a \in Nat, NEW b \in Nat, a <= b, NEW m \in Nat,
           NEW v \in (b + 1) .. m
    PROVE  v \in (a + 1) .. m
OBVIOUS

\* The shape also holds when more versions exist.
LEMMA ShapeKept ==
    ASSUME KnowledgeAssumption, IndexShape, newest \in Versions,
           newest' \in Versions, newest <= newest', UNCHANGED indexVars
    PROVE  IndexShape'
<1>1. UNCHANGED <<ixStatus, ixOwner, ixLive>>
  BY DEF indexVars
<1>2. newest \in Nat /\ newest' \in Nat /\ MaxVersion \in Nat
  BY DEF Versions, KnowledgeAssumption
<1>3. ASSUME NEW v \in (newest' + 1) .. MaxVersion
      PROVE  v \in (newest + 1) .. MaxVersion
  BY <1>2, RangeShrinks
<1> QED BY <1>1, <1>3 DEF IndexShape

LEMMA ReaderKept ==
    ReaderTypes /\ ReaderFacts /\ UNCHANGED readerVars
    => ReaderTypes' /\ ReaderFacts'
BY DEF ReaderTypes, ReaderFacts, VectorsComparable, readerVars

\* A step that only moves a request.
LEMMA RequestMoves ==
    ASSUME KnowledgeAssumption, IInv, RequestTypes', RunFacts',
           UNCHANGED <<articleRow, indexVars, readerVars>>
    PROVE  IInv'
<1>1. /\ ArticleTypes' /\ ArticleFacts' /\ IndexTypes' /\ IndexHonest'
      /\ ReaderTypes' /\ ReaderFacts'
  BY TypesTogether, ArticleKept, IndexKept, ReaderKept DEF IInv
<1>2. IndexShape'
  <2>1. newest \in Versions /\ newest' = newest /\ IndexShape
    BY DEF IInv, TypeOK, articleRow
  <2> QED BY <2>1, ShapeKept DEF Versions
<1> QED BY <1>1, <1>2, TypesTogetherNext DEF IInv

LEMMA RequestOnly ==
    ASSUME KnowledgeAssumption, IInv, RequestTypes', RunFacts',
           UNCHANGED <<articleVars, indexVars, readerVars>>
    PROVE  IInv'
BY RequestMoves, RowKept

-----------------------------------------------------------------------------
(* Steps of a request on the article.                                      *)

\* A request that ends, or goes on without another target, asserts nothing
\* new, whatever the article gains meanwhile.
LEMMA DoneKeeps ==
    ASSUME KnowledgeAssumption, RequestTypes, RunFacts,
           NEW r \in Requests, Done(r),
           ixStatus' = ixStatus, ixOwner' = ixOwner,
           newest \in Nat, newest' \in Nat, newest <= newest',
           served \subseteq served'
    PROVE  RequestTypes' /\ RunFacts'
<1>1. RequestTypes'
  <2>1. 0 \in 0 .. MaxVersion
    BY DEF KnowledgeAssumption
  <2> QED BY <2>1 DEF RequestTypes, Done, RequestPoint, RunPoint, ArticleStatus
<1>2. RunFacts'
  BY DEF RequestTypes, RunFacts, Done, InRun
<1> QED BY <1>1, <1>2

LEMMA ReadKeeps ==
    ASSUME KnowledgeAssumption, IInv, NEW r \in Requests,
           \/ BeginPublish(r)
           \/ BeginArchive(r)
           \/ BeginEdit(r)
           \/ BeginReindex(r)
    PROVE  IInv'
<1>1. PICK point \in {"publish", "archive", "number", "check"},
           st \in ArticleStatus, v \in 0 .. MaxVersion :
          /\ Read(r, point, st, v)
          /\ point \in {"publish", "check"} => v = current
  BY DEF BeginPublish, BeginArchive, BeginEdit, BeginReindex, IInv, TypeOK,
         ArticleStatus, Versions, KnowledgeAssumption
<1> USE <1>1 DEF Read
<1>2. RequestTypes'
  BY DEF IInv, TypeOK, RequestTypes, RequestPoint, RunPoint
<1>3. RunFacts'
  BY DEF IInv, TypeOK, RunFacts, InRun, articleRow, indexVars
<1> QED BY <1>2, <1>3, RequestMoves

LEMMA NumberKeeps ==
    ASSUME KnowledgeAssumption, IInv, NEW r \in Requests, Number(r)
    PROVE  IInv'
<1> USE DEF Number
<1>1. newest + 1 \in Versions
  BY DEF IInv, TypeOK, Versions, KnowledgeAssumption
<1>2. RequestTypes'
  BY <1>1 DEF IInv, TypeOK, RequestTypes, RequestPoint, RunPoint, Versions
<1>3. RunFacts'
  BY <1>1 DEF IInv, TypeOK, RunFacts, InRun, articleVars, indexVars
<1> QED BY <1>2, <1>3, RequestOnly

LEMMA EndsKeeps ==
    ASSUME KnowledgeAssumption, IInv, NEW r \in Requests,
           NumberTaken(r) \/ Lose(r)
    PROVE  IInv'
<1>1. Done(r) /\ UNCHANGED <<articleRow, indexVars, readerVars>>
  BY RowKept DEF NumberTaken, Lose
<1>2. newest \in Nat
  BY DEF IInv, TypeOK, Versions
<1>3. RequestTypes' /\ RunFacts'
  BY <1>1, <1>2, DoneKeeps, TypesTogether DEF IInv, articleRow, indexVars
<1> QED BY <1>1, <1>3, RequestMoves

\* What a request does after its commit: nothing more, or an index run for a
\* version that exists.
LEMMA AfterCommitKeeps ==
    ASSUME KnowledgeAssumption, RequestTypes, RunFacts,
           NEW r \in Requests, NEW st, NEW v \in 0 .. MaxVersion, IndexAfterCommit(r, st, v),
           ixStatus' = ixStatus, ixOwner' = ixOwner,
           newest \in Nat, newest' \in Nat, newest <= newest',
           v \in 1 .. newest', served \subseteq served'
    PROVE  RequestTypes' /\ RunFacts'
<1>1. CASE st = "published"
  <2>1. /\ pc' = [pc EXCEPT ![r] = "check"]
        /\ seen' = [seen EXCEPT ![r] = "draft"]
        /\ target' = [target EXCEPT ![r] = v]
        /\ had' = had
    BY <1>1 DEF IndexAfterCommit
  <2>2. RequestTypes'
    BY <2>1 DEF RequestTypes, RequestPoint, RunPoint, ArticleStatus
  <2>3. RunFacts'
    BY <2>1 DEF RequestTypes, RunFacts, InRun
  <2> QED BY <2>2, <2>3
<1>2. CASE st # "published"
  BY <1>2, DoneKeeps DEF IndexAfterCommit
<1> QED BY <1>1, <1>2

\* A step that changes the article and moves a request.
LEMMA ArticleAndRequest ==
    ASSUME KnowledgeAssumption, IInv, ArticleTypes', ArticleFacts',
           RequestTypes', RunFacts', newest <= newest',
           UNCHANGED <<indexVars, readerVars>>
    PROVE  IInv'
<1>1. IndexTypes' /\ IndexHonest' /\ ReaderTypes' /\ ReaderFacts'
  BY TypesTogether, IndexKept, ReaderKept DEF IInv
<1>2. IndexShape'
  <2>1. newest \in Versions /\ newest' \in Versions /\ IndexShape
    BY DEF IInv, TypeOK, ArticleTypes
  <2> QED BY <2>1, ShapeKept
<1> QED BY <1>1, <1>2, TypesTogetherNext DEF IInv

LEMMA PublishKeeps ==
    ASSUME KnowledgeAssumption, IInv, NEW r \in Requests, Publish(r)
    PROVE  IInv'
<1> USE DEF Publish
<1>1. newest \in Nat /\ newest' = newest /\ target[r] \in 0 .. MaxVersion
  BY DEF IInv, TypeOK, Versions
<1>2. target[r] \in 1 .. newest'
  BY <1>1 DEF IInv, RunFacts
<1>3. ArticleTypes' /\ ArticleFacts'
  BY DEF IInv, TypeOK, ArticleTypes, ArticleFacts, CurrentIsNewest,
         ArticleStatus, Versions
<1>4. RequestTypes' /\ RunFacts'
  BY <1>1, <1>2, AfterCommitKeeps, TypesTogether DEF IInv, indexVars
<1> QED BY <1>1, <1>3, <1>4, ArticleAndRequest

LEMMA ArchiveKeeps ==
    ASSUME KnowledgeAssumption, IInv, NEW r \in Requests, Archive(r)
    PROVE  IInv'
<1> USE DEF Archive
<1>1. newest \in Nat /\ newest' = newest
  BY DEF IInv, TypeOK, Versions
<1>2. ArticleTypes' /\ ArticleFacts'
  BY DEF IInv, TypeOK, ArticleTypes, ArticleFacts, CurrentIsNewest,
         ArticleStatus
<1>3. RequestTypes' /\ RunFacts'
  BY <1>1, DoneKeeps, TypesTogether DEF IInv, indexVars
<1> QED BY <1>1, <1>2, <1>3, ArticleAndRequest

\* The unique constraint is what makes the new version the newest.
LEMMA CommitVersionKeeps ==
    ASSUME KnowledgeAssumption, IInv, NEW r \in Requests, CommitVersion(r)
    PROVE  IInv'
<1> USE DEF CommitVersion, Insertable
<1>1. /\ newest \in Nat /\ target[r] \in Versions /\ newest' = target[r]
      /\ target[r] \in Nat /\ newest <= newest' /\ target[r] \in 0 .. MaxVersion
  BY DEF IInv, TypeOK, RunFacts, Versions
<1>2. /\ current' = newest' /\ newest' \in 1 .. newest'
      /\ served' = served \/ served' = served \cup {newest'}
  BY <1>1 DEF Versions
<1>3. ArticleTypes'
  BY <1>1, <1>2 DEF IInv, TypeOK, ArticleTypes
<1>4. ArticleFacts'
  <2>1. ASSUME NEW v \in served'
        PROVE  v \in 1 .. newest'
    <3>1. v \in 1 .. newest \/ v = newest'
      BY <1>2 DEF IInv, ArticleFacts
    <3> QED BY <1>1, <1>2, <3>1
  <2>2. status' = "published" => current' \in served'
    BY <1>1, <1>2
  <2> QED BY <1>2, <2>1, <2>2 DEF ArticleFacts, CurrentIsNewest
<1>5. RequestTypes' /\ RunFacts'
  <2>1. target[r] \in 1 .. newest' /\ served \subseteq served'
    BY <1>1, <1>2
  <2> QED BY <1>1, <2>1, AfterCommitKeeps, TypesTogether DEF IInv, indexVars
<1> QED BY <1>1, <1>3, <1>4, <1>5, ArticleAndRequest

-----------------------------------------------------------------------------
(* Steps of the indexer.                                                   *)

LEMMA CheckKeeps ==
    ASSUME KnowledgeAssumption, IInv, NEW r \in Requests, Check(r)
    PROVE  IInv'
<1> USE DEF Check
<1>1. CASE StillPublished(r)
  <2>1. Goto(r, "claim")
    BY <1>1
  <2>2. target[r] \in served
    BY <1>1 DEF StillPublished, IInv, ArticleFacts
  <2>3. RequestTypes'
    BY <2>1 DEF IInv, TypeOK, RequestTypes, RequestPoint, RunPoint, Goto
  <2>4. RunFacts'
    BY <2>1, <2>2 DEF IInv, TypeOK, RunFacts, InRun, Goto, articleVars, indexVars
  <2> QED BY <2>3, <2>4, RequestOnly
<1>2. CASE ~StillPublished(r)
  <2>1. newest \in Nat
    BY DEF IInv, TypeOK, Versions
  <2>2. RequestTypes' /\ RunFacts'
    BY <1>2, <2>1, DoneKeeps, TypesTogether DEF IInv, articleVars, indexVars
  <2> QED BY <2>2, RequestOnly
<1> QED BY <1>1, <1>2

\* From one point of the run to another.
LEMMA GotoKeeps ==
    ASSUME IInv, NEW r \in Requests, pc[r] \in InRun,
           NEW point \in InRun, Goto(r, point),
           UNCHANGED <<articleVars, indexVars>>
    PROVE  RequestTypes' /\ RunFacts'
<1>1. RequestTypes'
  BY DEF IInv, TypeOK, RequestTypes, RequestPoint, RunPoint, Goto, InRun
<1>2. RunFacts'
  BY DEF IInv, TypeOK, RunFacts, InRun, Goto, articleVars, indexVars
<1> QED BY <1>1, <1>2

LEMMA RunKeeps ==
    ASSUME KnowledgeAssumption, IInv, NEW r \in Requests,
           Prepare(r) \/ Embed(r) \/ Recheck(r) \/ Raise(r)
    PROVE  IInv'
<1>1. /\ pc[r] \in InRun
      /\ \E point \in InRun : Goto(r, point)
      /\ UNCHANGED <<articleVars, indexVars, readerVars>>
  BY DEF Prepare, Embed, Recheck, Raise, InRun
<1> QED BY <1>1, GotoKeeps, RequestOnly

\* A step that changes the index and perhaps moves a request.
LEMMA IndexAndRequest ==
    ASSUME KnowledgeAssumption, IInv, IndexTypes', IndexShape', IndexHonest',
           RequestTypes', RunFacts', UNCHANGED <<articleVars, readerVars>>
    PROVE  IInv'
<1>1. ArticleTypes' /\ ArticleFacts' /\ ReaderTypes' /\ ReaderFacts'
  BY TypesTogether, ArticleKept, RowKept, ReaderKept DEF IInv
<1> QED BY <1>1, TypesTogetherNext DEF IInv

\* A version that a run claims is a version, and is not newer than newest.
LEMMA TargetExists ==
    ASSUME IInv, NEW r \in Requests, pc[r] \in InRun \cup {"claim"}
    PROVE  /\ target[r] \in Versions
           /\ target[r] \notin (newest + 1) .. MaxVersion
BY DEF IInv, TypeOK, ArticleFacts, RunFacts, Versions

LEMMA ClaimKeeps ==
    ASSUME KnowledgeAssumption, IInv, NEW r \in Requests, Claim(r)
    PROVE  IInv'
<1> DEFINE v == target[r]
<1> USE DEF Claim
<1>1. v \in Versions /\ v \notin (newest + 1) .. MaxVersion
  BY TargetExists
<1>2. UNCHANGED <<ixModel, chunks, articleVars, readerVars>>
  OBVIOUS
<1>3. CASE ixOwner[v] = Nobody \/ ~ixLive[v]
  <2>1. /\ ixStatus' = [ixStatus EXCEPT ![v] = ClaimStatus(v)]
        /\ ixOwner' = [ixOwner EXCEPT ![v] = r]
        /\ ixLive' = [ixLive EXCEPT ![v] = TRUE]
        /\ had' = [had EXCEPT ![r] = ixStatus[v] = "indexed"]
        /\ pc' = [pc EXCEPT ![r] = "prepare"]
        /\ UNCHANGED <<seen, target>>
    BY <1>3
  <2>2. IndexTypes'
    BY <1>1, <1>2, <2>1 DEF IInv, TypeOK, IndexTypes, ClaimStatus, IndexStatus
  <2>3. IndexShape'
    BY <1>1, <1>2, <2>1
       DEF IInv, TypeOK, IndexShape, KnowledgeAssumption, articleVars, Versions
  <2>4. IndexHonest'
    BY <1>1, <1>2, <2>1 DEF IInv, TypeOK, IndexHonest, ClaimStatus
  <2>5. RequestTypes'
    BY <1>1, <2>1 DEF IInv, TypeOK, RequestTypes, RequestPoint, RunPoint
  <2>6. RunFacts'
    <3> SUFFICES ASSUME NEW s \in Requests
                 PROVE  /\ pc'[s] = "insert" => target'[s] \in Versions
                        /\ pc'[s] \in {"publish", "check"}
                              => target'[s] \in 1 .. newest'
                        /\ pc'[s] \in InRun \cup {"claim"} => target'[s] \in served'
                        /\ (pc'[s] \in InRun /\ ixOwner'[target'[s]] = s)
                              => (had'[s] <=> ixStatus'[target'[s]] = "indexed")
      BY DEF RunFacts
    <3>1. CASE s = r
      BY <1>1, <1>2, <2>1, <3>1
         DEF IInv, TypeOK, RunFacts, InRun, ClaimStatus, articleVars
    <3>2. CASE s # r
      BY <1>1, <1>2, <2>1, <3>2
         DEF IInv, TypeOK, RunFacts, InRun, articleVars
    <3> QED BY <3>1, <3>2
  <2> QED BY <1>2, <2>2, <2>3, <2>4, <2>5, <2>6, IndexAndRequest
<1>4. CASE ~(ixOwner[v] = Nobody \/ ~ixLive[v])
  <2>1. Done(r) /\ UNCHANGED indexVars
    BY <1>4 DEF indexVars
  <2>2. newest \in Nat
    BY DEF IInv, TypeOK, Versions
  <2>3. RequestTypes' /\ RunFacts'
    BY <1>2, <2>1, <2>2, DoneKeeps, TypesTogether DEF IInv, articleVars, indexVars
  <2> QED BY <1>2, <2>1, <2>3, RequestOnly
<1> QED BY <1>3, <1>4

\* The index is made whole in one step, and the claim goes with it.
LEMMA ReplaceKeeps ==
    ASSUME KnowledgeAssumption, IInv, NEW r \in Requests, Replace(r)
    PROVE  IInv'
<1> DEFINE v == target[r]
<1> USE DEF Replace
<1>1. /\ v \in Versions /\ v \notin (newest + 1) .. MaxVersion
      /\ pc[r] \in InRun
  BY TargetExists DEF InRun
<1>2. UNCHANGED <<articleVars, readerVars>>
  OBVIOUS
<1>3. CASE Holds(r)
  <2>1. PICK m \in Models :
            /\ chunks' = [chunks EXCEPT ![v] = m]
            /\ ixStatus' = [ixStatus EXCEPT ![v] = "indexed"]
            /\ ixModel' = [ixModel EXCEPT ![v] = m]
            /\ ixOwner' = [ixOwner EXCEPT ![v] = Nobody]
            /\ ixLive' = [ixLive EXCEPT ![v] = FALSE]
    BY <1>3 DEF Mark, Release
  <2>2. Done(r)
    BY <1>3
  <2>3. IndexTypes'
    BY <1>1, <2>1 DEF IInv, TypeOK, IndexTypes, IndexStatus
  <2>4. IndexShape'
    BY <1>1, <1>2, <2>1 DEF IInv, TypeOK, IndexShape, articleVars
  <2>5. IndexHonest'
    BY <1>1, <2>1 DEF IInv, TypeOK, IndexHonest, KnowledgeAssumption
  <2>6. RequestTypes'
    BY <2>2 DEF IInv, TypeOK, RequestTypes, RequestPoint, RunPoint, Done, ArticleStatus,
                Versions
  <2>7. RunFacts'
    BY <1>1, <1>2, <1>3, <2>1, <2>2
       DEF IInv, TypeOK, RunFacts, InRun, Done, Holds, articleVars,
           KnowledgeAssumption
  <2> QED BY <1>2, <2>3, <2>4, <2>5, <2>6, <2>7, IndexAndRequest
<1>4. CASE ~Holds(r)
  <2>1. Goto(r, "fail") /\ UNCHANGED indexVars /\ "fail" \in InRun
    BY <1>4 DEF InRun
  <2>2. RequestTypes' /\ RunFacts'
    BY <1>1, <1>2, <2>1, GotoKeeps
  <2> QED BY <1>2, <2>1, <2>2, RequestOnly
<1> QED BY <1>3, <1>4

\* A failed refresh returns to the index it found; RunFacts says that the
\* status was "indexed" all the time.
LEMMA FailureRestores ==
    ASSUME IInv, NEW r \in Requests, RecordFailure(r), MayRecord(r)
    PROVE  /\ ixStatus' = [ixStatus EXCEPT ![target[r]] =
                              IF ixStatus[target[r]] = "indexed" THEN "indexed"
                              ELSE "failed"]
           /\ ixOwner' = [ixOwner EXCEPT ![target[r]] = Nobody]
           /\ ixLive' = [ixLive EXCEPT ![target[r]] = FALSE]
<1>1. had[r] <=> ixStatus[target[r]] = "indexed"
  BY DEF RecordFailure, MayRecord, IInv, RunFacts, InRun
<1> QED BY <1>1 DEF RecordFailure, Release

LEMMA RecordFailureKeeps ==
    ASSUME KnowledgeAssumption, IInv, NEW r \in Requests, RecordFailure(r)
    PROVE  IInv'
<1> DEFINE v == target[r]
<1>1. /\ v \in Versions /\ v \notin (newest + 1) .. MaxVersion
      /\ pc[r] \in InRun
  BY TargetExists DEF RecordFailure, InRun
<1>2. /\ UNCHANGED <<ixModel, chunks, articleVars, readerVars>>
      /\ Done(r)
  BY DEF RecordFailure
<1>3. RequestTypes'
  BY <1>2 DEF IInv, TypeOK, RequestTypes, RequestPoint, RunPoint, Done, ArticleStatus,
              Versions
<1>4. CASE MayRecord(r)
  <2>1. /\ ixStatus' = [ixStatus EXCEPT ![v] = IF ixStatus[v] = "indexed"
                                               THEN "indexed" ELSE "failed"]
        /\ ixOwner' = [ixOwner EXCEPT ![v] = Nobody]
        /\ ixLive' = [ixLive EXCEPT ![v] = FALSE]
    BY <1>4, FailureRestores
  <2>2. IndexTypes'
    BY <1>1, <1>2, <2>1 DEF IInv, TypeOK, IndexTypes, IndexStatus
  <2>3. IndexShape'
    BY <1>1, <1>2, <2>1 DEF IInv, TypeOK, IndexShape, articleVars
  <2>4. IndexHonest'
    BY <1>1, <1>2, <2>1 DEF IInv, TypeOK, IndexHonest
  <2>5. RunFacts'
    BY <1>1, <1>2, <1>4, <2>1
       DEF IInv, TypeOK, RunFacts, InRun, Done, MayRecord, articleVars,
           KnowledgeAssumption
  <2> QED BY <1>2, <1>3, <2>2, <2>3, <2>4, <2>5, IndexAndRequest
<1>5. CASE ~MayRecord(r)
  <2>1. UNCHANGED indexVars
    BY <1>2, <1>5 DEF RecordFailure, indexVars
  <2>2. newest \in Nat
    BY DEF IInv, TypeOK, Versions
  <2>3. RunFacts'
    BY <1>2, <2>1, <2>2, DoneKeeps, TypesTogether DEF IInv, articleVars, indexVars
  <2> QED BY <1>2, <1>3, <2>1, <2>3, RequestOnly
<1> QED BY <1>4, <1>5

LEMMA LapseKeeps ==
    ASSUME KnowledgeAssumption, IInv, NEW v \in Versions, Lapse(v)
    PROVE  IInv'
<1> USE DEF Lapse
<1>1. IndexTypes'
  BY DEF IInv, TypeOK, IndexTypes
<1>2. IndexShape'
  BY DEF IInv, TypeOK, IndexShape, articleVars
<1>3. IndexHonest'
  BY DEF IInv, IndexHonest
<1>4. RequestTypes' /\ RunFacts'
  BY DEF IInv, TypeOK, RequestTypes, RunFacts, requestVars, articleVars
<1> QED BY <1>1, <1>2, <1>3, <1>4, IndexAndRequest

-----------------------------------------------------------------------------
(* Steps of a reader.                                                      *)

LEMMA CurrentExists ==
    ASSUME IInv
    PROVE  current \in Versions
BY DEF IInv, TypeOK, ArticleFacts, CurrentIsNewest

LEMMA ReaderKeeps ==
    ASSUME KnowledgeAssumption, IInv, NEW q \in Readers, ReaderStep(q)
    PROVE  IInv'
<1>1. UNCHANGED <<articleVars, indexVars, requestVars>>
  BY DEF ReaderStep, List, VectorSearch, LexicalSearch
<1>2. ReaderTypes' /\ ReaderFacts'
  <2>1. ASSUME NEW m \in Models, List(q, m)
        PROVE  ReaderTypes' /\ ReaderFacts'
    BY <2>1 DEF List, IInv, TypeOK, ReaderTypes, ReaderFacts, VectorsComparable
  <2>2. CASE VectorSearch(q)
    <3>1. current \in Versions
      BY CurrentExists
    <3>2. Similar(q) => chunks[current] = qmodel[q]
      BY <3>1 DEF Similar, Compatible, IInv, IndexHonest
    <3>3. hit' = [hit EXCEPT ![q] = IF Similar(q) THEN qmodel[q] ELSE NoModel]
      BY <2>2, <3>2 DEF VectorSearch
    <3> QED BY <2>2, <3>3
            DEF VectorSearch, IInv, TypeOK, ReaderTypes, ReaderFacts,
                VectorsComparable
  <2>3. CASE LexicalSearch(q)
    BY <2>3 DEF LexicalSearch, IInv, TypeOK, ReaderTypes, ReaderFacts,
                VectorsComparable
  <2> QED BY <2>1, <2>2, <2>3 DEF ReaderStep
<1>3. ArticleTypes' /\ ArticleFacts' /\ IndexTypes' /\ IndexHonest'
  BY <1>1, TypesTogether, ArticleKept, RowKept, IndexKept DEF IInv
<1>4. IndexShape'
  <2>1. newest \in Versions /\ newest' = newest /\ IndexShape
    BY <1>1 DEF IInv, TypeOK, articleVars
  <2> QED BY <1>1, <2>1, ShapeKept DEF Versions
<1>5. RequestTypes' /\ RunFacts'
  BY <1>1 DEF IInv, TypeOK, RequestTypes, RunFacts, requestVars, indexVars,
              articleVars
<1> QED BY <1>2, <1>3, <1>4, <1>5, TypesTogetherNext DEF IInv

-----------------------------------------------------------------------------
(* The invariant.                                                          *)

LEMMA InitInvariant == KnowledgeAssumption /\ Init => IInv
<1> SUFFICES ASSUME KnowledgeAssumption, Init PROVE IInv
  OBVIOUS
<1> USE DEF Init
<1>1. 1 \in Versions
  BY DEF KnowledgeAssumption, Versions
<1>2. TypeOK
  BY <1>1 DEF TypeOK, IndexShape, ArticleStatus, IndexStatus, RequestPoint, RunPoint, Versions
<1>3. ArticleFacts /\ IndexHonest
  BY DEF ArticleFacts, CurrentIsNewest, IndexHonest
<1>4. RunFacts /\ ReaderFacts
  BY DEF RunFacts, InRun, ReaderFacts, VectorsComparable
<1> QED BY <1>2, <1>3, <1>4 DEF IInv

LEMMA StutterKeeps ==
    ASSUME KnowledgeAssumption, IInv, UNCHANGED vars
    PROVE  IInv'
<1>1. UNCHANGED <<articleVars, indexVars, requestVars, readerVars>>
  BY DEF vars
<1>2. RequestTypes' /\ RunFacts'
  BY <1>1 DEF IInv, TypeOK, RequestTypes, RunFacts, requestVars, indexVars,
              articleVars
<1> QED BY <1>1, <1>2, RequestOnly

LEMMA StepInvariant == KnowledgeAssumption /\ IInv /\ [Next]_vars => IInv'
<1> SUFFICES ASSUME KnowledgeAssumption, IInv, [Next]_vars PROVE IInv'
  OBVIOUS
<1>1. ASSUME NEW r \in Requests, RequestStep(r)
      PROVE  IInv'
  BY <1>1, ReadKeeps, PublishKeeps, ArchiveKeeps, NumberKeeps,
     CommitVersionKeeps, EndsKeeps DEF RequestStep
<1>2. ASSUME NEW r \in Requests, IndexStep(r)
      PROVE  IInv'
  BY <1>2, CheckKeeps, ClaimKeeps, RunKeeps, ReplaceKeeps, RecordFailureKeeps
     DEF IndexStep
<1>3. ASSUME NEW v \in Versions, Lapse(v)
      PROVE  IInv'
  BY <1>3, LapseKeeps
<1>4. ASSUME NEW q \in Readers, ReaderStep(q)
      PROVE  IInv'
  BY <1>4, ReaderKeeps
<1>5. CASE UNCHANGED vars
  BY <1>5, StutterKeeps
<1> QED BY <1>1, <1>2, <1>3, <1>4, <1>5 DEF Next

\* The inductive invariant holds in every reachable state, for any number of
\* versions, requests, readers and models.
THEOREM KnowledgeInvariant == Spec => []IInv
BY InitInvariant, StepInvariant, KnowledgeAssumption, PTL DEF Spec

\* However many editors number versions at once, the article never points
\* back to an older version than the newest one committed.
THEOREM KnowledgeCurrentIsNewest == Spec => []CurrentIsNewest
<1>1. IInv => CurrentIsNewest
  BY DEF IInv, ArticleFacts
<1> QED BY <1>1, KnowledgeInvariant, PTL

\* The columns of a version and its chunks agree through every claim, lapse,
\* failure and lost run.
THEOREM KnowledgeIndexHonest == Spec => []IndexHonest
<1>1. IInv => IndexHonest
  BY DEF IInv
<1> QED BY <1>1, KnowledgeInvariant, PTL

\* No search compares vectors of two models, for any number of processes with
\* models of their own.
THEOREM KnowledgeVectorsComparable == Spec => []VectorsComparable
<1>1. IInv => VectorsComparable
  BY DEF IInv, ReaderFacts
<1> QED BY <1>1, KnowledgeInvariant, PTL

-----------------------------------------------------------------------------
(* Publications settle.                                                    *)

\* What a request remembers of an article that nobody has changed since.
FreshFacts(r) ==
    fresh[r] =>
        /\ pc[r] = "publish" => status = "draft" /\ target[r] = current
        /\ pc[r] \in {"number", "insert"} => status = seen[r] /\ status # "archived"

\* A claim leaves a mark, and only what was published is claimed.
Claimed(v) == ixOwner[v] # Nobody => v \in served /\ ixStatus[v] # "pending"

\* The run that has claimed the published text is at work on it, and until one
\* has, somebody is about to.
Attended ==
    /\ \A r \in Requests :
           ixOwner[current] = r => target[r] = current /\ pc[r] \in InRun
    /\ ixStatus[current] = "pending" =>
           \E r \in Requests : target[r] = current /\ pc[r] \in {"check", "claim"}

SettleInv ==
    /\ HistoryOK
    /\ \A r \in Requests : FreshFacts(r)
    /\ \A v \in Versions : Claimed(v)
    /\ status = "draft" => served = {}
    /\ status = "published" /\ ~excused => Attended

\* A step of a request r that changes neither article nor index, and that takes
\* r away from the published text only if somebody else attends to it.
LEMMA RequestSettles ==
    ASSUME KnowledgeAssumption, IInv, SettleInv, NEW r \in Requests, HistoryOK',
           UNCHANGED <<articleRow, ixStatus, ixOwner>>,
           excused' \/ ~excused,
           \A x \in Requests \ {r} : /\ pc'[x] = pc[x] /\ target'[x] = target[x]
                                     /\ seen'[x] = seen[x] /\ fresh'[x] = fresh[x],
           FreshFacts(r)',
           status = "published" /\ ~excused' =>
               /\ pc[r] \in InRun /\ target[r] = current /\ ixOwner[current] = r =>
                      pc'[r] \in InRun /\ target'[r] = target[r]
               /\ pc[r] \in {"check", "claim"} /\ target[r] = current /\ ixStatus[current] = "pending" =>
                      pc'[r] \in {"check", "claim"} /\ target'[r] = target[r]
    PROVE  SettleInv'
<1>1. \A x \in Requests : FreshFacts(x)'
  <2> SUFFICES ASSUME NEW x \in Requests \ {r} PROVE FreshFacts(x)'
    OBVIOUS
  <2> QED BY DEF SettleInv, FreshFacts, articleRow
<1>2. \A v \in Versions : Claimed(v)'
  BY DEF SettleInv, Claimed, articleRow
<1>3. (status = "published" /\ ~excused => Attended)'
  <2> SUFFICES ASSUME status' = "published", ~excused' PROVE Attended'
    OBVIOUS
  <2>1. Attended /\ status = "published" /\ current' = current
    BY DEF SettleInv, articleRow
  <2>2. ASSUME NEW x \in Requests, ixOwner[current] = x
        PROVE  target'[x] = current /\ pc'[x] \in InRun
    BY <2>1, <2>2 DEF Attended
  <2>3. ASSUME ixStatus[current] = "pending"
        PROVE  \E x \in Requests : target'[x] = current /\ pc'[x] \in {"check", "claim"}
    BY <2>1, <2>3 DEF Attended
  <2> QED BY <2>1, <2>2, <2>3 DEF Attended
<1> QED BY <1>1, <1>2, <1>3 DEF SettleInv, articleRow

LEMMA ReadSettles ==
    ASSUME KnowledgeAssumption, IInv, SettleInv, NEW r \in Requests,
           \/ BeginPublish(r)
           \/ BeginArchive(r)
           \/ BeginEdit(r)
           \/ BeginReindex(r)
    PROVE  SettleInv'
<1>1. PICK point \in {"publish", "archive", "number", "check"},
           st \in ArticleStatus, v \in 0 .. MaxVersion :
          /\ Read(r, point, st, v)
          /\ point = "publish" => v = current /\ status = "draft"
          /\ point = "number" => st = status /\ status # "archived"
  BY DEF BeginPublish, BeginArchive, BeginEdit, BeginReindex, IInv, TypeOK,
         ArticleStatus, Versions, KnowledgeAssumption
<1>2. HistoryOK'
  BY <1>1 DEF Read, SettleInv, HistoryOK
<1>3. FreshFacts(r)'
  BY <1>1 DEF Read, FreshFacts, IInv, TypeOK, articleRow
<1>4. /\ \A x \in Requests \ {r} : /\ pc'[x] = pc[x] /\ target'[x] = target[x]
                                   /\ seen'[x] = seen[x] /\ fresh'[x] = fresh[x]
      /\ UNCHANGED <<articleRow, ixStatus, ixOwner>> /\ excused' = excused
      /\ pc[r] = "idle"
  BY <1>1 DEF Read, IInv, TypeOK, SettleInv, HistoryOK, indexVars
<1> QED BY <1>2, <1>3, <1>4, RequestSettles DEF InRun

\* Requests that move on, or end, outside a run.
LEMMA NumberSettles ==
    ASSUME KnowledgeAssumption, IInv, SettleInv, NEW r \in Requests,
           Number(r) \/ NumberTaken(r)
    PROVE  SettleInv'
<1>1. /\ \A x \in Requests \ {r} : /\ pc'[x] = pc[x] /\ target'[x] = target[x]
                                   /\ seen'[x] = seen[x] /\ fresh'[x] = fresh[x]
      /\ UNCHANGED <<articleRow, ixStatus, ixOwner, fresh, excused>>
      /\ pc[r] \in {"number", "insert"}
      /\ pc'[r] = "idle" \/ (pc'[r] = "insert" /\ pc[r] = "number" /\ seen'[r] = seen[r])
  BY DEF Number, NumberTaken, Done, IInv, TypeOK, articleVars, articleRow, indexVars
<1>2. HistoryOK'
  BY <1>1 DEF SettleInv, HistoryOK
<1>3. FreshFacts(r)'
  BY <1>1 DEF SettleInv, FreshFacts, articleRow
<1> QED BY <1>1, <1>2, <1>3, RequestSettles DEF InRun

\* A lost run of the published text excuses it.
LEMMA LoseSettles ==
    ASSUME KnowledgeAssumption, IInv, SettleInv, NEW r \in Requests, Lose(r)
    PROVE  SettleInv'
<1>1. /\ \A x \in Requests \ {r} : /\ pc'[x] = pc[x] /\ target'[x] = target[x]
                                   /\ seen'[x] = seen[x] /\ fresh'[x] = fresh[x]
      /\ UNCHANGED <<articleRow, ixStatus, ixOwner>>
      /\ ~fresh'[r]
  BY DEF Lose, Done, IInv, TypeOK, SettleInv, HistoryOK, indexVars
<1>2. HistoryOK'
  BY DEF Lose, SettleInv, HistoryOK
<1>3. excused' = (excused \/ (pc[r] \in RunPoint /\ status = "published" /\ current = target[r]))
  BY DEF Lose, StillPublished
<1>4. excused' \/ ~excused
  BY <1>3 DEF SettleInv, HistoryOK
<1>5. FreshFacts(r)'
  BY <1>1 DEF FreshFacts
<1>6. status = "published" /\ ~excused' /\ pc[r] \in RunPoint => target[r] # current
  BY <1>3
<1> QED BY <1>1, <1>2, <1>4, <1>5, <1>6, RequestSettles DEF RunPoint, InRun

\* A publication that is fresh finds a draft, of which nothing was ever claimed,
\* and goes on to check the version it published.
LEMMA PublishSettles ==
    ASSUME KnowledgeAssumption, IInv, SettleInv, NEW r \in Requests, Publish(r)
    PROVE  SettleInv'
<1>1. /\ status' = "published" /\ current' = current /\ served' = served \cup {current}
      /\ UNCHANGED <<ixStatus, ixOwner>>
      /\ pc' = [pc EXCEPT ![r] = "check"] /\ target' = target
      /\ \A x \in Requests \ {r} : seen'[x] = seen[x]
      /\ excused' = (excused \/ ~fresh[r])
      /\ fresh' = IF status' = status THEN [fresh EXCEPT ![r] = FALSE]
                  ELSE [x \in Requests |-> FALSE]
      /\ pc[r] = "publish"
  BY DEF Publish, IndexAfterCommit, Overtakes, IInv, TypeOK, indexVars
<1>2. HistoryOK'
  BY <1>1 DEF SettleInv, HistoryOK
<1>3. ASSUME NEW x \in Requests PROVE FreshFacts(x)'
  <2>1. CASE x = r BY <1>1, <2>1 DEF FreshFacts, SettleInv, HistoryOK
  <2>2. CASE x # r
    BY <1>1, <2>2 DEF SettleInv, FreshFacts, HistoryOK, IInv, TypeOK
  <2> QED BY <2>1, <2>2
<1>4. \A v \in Versions : Claimed(v)'
  BY <1>1 DEF SettleInv, Claimed
<1>5. ASSUME ~excused' PROVE Attended'
  <2>1. status = "draft" /\ target[r] = current /\ served = {}
    BY <1>1, <1>5 DEF SettleInv, FreshFacts, HistoryOK
  <2>2. ixOwner[current] = Nobody
    BY <2>1, CurrentExists DEF SettleInv, Claimed
  <2>3. target'[r] = current /\ pc'[r] = "check"
    BY <1>1, <2>1 DEF IInv, TypeOK
  <2>4. \A x \in Requests : ixOwner'[current'] # x
    BY <1>1, <2>2 DEF KnowledgeAssumption
  <2> QED BY <1>1, <2>3, <2>4 DEF Attended
<1> QED BY <1>1, <1>2, <1>3, <1>4, <1>5 DEF SettleInv

LEMMA ArchiveSettles ==
    ASSUME KnowledgeAssumption, IInv, SettleInv, NEW r \in Requests, Archive(r)
    PROVE  SettleInv'
<1>1. /\ status' = "archived" /\ current' = current /\ served' = served /\ excused' = excused
      /\ UNCHANGED <<ixStatus, ixOwner>>
      /\ pc'[r] = "idle"
      /\ \A x \in Requests \ {r} : pc'[x] = pc[x] /\ seen'[x] = seen[x] /\ target'[x] = target[x]
      /\ fresh' = IF status' = status THEN [fresh EXCEPT ![r] = FALSE]
                  ELSE [x \in Requests |-> FALSE]
  BY DEF Archive, Done, Overtakes, IInv, TypeOK, indexVars
<1>2. HistoryOK'
  BY <1>1 DEF SettleInv, HistoryOK
<1>3. ASSUME NEW x \in Requests PROVE FreshFacts(x)'
  BY <1>1 DEF SettleInv, FreshFacts, HistoryOK
<1>4. \A v \in Versions : Claimed(v)'
  BY <1>1 DEF SettleInv, Claimed
<1> QED BY <1>1, <1>2, <1>3, <1>4 DEF SettleInv

\* A fresh edit of a published article goes on to check its version, which
\* nobody can have claimed yet.
LEMMA CommitVersionSettles ==
    ASSUME KnowledgeAssumption, IInv, SettleInv, NEW r \in Requests, CommitVersion(r)
    PROVE  SettleInv'
<1> DEFINE v == target[r]
<1>1. /\ v \in Versions /\ v \notin 1 .. newest /\ v # current
  BY DEF CommitVersion, Insertable, IInv, TypeOK, RunFacts, Versions
<1>2. /\ status' = status /\ current' = v /\ excused' = ~fresh[r]
      /\ served' = IF status = "published" THEN served \cup {v} ELSE served
      /\ UNCHANGED <<ixStatus, ixOwner>>
      /\ fresh' = [x \in Requests |-> FALSE]
      /\ IndexAfterCommit(r, seen[r], v) /\ pc[r] = "insert"
  BY <1>1 DEF CommitVersion, Overtakes, indexVars
<1>3. HistoryOK' /\ \A x \in Requests : FreshFacts(x)'
  BY <1>2 DEF SettleInv, HistoryOK, FreshFacts
<1>4. \A w \in Versions : Claimed(w)'
  BY <1>2 DEF SettleInv, Claimed
<1>5. ASSUME status = "published", ~excused' PROVE Attended'
  <2>1. seen[r] = "published"
    BY <1>2, <1>5 DEF SettleInv, FreshFacts, HistoryOK
  <2>2. pc'[r] = "check" /\ target'[r] = v
    BY <1>2, <2>1 DEF IndexAfterCommit, IInv, TypeOK
  <2>3. ixOwner[v] = Nobody
    BY <1>1 DEF SettleInv, Claimed, IInv, ArticleFacts
  <2>4. \A x \in Requests : ixOwner'[current'] # x
    BY <1>2, <2>3 DEF KnowledgeAssumption
  <2> QED BY <1>2, <2>2, <2>4 DEF Attended
<1> QED BY <1>2, <1>3, <1>4, <1>5 DEF SettleInv

\* From one point of a run to the next; a run that ends has no claim.
LEMMA RunSettles ==
    ASSUME KnowledgeAssumption, IInv, SettleInv, NEW r \in Requests,
           \/ Check(r)
           \/ Prepare(r) \/ Embed(r) \/ Recheck(r) \/ Raise(r)
           \/ Replace(r) /\ ~Holds(r)
           \/ RecordFailure(r) /\ ~MayRecord(r)
    PROVE  SettleInv'
<1>1. /\ \A x \in Requests \ {r} : /\ pc'[x] = pc[x] /\ target'[x] = target[x]
                                   /\ seen'[x] = seen[x] /\ fresh'[x] = fresh[x]
      /\ UNCHANGED <<articleRow, ixStatus, ixOwner, fresh, excused>>
  BY DEF Check, Prepare, Embed, Recheck, Raise, Replace, RecordFailure, Goto, Done,
         IInv, TypeOK, articleVars, articleRow, indexVars
<1>2. HistoryOK'
  BY <1>1 DEF SettleInv, HistoryOK
<1>3. pc'[r] \in RunPoint \cup {"idle"}
  BY DEF Check, Prepare, Embed, Recheck, Raise, Replace, RecordFailure, Goto, Done,
         IInv, TypeOK, RunPoint
<1>4. FreshFacts(r)'
  BY <1>3 DEF FreshFacts, RunPoint
<1>5. CASE pc'[r] # "idle"
  <2>1. /\ target' = target
        /\ pc[r] \in InRun => pc'[r] \in InRun
        /\ pc[r] \in {"check", "claim"} => pc'[r] = "claim"
    BY <1>5 DEF Check, Prepare, Embed, Recheck, Raise, Replace, RecordFailure, Goto, Done,
                IInv, TypeOK, InRun
  <2> QED BY <1>1, <1>2, <1>4, <2>1, RequestSettles DEF InRun
<1>6. CASE pc'[r] = "idle"
  <2>1. \/ pc[r] = "check" /\ ~StillPublished(r)
        \/ pc[r] = "fail" /\ ixOwner[target[r]] # r
    BY <1>6 DEF Check, Prepare, Embed, Recheck, Raise, Replace, RecordFailure, Goto,
                MayRecord, IInv, TypeOK
  <2> QED BY <1>1, <1>2, <1>4, <2>1, RequestSettles DEF StillPublished, InRun
<1> QED BY <1>5, <1>6

\* A claim replaces a claim that lapsed, or meets one that stands.
LEMMA ClaimSettles ==
    ASSUME KnowledgeAssumption, IInv, SettleInv, NEW r \in Requests, Claim(r)
    PROVE  SettleInv'
<1> DEFINE v == target[r]
<1>1. v \in Versions /\ v \in served /\ pc[r] = "claim"
  BY TargetExists DEF Claim, IInv, RunFacts
<1>2. UNCHANGED <<articleRow, fresh, excused>>
  BY DEF Claim, articleVars, articleRow
<1>3. HistoryOK'
  BY <1>2 DEF SettleInv, HistoryOK
<1>4. CASE ixOwner[v] = Nobody \/ ~ixLive[v]
  <2>1. /\ ixStatus' = [ixStatus EXCEPT ![v] = ClaimStatus(v)]
        /\ ixOwner' = [ixOwner EXCEPT ![v] = r]
        /\ pc' = [pc EXCEPT ![r] = "prepare"]
        /\ seen' = seen /\ target' = target
        /\ ClaimStatus(v) # "pending"
    BY <1>4 DEF Claim, ClaimStatus
  <2>2. \A x \in Requests : FreshFacts(x)'
    BY <1>2, <2>1 DEF SettleInv, FreshFacts, IInv, TypeOK, articleRow
  <2>3. \A w \in Versions : Claimed(w)'
    BY <1>1, <1>2, <2>1 DEF SettleInv, Claimed, IInv, TypeOK, articleRow
  <2>4. ASSUME status' = "published", ~excused' PROVE Attended'
    <3>1. Attended /\ current' = current /\ current \in Versions
      BY <1>2, <2>4, CurrentExists DEF SettleInv, articleRow
    <3>2. ASSUME NEW x \in Requests, ixOwner'[current] = x
          PROVE  target'[x] = current /\ pc'[x] \in InRun
      BY <1>1, <2>1, <3>1, <3>2 DEF Attended, InRun, IInv, TypeOK
    <3>3. ASSUME ixStatus'[current] = "pending"
          PROVE  \E x \in Requests : target'[x] = current /\ pc'[x] \in {"check", "claim"}
      <4>1. v # current /\ ixStatus[current] = "pending"
        BY <1>1, <2>1, <3>1, <3>3 DEF IInv, TypeOK
      <4>2. PICK x \in Requests : target[x] = current /\ pc[x] \in {"check", "claim"}
        BY <3>1, <4>1 DEF Attended
      <4> QED BY <2>1, <4>1, <4>2 DEF IInv, TypeOK
    <3> QED BY <3>1, <3>2, <3>3 DEF Attended
  <2> QED BY <1>2, <1>3, <2>2, <2>3, <2>4 DEF SettleInv, articleRow
<1>5. CASE ~(ixOwner[v] = Nobody \/ ~ixLive[v])
  <2>1. Done(r) /\ UNCHANGED <<ixStatus, ixOwner>> /\ ixStatus[v] # "pending"
    BY <1>1, <1>5 DEF Claim, SettleInv, Claimed
  <2>2. /\ \A x \in Requests \ {r} : /\ pc'[x] = pc[x] /\ target'[x] = target[x]
                                     /\ seen'[x] = seen[x] /\ fresh'[x] = fresh[x]
        /\ pc'[r] = "idle"
    BY <1>2, <2>1 DEF Done, IInv, TypeOK
  <2>3. FreshFacts(r)'
    BY <2>2 DEF FreshFacts
  <2> QED BY <1>1, <1>2, <1>3, <2>1, <2>2, <2>3, RequestSettles DEF InRun
<1> QED BY <1>4, <1>5

\* A run that ends with its claim says how: indexed, or failed.
LEMMA EndSettles ==
    ASSUME KnowledgeAssumption, IInv, SettleInv, NEW r \in Requests,
           (Replace(r) /\ Holds(r)) \/ (RecordFailure(r) /\ MayRecord(r))
    PROVE  SettleInv'
<1> DEFINE v == target[r]
<1>1. v \in Versions
  BY TargetExists DEF Replace, RecordFailure, InRun
<1>2. UNCHANGED <<articleRow, fresh, excused>> /\ Done(r)
  BY DEF Replace, RecordFailure, articleVars, articleRow
<1>3. /\ \E st \in {"indexed", "failed"} : ixStatus' = [ixStatus EXCEPT ![v] = st]
      /\ ixOwner' = [ixOwner EXCEPT ![v] = Nobody]
      /\ pc[r] \in InRun
  <2>1. CASE Replace(r) /\ Holds(r)
    BY <2>1 DEF Replace, Mark, Release, InRun
  <2>2. CASE RecordFailure(r) /\ MayRecord(r)
    BY <2>2 DEF RecordFailure, Release, InRun
  <2> QED BY <2>1, <2>2
<1>4. /\ \A x \in Requests \ {r} : pc'[x] = pc[x] /\ target'[x] = target[x] /\ seen'[x] = seen[x]
      /\ pc'[r] = "idle"
  BY <1>2 DEF Done, IInv, TypeOK
<1>5. HistoryOK' /\ \A x \in Requests : FreshFacts(x)'
  BY <1>2, <1>4 DEF SettleInv, HistoryOK, FreshFacts, articleRow
<1>6. \A w \in Versions : Claimed(w)'
  BY <1>1, <1>2, <1>3 DEF SettleInv, Claimed, IInv, TypeOK, articleRow
<1>7. ASSUME status' = "published", ~excused' PROVE Attended'
  <2>1. Attended /\ current' = current /\ current \in Versions
    BY <1>2, <1>7, CurrentExists DEF SettleInv, articleRow
  <2>2. ASSUME NEW x \in Requests, ixOwner'[current] = x
        PROVE  target'[x] = current /\ pc'[x] \in InRun
    <3>1. v # current /\ ixOwner[current] = x
      BY <1>1, <1>3, <2>1, <2>2 DEF IInv, TypeOK, KnowledgeAssumption
    <3>2. x # r BY <2>1, <3>1 DEF Attended
    <3> QED BY <1>4, <2>1, <3>1, <3>2 DEF Attended
  <2>3. ASSUME ixStatus'[current] = "pending"
        PROVE  \E x \in Requests : target'[x] = current /\ pc'[x] \in {"check", "claim"}
    <3>1. ixStatus[current] = "pending"
      BY <1>1, <1>3, <2>1, <2>3 DEF IInv, TypeOK
    <3>2. PICK x \in Requests : target[x] = current /\ pc[x] \in {"check", "claim"}
      BY <2>1, <3>1 DEF Attended
    <3> QED BY <1>3, <1>4, <3>2 DEF InRun
  <2> QED BY <2>1, <2>2, <2>3 DEF Attended
<1> QED BY <1>2, <1>5, <1>6, <1>7 DEF SettleInv, articleRow

LEMMA OthersSettle ==
    ASSUME KnowledgeAssumption, IInv, SettleInv,
           UNCHANGED <<articleVars, ixStatus, ixOwner, requestVars>>
    PROVE  SettleInv'
BY DEF SettleInv, HistoryOK, FreshFacts, Claimed, Attended, articleVars, requestVars

LEMMA StepSettles == KnowledgeAssumption /\ IInv /\ SettleInv /\ [Next]_vars => SettleInv'
<1> SUFFICES ASSUME KnowledgeAssumption, IInv, SettleInv, [Next]_vars PROVE SettleInv'
  OBVIOUS
<1>1. ASSUME NEW r \in Requests, RequestStep(r) PROVE SettleInv'
  BY <1>1, ReadSettles, NumberSettles, LoseSettles, PublishSettles, ArchiveSettles,
     CommitVersionSettles DEF RequestStep
<1>2. ASSUME NEW r \in Requests, IndexStep(r) PROVE SettleInv'
  BY <1>2, RunSettles, ClaimSettles, EndSettles DEF IndexStep
<1>3. ASSUME NEW v \in Versions, Lapse(v) PROVE SettleInv'
  BY <1>3, OthersSettle DEF Lapse
<1>4. ASSUME NEW q \in Readers, ReaderStep(q) PROVE SettleInv'
  BY <1>4, OthersSettle DEF ReaderStep, List, VectorSearch, LexicalSearch, indexVars
<1>5. CASE UNCHANGED vars
  BY <1>5, OthersSettle DEF vars, indexVars
<1> QED BY <1>1, <1>2, <1>3, <1>4, <1>5 DEF Next

LEMMA SettleInvariant == Spec => [](IInv /\ SettleInv)
<1>1. Init => SettleInv
  <2> SUFFICES ASSUME Init PROVE SettleInv
    OBVIOUS
  <2>1. HistoryOK
    BY DEF Init, HistoryOK
  <2>2. \A r \in Requests : FreshFacts(r)
    BY DEF Init, FreshFacts
  <2>3. \A v \in Versions : Claimed(v)
    BY DEF Init, Claimed
  <2> QED BY <2>1, <2>2, <2>3 DEF Init, SettleInv
<1> QED BY <1>1, StepSettles, KnowledgeInvariant, KnowledgeAssumption, PTL DEF Spec

\* Every variable, those of the history included, keeps its type, and only a
\* claimed version has a lease.
THEOREM KnowledgeTypes == Spec => [](TypeOK /\ HistoryOK)
<1>1. IInv /\ SettleInv => TypeOK /\ HistoryOK
  BY DEF IInv, SettleInv
<1> QED BY <1>1, SettleInvariant, PTL

\* When nothing is under way the published text is indexed or failed, for any
\* number of editors, runs and lapsed leases - if the request that published it
\* had read the article as it was, and no run of it was lost
\* (_index_published_after_commit, _record_failure).
THEOREM KnowledgePublicationSettles == Spec => []PublicationSettles
<1>1. IInv /\ SettleInv => PublicationSettles
  <2> SUFFICES ASSUME IInv, SettleInv, status = "published", ~excused,
                      \A r \in Requests : pc[r] = "idle"
               PROVE  ixStatus[current] \in {"indexed", "failed"}
    BY DEF PublicationSettles
  <2>1. Attended /\ current \in Versions
    BY CurrentExists DEF SettleInv
  <2>2. ixStatus[current] # "pending"
    BY <2>1 DEF Attended
  <2>3. ixOwner[current] = Nobody
    BY <2>1 DEF Attended, InRun, IInv, TypeOK
  <2>4. ixStatus[current] # "indexing"
    BY <2>1, <2>3 DEF IInv, TypeOK, IndexShape
  <2> QED BY <2>1, <2>2, <2>4 DEF IInv, TypeOK, IndexStatus
<1> QED BY <1>1, SettleInvariant, PTL

\* Archiving is final to every request that reads the article afterwards
\* (publish_article, update_article).
THEOREM KnowledgeArchivedIsFinal == Spec => ArchivedIsFinal
<1>1. IInv /\ SettleInv /\ [Next]_vars
          => [(status = "archived" /\ (status' # status \/ current' # current))
                  => \E r \in Requests : pc'[r] # pc[r] /\ ~fresh[r]]_vars
  <2> SUFFICES ASSUME IInv, SettleInv, Next, status = "archived",
                      status' # status \/ current' # current
               PROVE  \E r \in Requests : pc'[r] # pc[r] /\ ~fresh[r]
    OBVIOUS
  <2>1. PICK r \in Requests : Publish(r) \/ CommitVersion(r)
    BY DEF Next, RequestStep, IndexStep, BeginPublish, BeginArchive, BeginEdit, BeginReindex,
           Read, Archive, Number, NumberTaken, Lose, Check, Claim, Prepare, Embed, Recheck,
           Replace, Raise, RecordFailure, Lapse, ReaderStep, List, VectorSearch,
           LexicalSearch, articleVars, articleRow
  <2>2. pc[r] \in {"publish", "insert"} /\ pc'[r] # pc[r]
    BY <2>1 DEF Publish, CommitVersion, IndexAfterCommit, Done, IInv, TypeOK
  <2>3. ~fresh[r]
    BY <2>2 DEF SettleInv, FreshFacts
  <2> QED BY <2>2, <2>3
<1> QED BY <1>1, SettleInvariant, PTL DEF Spec, ArchivedIsFinal

-----------------------------------------------------------------------------
(* KnowledgeIndex implements ServedIndex.                                  *)

Index == [v \in Versions |-> IF ixStatus[v] = "indexed" THEN chunks[v]
                             ELSE NoModel]

LEMMA SameIndex ==
    UNCHANGED <<served, ixStatus, chunks>> => UNCHANGED Promise!vars
BY DEF Promise!vars

LEMMA RequestServes ==
    ASSUME IInv, NEW r \in Requests, RequestStep(r)
    PROVE  Promise!Next \/ UNCHANGED Promise!vars
<1>1. UNCHANGED <<ixStatus, chunks>>
  BY DEF RequestStep, BeginPublish, BeginArchive, BeginEdit, BeginReindex, Read,
         Publish, Archive, Number, CommitVersion, NumberTaken, Lose, indexVars
<1>2. CASE served' = served
  BY <1>1, <1>2, SameIndex
<1>3. CASE served' # served
  <2>1. Publish(r) \/ CommitVersion(r)
    BY <1>3 DEF RequestStep, BeginPublish, BeginArchive, BeginEdit, BeginReindex,
                Read, Archive, Number, NumberTaken, Lose, articleVars, articleRow
  <2>2. PICK v \in Versions : served' = served \cup {v}
    <3>1. current \in Versions
      BY CurrentExists
    <3>2. CASE Publish(r)
      BY <3>1, <3>2 DEF Publish
    <3>3. CASE CommitVersion(r)
      <4>1. target[r] \in Versions
        BY <3>3 DEF CommitVersion, IInv, RunFacts
      <4>2. served' = served \cup {target[r]}
        BY <1>3, <3>3 DEF CommitVersion
      <4> QED BY <4>1, <4>2
    <3> QED BY <2>1, <3>2, <3>3
  <2>3. Promise!Publish(v)
    BY <1>1, <2>2 DEF Promise!Publish
  <2> QED BY <2>3 DEF Promise!Next
<1> QED BY <1>2, <1>3

LEMMA ReplaceRebuilds ==
    ASSUME IInv, NEW r \in Requests, Replace(r), Holds(r)
    PROVE  Promise!Next
<1> DEFINE v == target[r]
<1>1. v \in Versions /\ v \in served
  BY TargetExists DEF Replace, InRun, IInv, RunFacts
<1>2. PICK m \in Models : /\ chunks' = [chunks EXCEPT ![v] = m]
                          /\ ixStatus' = [ixStatus EXCEPT ![v] = "indexed"]
  BY DEF Replace, Mark
<1>3. served' = served
  BY DEF Replace, articleVars
<1>4. Index' = [Index EXCEPT ![v] = m]
  BY <1>1, <1>2 DEF Index, IInv, TypeOK
<1>5. Promise!Rebuild(v, m)
  BY <1>1, <1>3, <1>4 DEF Promise!Rebuild, Index
<1> QED BY <1>1, <1>5 DEF Promise!Next

\* A claim or a failure changes the status of a version, but not whether it
\* is indexed.
LEMMA ClaimServes ==
    ASSUME IInv, NEW r \in Requests, Claim(r) \/ RecordFailure(r)
    PROVE  UNCHANGED Promise!vars
<1> DEFINE v == target[r]
<1>1. UNCHANGED <<served, chunks>>
  BY DEF Claim, RecordFailure, articleVars
<1>2. v \in Versions
  BY TargetExists DEF Claim, RecordFailure, InRun
<1>3. \/ UNCHANGED ixStatus
      \/ /\ ixStatus[v] = "indexed"
         /\ ixStatus' = [ixStatus EXCEPT ![v] = "indexed"]
      \/ /\ ixStatus[v] # "indexed"
         /\ \E s \in {"indexing", "failed"} : ixStatus' = [ixStatus EXCEPT ![v] = s]
  <2>1. CASE Claim(r)
    BY <2>1 DEF Claim, ClaimStatus
  <2>2. CASE RecordFailure(r) /\ MayRecord(r)
    BY <2>2, FailureRestores
  <2>3. CASE RecordFailure(r) /\ ~MayRecord(r)
    BY <2>3 DEF RecordFailure
  <2> QED BY <2>1, <2>2, <2>3
<1>4. Index' = Index
  BY <1>1, <1>2, <1>3 DEF Index, IInv, TypeOK
<1> QED BY <1>1, <1>4 DEF Promise!vars, Index

LEMMA IndexServes ==
    ASSUME IInv, NEW r \in Requests, IndexStep(r)
    PROVE  Promise!Next \/ UNCHANGED Promise!vars
<1>1. CASE UNCHANGED <<articleVars, indexVars>>
  BY <1>1, SameIndex DEF articleVars, indexVars
<1>2. CASE Claim(r) \/ RecordFailure(r)
  BY <1>2, ClaimServes
<1>3. CASE Replace(r) /\ Holds(r)
  BY <1>3, ReplaceRebuilds
<1>4. \/ UNCHANGED <<articleVars, indexVars>>
      \/ Claim(r) \/ RecordFailure(r)
      \/ Replace(r) /\ Holds(r)
  BY DEF IndexStep, Check, Prepare, Embed, Recheck, Raise, Replace
<1> QED BY <1>1, <1>2, <1>3, <1>4

\* Claims, leases, stale runs, failures and losses are invisible to retrieval:
\* what it sees of the index is replaced whole or not at all.
THEOREM KnowledgeKeepsIndex == Spec => KeepsIndex
<1>1. Init => Promise!Init
  BY DEF Init, Promise!Init
<1>2. IInv /\ [Next]_vars => [Promise!Next]_(Promise!vars)
  <2> SUFFICES ASSUME IInv, [Next]_vars
               PROVE  Promise!Next \/ UNCHANGED Promise!vars
    OBVIOUS
  <2>1. CASE UNCHANGED vars
    BY <2>1, SameIndex DEF vars, articleVars, indexVars
  <2>2. ASSUME NEW v \in Versions, Lapse(v)
        PROVE  UNCHANGED Promise!vars
    BY <2>2, SameIndex DEF Lapse, articleVars
  <2>3. ASSUME NEW q \in Readers, ReaderStep(q)
        PROVE  UNCHANGED Promise!vars
    BY <2>3, SameIndex
       DEF ReaderStep, List, VectorSearch, LexicalSearch, articleVars, indexVars
  <2> QED BY <2>1, <2>2, <2>3, RequestServes, IndexServes DEF Next
<1> QED BY <1>1, <1>2, KnowledgeInvariant, PTL DEF Spec, KeepsIndex, Promise!Spec
=============================================================================
