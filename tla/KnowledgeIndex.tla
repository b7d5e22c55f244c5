--------------------------- MODULE KnowledgeIndex ---------------------------
(***************************************************************************)
(* One knowledge article, its versions, and the vector index that chat     *)
(* retrieves from (app/services/knowledge/article_service.py,              *)
(* app/services/ai/indexer.py, the retrieval part of                       *)
(* app/services/ai/retriever.py, and their repositories).                  *)
(*                                                                         *)
(* A request publishes, edits, archives or reindexes the article.  It      *)
(* reads the article once, decides from what it read, and writes in one    *)
(* transaction; publishing and editing then go on to index, in             *)
(* transactions of their own, the version they believe to be current.  An  *)
(* index run claims the version under a lease that may lapse at any        *)
(* moment, embeds it with the model of its own process, and replaces the   *)
(* chunks.  A reader lists what it may read and then searches twice.       *)
(***************************************************************************)
EXTENDS Naturals, FiniteSets

CONSTANTS MaxVersion,  \* a bound on how often the article is edited
          Requests,    \* concurrent requests of HR and admins
          Readers,     \* concurrent retrievals
          Models,      \* embedding models of the running processes
          MayLose,     \* whether requests may be lost on the way
          NoModel,     \* no chunks
          Nobody       \* indexing_owner_token IS NULL

ASSUME KnowledgeAssumption ==
    /\ MaxVersion \in Nat \ {0}
    /\ MayLose \in BOOLEAN
    /\ NoModel \notin Models
    /\ Nobody \notin Requests

VARIABLES
    status, current,    \* the article: status, current_version_id
    newest,             \* versions 1 .. newest are committed
    ixStatus,           \* index_status of each version
    ixOwner, ixLive,    \* the run that claimed it; its lease has not lapsed
    ixModel,            \* embedding_model: what the index claims to be
    chunks,             \* the model that built the chunks that are there
    pc, seen, target, had,  \* requests and their index runs
    qpc, qmodel, hit,       \* retrievals
    served,             \* history: versions that were the published text
    fresh,              \* history: the article is still what the request read
    excused             \* history: the text was published by a request that
                        \* was not fresh, or a run for it was lost

articleRow == <<status, current, newest, served>>
articleVars == <<status, current, newest, served, fresh, excused>>
indexVars == <<ixStatus, ixOwner, ixLive, ixModel, chunks>>
requestVars == <<pc, seen, target, had>>
readerVars == <<qpc, qmodel, hit>>
vars == <<articleVars, indexVars, requestVars, readerVars>>

Versions == 1 .. MaxVersion
ArticleStatus == {"draft", "published", "archived"}
IndexStatus == {"pending", "indexing", "indexed", "failed"}
RunPoint == {"check", "claim", "prepare", "embed", "recheck", "replace", "fail"}
RequestPoint == {"idle", "publish", "archive", "number", "insert"} \cup RunPoint

\* Only a version that is claimed has a lease, and only existing versions are
\* claimed or indexed.
IndexShape ==
    /\ \A v \in Versions : ixLive[v] => ixOwner[v] # Nobody
    /\ \A v \in Versions : ixStatus[v] = "indexing" => ixOwner[v] # Nobody
    /\ \A v \in (newest + 1) .. MaxVersion : ixStatus[v] = "pending"

TypeOK ==
    /\ status \in ArticleStatus
    /\ newest \in Versions
    /\ current \in 1 .. newest
    /\ ixStatus \in [Versions -> IndexStatus]
    /\ ixOwner \in [Versions -> Requests \cup {Nobody}]
    /\ ixLive \in [Versions -> BOOLEAN]
    /\ ixModel \in [Versions -> Models \cup {NoModel}]
    /\ chunks \in [Versions -> Models \cup {NoModel}]
    /\ pc \in [Requests -> RequestPoint]
    /\ seen \in [Requests -> ArticleStatus]
    /\ target \in [Requests -> 0 .. MaxVersion]
    /\ had \in [Requests -> BOOLEAN]
    /\ qpc \in [Readers -> {"idle", "vector", "lexical"}]
    /\ qmodel \in [Readers -> Models \cup {NoModel}]
    /\ hit \in [Readers -> Models \cup {NoModel}]
    /\ served \subseteq Versions
    /\ IndexShape

HistoryOK ==
    /\ fresh \in [Requests -> BOOLEAN]
    /\ excused \in BOOLEAN

\* create_article: a draft with its first version, which nothing indexes.
Init ==
    /\ status = "draft"
    /\ current = 1
    /\ newest = 1
    /\ ixStatus = [v \in Versions |-> "pending"]
    /\ ixOwner = [v \in Versions |-> Nobody]
    /\ ixLive = [v \in Versions |-> FALSE]
    /\ ixModel = [v \in Versions |-> NoModel]
    /\ chunks = [v \in Versions |-> NoModel]
    /\ pc = [r \in Requests |-> "idle"]
    /\ seen = [r \in Requests |-> "draft"]
    /\ target = [r \in Requests |-> 0]
    /\ had = [r \in Requests |-> FALSE]
    /\ qpc = [q \in Readers |-> "idle"]
    /\ qmodel = [q \in Readers |-> NoModel]
    /\ hit = [q \in Readers |-> NoModel]
    /\ served = {}
    /\ fresh = [r \in Requests |-> FALSE]
    /\ excused = FALSE

-----------------------------------------------------------------------------
(* Requests on the article.                                                *)

Goto(r, point) ==
    /\ pc' = [pc EXCEPT ![r] = point]
    /\ UNCHANGED <<seen, target, had>>

Done(r) ==
    /\ pc' = [pc EXCEPT ![r] = "idle"]
    /\ seen' = [seen EXCEPT ![r] = "draft"]
    /\ target' = [target EXCEPT ![r] = 0]
    /\ had' = [had EXCEPT ![r] = FALSE]

\* The first read of a request: the status an edit will remember, and the
\* version a publication or a reindex will.  What is refused at once changes
\* nothing and is left out.
Read(r, point, st, v) ==
    /\ pc[r] = "idle"
    /\ pc' = [pc EXCEPT ![r] = point]
    /\ seen' = [seen EXCEPT ![r] = st]
    /\ target' = [target EXCEPT ![r] = v]
    /\ fresh' = [fresh EXCEPT ![r] = point # "check"]
    /\ UNCHANGED <<had, articleRow, excused, indexVars, readerVars>>

MutantBeginPublish(r) == status # "published" /\ Read(r, "publish", "draft", current)

BeginPublish(r) == status = "draft" /\ Read(r, "publish", "draft", current)

BeginArchive(r) ==
    status \in {"draft", "published"} /\ Read(r, "archive", "draft", 0)

\* An edit of the text, or the restoration of an old version.
BeginEdit(r) == status # "archived" /\ Read(r, "number", status, 0)

\* Manual reindex, or this article's turn in a corpus reindex.
BeginReindex(r) == Read(r, "check", "draft", current)

\* The commit of r changed the article: the others have read an old one.
Overtakes(r) ==
    fresh' = IF status' = status /\ current' = current THEN [fresh EXCEPT ![r] = FALSE]
             ELSE [x \in Requests |-> FALSE]

\* _index_published_after_commit looks at the object in memory, which still
\* has the columns it was loaded with: status st, unless this request wrote
\* it, and current version v likewise.
IndexAfterCommit(r, st, v) ==
    IF st = "published"
    THEN /\ pc' = [pc EXCEPT ![r] = "check"]
         /\ seen' = [seen EXCEPT ![r] = "draft"]
         /\ target' = [target EXCEPT ![r] = v]
         /\ UNCHANGED had
    ELSE Done(r)

Publish(r) ==
    /\ pc[r] = "publish"
    /\ status' = "published"
    /\ served' = served \cup {current}
    /\ IndexAfterCommit(r, "published", target[r])
    /\ UNCHANGED <<current, newest, indexVars, readerVars>>
    /\ Overtakes(r)
    /\ excused' = (excused \/ ~fresh[r])

Archive(r) ==
    /\ pc[r] = "archive"
    /\ status' = "archived"
    /\ Done(r)
    /\ UNCHANGED <<current, newest, served, excused, indexVars, readerVars>>
    /\ Overtakes(r)

\* next_version_number: the newest committed version, plus one.
Number(r) ==
    /\ pc[r] = "number"
    /\ newest < MaxVersion
    /\ pc' = [pc EXCEPT ![r] = "insert"]
    /\ target' = [target EXCEPT ![r] = newest + 1]
    /\ UNCHANGED <<seen, had, articleVars, indexVars, readerVars>>

MutantInsertable(r) == TRUE

\* The unique constraint on (article, version).  An INSERT that meets an
\* uncommitted row of the same number waits for it, so the order of the
\* commits decides.
Insertable(r) == target[r] > newest

\* The new version and the article's pointer to it commit together.
CommitVersion(r) ==
    /\ pc[r] = "insert"
    /\ Insertable(r)
    /\ newest' = IF target[r] > newest THEN target[r] ELSE newest
    /\ current' = target[r]
    /\ served' = IF status = "published" THEN served \cup {target[r]}
                 ELSE served
    /\ IndexAfterCommit(r, seen[r], target[r])
    /\ UNCHANGED <<status, indexVars, readerVars>>
    /\ Overtakes(r)
    /\ excused' = ~fresh[r]

\* IntegrityError: somebody else took the number.
NumberTaken(r) ==
    /\ pc[r] = "insert"
    /\ ~Insertable(r)
    /\ Done(r)
    /\ UNCHANGED <<articleVars, indexVars, readerVars>>

\* The version is still the current text of a published article.
StillPublished(r) == status = "published" /\ current = target[r]

\* The client's connection, the process or the database connection is lost,
\* or a deadlock is broken: what was not committed is rolled back, and a
\* claim is left to its lease.
Lose(r) ==
    /\ MayLose
    /\ pc[r] # "idle"
    /\ Done(r)
    /\ fresh' = [fresh EXCEPT ![r] = FALSE]
    /\ excused' = (excused \/ (pc[r] \in RunPoint /\ StillPublished(r)))
    /\ UNCHANGED <<articleRow, indexVars, readerVars>>

-----------------------------------------------------------------------------
(* The indexer.                                                            *)

\* _claim_indexing reads the article; a rejected run ends without a trace.
Check(r) ==
    /\ pc[r] = "check"
    /\ IF StillPublished(r) THEN Goto(r, "claim") ELSE Done(r)
    /\ UNCHANGED <<articleVars, indexVars, readerVars>>

\* The CASE of the claim: a refresh leaves the previous index in service.
ClaimStatus(v) == IF ixStatus[v] = "indexed" THEN "indexed" ELSE "indexing"

\* The claiming UPDATE, in the same transaction as the check but a later
\* statement.  A claim that is still live is a conflict.
Claim(r) ==
    LET v == target[r] IN
    /\ pc[r] = "claim"
    /\ IF ixOwner[v] = Nobody \/ ~ixLive[v]
       THEN /\ ixStatus' = [ixStatus EXCEPT ![v] = ClaimStatus(v)]
            /\ ixOwner' = [ixOwner EXCEPT ![v] = r]
            /\ ixLive' = [ixLive EXCEPT ![v] = TRUE]
            /\ had' = [had EXCEPT ![r] = ixStatus[v] = "indexed"]
            /\ pc' = [pc EXCEPT ![r] = "prepare"]
            /\ UNCHANGED <<seen, target>>
       ELSE Done(r) /\ UNCHANGED <<ixStatus, ixOwner, ixLive>>
    /\ UNCHANGED <<ixModel, chunks, articleVars, readerVars>>

\* _prepare_chunks reads the article again.
Prepare(r) ==
    /\ pc[r] = "prepare"
    /\ Goto(r, IF StillPublished(r) THEN "embed" ELSE "fail")
    /\ UNCHANGED <<articleVars, indexVars, readerVars>>

\* renew_indexing_lease and get_claim_for_update: still this run's claim, and
\* the lease has not lapsed.
Holds(r) == ixOwner[target[r]] = r /\ ixLive[target[r]]

\* _embed_all: after every batch the lease is renewed, which changes nothing
\* while it is live; the last renewal leads on.
Embed(r) ==
    /\ pc[r] = "embed"
    /\ Goto(r, IF Holds(r) THEN "recheck" ELSE "fail")
    /\ UNCHANGED <<articleVars, indexVars, readerVars>>

\* _finalize_index reads the article once more ...
Recheck(r) ==
    /\ pc[r] = "recheck"
    /\ Goto(r, IF StillPublished(r) THEN "replace" ELSE "fail")
    /\ UNCHANGED <<articleVars, indexVars, readerVars>>

\* The token and the lease go together.
Release(v) ==
    /\ ixOwner' = [ixOwner EXCEPT ![v] = Nobody]
    /\ ixLive' = [ixLive EXCEPT ![v] = FALSE]

MutantMark(v, m) ==
    /\ ixStatus' = [ixStatus EXCEPT ![v] = "indexed"]
    /\ ixModel' = [ixModel EXCEPT ![v] = IF @ = NoModel THEN m ELSE @]
    /\ Release(v)

\* The columns a finished run writes on the version.
Mark(v, m) ==
    /\ ixStatus' = [ixStatus EXCEPT ![v] = "indexed"]
    /\ ixModel' = [ixModel EXCEPT ![v] = m]
    /\ Release(v)

\* ... locks the claim, replaces all chunks, and marks the version, in one
\* commit.  The model is that of the process the run is on.
Replace(r) ==
    /\ pc[r] = "replace"
    /\ IF Holds(r)
       THEN /\ \E m \in Models :
                  /\ chunks' = [chunks EXCEPT ![target[r]] = m]
                  /\ Mark(target[r], m)
            /\ Done(r)
       ELSE Goto(r, "fail") /\ UNCHANGED indexVars
    /\ UNCHANGED <<articleVars, readerVars>>

\* The chunker, the provider or the database raises.
Raise(r) ==
    /\ pc[r] \in {"prepare", "embed", "recheck", "replace"}
    /\ Goto(r, "fail")
    /\ UNCHANGED <<articleVars, indexVars, readerVars>>

MutantMayRecord(r) == TRUE
MutantMayRecordLive(r) == Holds(r)

\* _record_failure does nothing for a run that lost its claim, lapsed or not.
MayRecord(r) == ixOwner[target[r]] = r

RecordFailure(r) ==
    LET v == target[r] IN
    /\ pc[r] = "fail"
    /\ IF MayRecord(r)
       THEN /\ ixStatus' = [ixStatus EXCEPT
                              ![v] = IF had[r] THEN "indexed" ELSE "failed"]
            /\ Release(v)
       ELSE UNCHANGED <<ixStatus, ixOwner, ixLive>>
    /\ Done(r)
    /\ UNCHANGED <<ixModel, chunks, articleVars, readerVars>>

\* 300 seconds without a renewal.
Lapse(v) ==
    /\ ixLive[v]
    /\ ixLive' = [ixLive EXCEPT ![v] = FALSE]
    /\ UNCHANGED <<ixStatus, ixOwner, ixModel, chunks, articleVars,
                   requestVars, readerVars>>

-----------------------------------------------------------------------------
(* Retrieval.                                                              *)

\* What both searches join on: the current version of a published article
\* whose index is complete.
Searchable == status = "published" /\ ixStatus[current] = "indexed"

\* The index was built by the model of the reader's process.
Compatible(m) == Searchable /\ ixModel[current] = m

\* _allowed_published_articles; the question is embedded only when the index
\* is compatible.
List(q, m) ==
    /\ qpc[q] = "idle"
    /\ status = "published"
    /\ qpc' = [qpc EXCEPT ![q] = IF Compatible(m) THEN "vector" ELSE "lexical"]
    /\ qmodel' = [qmodel EXCEPT ![q] = m]
    /\ UNCHANGED <<hit, articleVars, indexVars, requestVars>>

MutantSimilar(q) == Searchable

\* search_similar_current_published looks at the model again.
Similar(q) == Compatible(qmodel[q])

\* The vectors it measures the question against.
VectorSearch(q) ==
    /\ qpc[q] = "vector"
    /\ qpc' = [qpc EXCEPT ![q] = "lexical"]
    /\ hit' = [hit EXCEPT ![q] = IF Similar(q) THEN chunks[current] ELSE NoModel]
    /\ UNCHANGED <<qmodel, articleVars, indexVars, requestVars>>

\* search_lexical_current_published, a later statement: what it adds does not
\* depend on the model.
LexicalSearch(q) ==
    /\ qpc[q] = "lexical"
    /\ qpc' = [qpc EXCEPT ![q] = "idle"]
    /\ hit' = [hit EXCEPT ![q] = NoModel]
    /\ qmodel' = [qmodel EXCEPT ![q] = NoModel]
    /\ UNCHANGED <<articleVars, indexVars, requestVars>>

-----------------------------------------------------------------------------
RequestStep(r) ==
    \/ BeginPublish(r)
    \/ BeginArchive(r)
    \/ BeginEdit(r)
    \/ BeginReindex(r)
    \/ Publish(r)
    \/ Archive(r)
    \/ Number(r)
    \/ CommitVersion(r)
    \/ NumberTaken(r)
    \/ Lose(r)

IndexStep(r) ==
    \/ Check(r)
    \/ Claim(r)
    \/ Prepare(r)
    \/ Embed(r)
    \/ Recheck(r)
    \/ Replace(r)
    \/ Raise(r)
    \/ RecordFailure(r)

ReaderStep(q) ==
    \/ \E m \in Models : List(q, m)
    \/ VectorSearch(q)
    \/ LexicalSearch(q)

Next ==
    \/ \E r \in Requests : RequestStep(r) \/ IndexStep(r)
    \/ \E v \in Versions : Lapse(v)
    \/ \E q \in Readers : ReaderStep(q)

Spec == Init /\ [][Next]_vars

-----------------------------------------------------------------------------
(* Properties.                                                             *)

\* Whatever concurrent editors, publishers and lost requests do, the article
\* points at its newest version: no edit is committed and then hidden behind
\* an older one (update_article numbers versions without a lock).
CurrentIsNewest == current = newest

\* An index that is served is what its columns say, and a version that is not
\* indexed has no chunks that a search could return (first-time failures
\* leave nothing behind).
IndexHonest ==
    \A v \in Versions :
        /\ ixStatus[v] = "indexed" => ixModel[v] # NoModel
        /\ ixStatus[v] # "indexed" => chunks[v] = NoModel
        /\ chunks[v] = ixModel[v]

\* The distance of a vector hit compares two vectors of one model, although
\* the index may be replaced by another model's between the reader's list,
\* its own embedding and its search.
VectorsComparable ==
    \A q \in Readers : hit[q] # NoModel => hit[q] = qmodel[q]

\* Stale runs, lapsed leases, failures and crashes together never take an
\* index out of service or put one in that is not complete, and a draft is
\* never indexed.
Promise == INSTANCE ServedIndex WITH
    published <- served,
    index <- [v \in Versions |-> IF ixStatus[v] = "indexed" THEN chunks[v]
                                 ELSE NoModel]

KeepsIndex == Promise!Spec

\* index_published_version leaves a durable state behind: when nothing is under
\* way, the published text is indexed, or marked as failed - unless the request
\* that made it the published text had read an old article, or one of its runs
\* was lost.  Lapsed leases, rivals and failures at any point do not prevent it.
PublicationSettles ==
    (/\ status = "published"
     /\ ~excused
     /\ \A r \in Requests : pc[r] = "idle") => ixStatus[current] \in {"indexed", "failed"}

\* An archived article is published again, or gains a version, only by a request
\* that had read it before it was archived.
ArchivedIsFinal ==
    [][(status = "archived" /\ (status' # status \/ current' # current))
           => \E r \in Requests : pc'[r] # pc[r] /\ ~fresh[r]]_vars

\* docs/ai/architecture.md: PUBLISH and EDIT published lead through indexing
\* to indexed or failed.  When no request is under way (and, with MayLose = FALSE,
\* none was lost) the published text has been tried to index.
PublishedIsAttempted ==
    (status = "published" /\ \A r \in Requests : pc[r] = "idle")
        => ixStatus[current] # "pending"
=============================================================================
