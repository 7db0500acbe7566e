------------------------------- MODULE Ingestion -------------------------------
(***************************************************************************)
(* Ingestion of knowledge: ingestion_jobs as a queue, the chunks that      *)
(* retrieval searches, and the workers that poll the queue.  The code      *)
(* gives every document one version and every upload or website one job,   *)
(* so one name d stands for the document, its version and its job.  The    *)
(* chunks of a version are written by one INSERT: they are there or not.   *)
(***************************************************************************)
EXTENDS Naturals

CONSTANTS Document,
          Author,           \* FAQ requests in flight at once
          Ingester,         \* ingestion workers of the organization
          MaxIngestCrashes  \* bound: stops of a worker

ASSUME IngestionAssumption == MaxIngestCrashes \in Nat

VARIABLES job,      \* job[d]: its status, "new" before the version exists,
                    \* "none" if the version has no job
          chunked,  \* versions with their chunks in the index
          counted,  \* versions whose chunk_count and checksum are recorded
          author,   \* author[a]: what request a is about to do
          ingester, \* ingester[w]: likewise for a worker
          ingestCrashes

indexVars == <<chunked, counted>>
ingestionVars == <<job, indexVars, author, ingester, ingestCrashes>>

JobStatus == {"new", "none", "queued", "running", "succeeded", "failed"}
AuthorIdle == [at |-> "idle"]
Polling == [at |-> "poll"]
Stopped == [at |-> "stopped"]
Claiming == [at : {"claim"}, todo : SUBSET Document, held : SUBSET Document]

\* The awaits of processNextJob's try block, in order.
IngestSteps == {"delete", "insert", "count", "succeed"}
Ingesting == [at : IngestSteps \union {"fail"}, doc : Document]

IngestionTypeOK ==
    /\ job \in [Document -> JobStatus]
    /\ chunked \in SUBSET Document
    /\ counted \in SUBSET Document
    /\ author \in [Author -> {AuthorIdle} \union [at : {"insert", "count"}, doc : Document]]
    /\ ingester \in [Ingester -> {Polling, Stopped} \union Claiming \union Ingesting]
    /\ ingestCrashes \in 0..MaxIngestCrashes

IngestionInit ==
    /\ job = [d \in Document |-> "new"]
    /\ chunked = {}
    /\ counted = {}
    /\ author = [a \in Author |-> AuthorIdle]
    /\ ingester = [w \in Ingester |-> Polling]
    /\ ingestCrashes = 0

-------------------------------------------------------------------------------
SetJob(d, s) == job' = [job EXCEPT ![d] = s]
AuthorAt(a, step) == author[a].at = step
AuthorDo(a, r) == author' = [author EXCEPT ![a] = r]

\* createSource, createDocument, createVersion and, for a website or an upload,
\* createJob: nothing reads the rows before the job is there, and a request that
\* stops on the way leaves a version without a job.
CreateQueued(d) ==
    /\ job[d] = "new"
    /\ \E s \in {"queued", "none"} : SetJob(d, s)
    /\ UNCHANGED <<indexVars, author, ingester, ingestCrashes>>

\* createFaqSource: no job, the request itself ingests.
CreateFaq(a, d) ==
    /\ author[a] = AuthorIdle
    /\ job[d] = "new"
    /\ SetJob(d, "none")
    /\ AuthorDo(a, [at |-> "insert", doc |-> d])
    /\ UNCHANGED <<indexVars, ingester, ingestCrashes>>

\* The text was split and embedded before; if that rejects, so does the request.
InsertFaq(a) ==
    /\ AuthorAt(a, "insert")
    /\ chunked' = chunked \union {author[a].doc}
    /\ AuthorDo(a, [author[a] EXCEPT !.at = "count"])
    /\ UNCHANGED <<job, counted, ingester, ingestCrashes>>

CountFaq(a) ==
    /\ AuthorAt(a, "count")
    /\ counted' = counted \union {author[a].doc}
    /\ AuthorDo(a, AuthorIdle)
    /\ UNCHANGED <<job, chunked, ingester, ingestCrashes>>

\* The request's process stops, or a call rejects.
AbandonFaq(a) ==
    /\ author[a] # AuthorIdle
    /\ AuthorDo(a, AuthorIdle)
    /\ UNCHANGED <<job, indexVars, ingester, ingestCrashes>>

-------------------------------------------------------------------------------
IngesterAt(w, step) == ingester[w].at = step
IngesterDo(w, r) == ingester' = [ingester EXCEPT ![w] = r]
IngesterGoTo(w, step) == IngesterDo(w, [ingester[w] EXCEPT !.at = step])

Queued == {d \in Document : job[d] = "queued"}

\* listQueuedIngestionOrganizationIds names the organization, and the claim
\* starts on the rows that are queued then.
PollQueue(w) ==
    /\ ingester[w] = Polling
    /\ Queued # {}
    /\ IngesterDo(w, [at |-> "claim", todo |-> Queued, held |-> {}])
    /\ UNCHANGED <<job, indexVars, author, ingestCrashes>>

\* Rows locked by the claims of other workers.
LockedByOthers(w) ==
    UNION {ingester[v].held : v \in {u \in Ingester \ {w} : ingester[u].at = "claim"}}

\* The subquery of claimNextJob meets row d: FOR UPDATE SKIP LOCKED.  It has no
\* LIMIT and must not yield two rows; then the statement fails, and with it the
\* loop of runWorker, which has no catch.
SelectRow(w, d) ==
    /\ IngesterAt(w, "claim")
    /\ d \in ingester[w].todo
    /\ \/ /\ job[d] # "queued" \/ d \in LockedByOthers(w)
          /\ IngesterDo(w, [ingester[w] EXCEPT !.todo = @ \ {d}])
       \/ /\ job[d] = "queued" /\ d \notin LockedByOthers(w)
          /\ ingester[w].held = {}
          /\ IngesterDo(w, [ingester[w] EXCEPT !.todo = @ \ {d}, !.held = {d}])
       \/ /\ job[d] = "queued" /\ d \notin LockedByOthers(w)
          /\ ingester[w].held # {}
          /\ IngesterDo(w, Stopped)
    /\ UNCHANGED <<job, indexVars, author, ingestCrashes>>

\* Mutant: a row that was locked is not claimed.
ClaimDropped(w) ==
    /\ IngesterAt(w, "claim")
    /\ ingester[w].todo = {}
    /\ IngesterDo(w, Polling)
    /\ UNCHANGED <<job, indexVars, author, ingestCrashes>>

\* claimNextJob returns the row that it updated, if any.
ClaimNextJob(w) ==
    /\ IngesterAt(w, "claim")
    /\ ingester[w].todo = {}
    /\ \/ /\ ingester[w].held = {}
          /\ IngesterDo(w, Polling)
          /\ UNCHANGED job
       \/ \E d \in ingester[w].held :
          /\ SetJob(d, "running")
          /\ IngesterDo(w, [at |-> "delete", doc |-> d])
    /\ UNCHANGED <<indexVars, author, ingestCrashes>>

\* Source, document, file or website, parser and OCR were read before: no other
\* process writes what they return.
DeleteChunks(w) ==
    /\ IngesterAt(w, "delete")
    /\ chunked' = chunked \ {ingester[w].doc}
    /\ IngesterGoTo(w, "insert")
    /\ UNCHANGED <<job, counted, author, ingestCrashes>>

\* Splitting and embedding come before the INSERT and touch no table.
InsertChunks(w) ==
    /\ IngesterAt(w, "insert")
    /\ chunked' = chunked \union {ingester[w].doc}
    /\ IngesterGoTo(w, "count")
    /\ UNCHANGED <<job, counted, author, ingestCrashes>>

UpdateVersionChunks(w) ==
    /\ IngesterAt(w, "count")
    /\ counted' = counted \union {ingester[w].doc}
    /\ IngesterGoTo(w, "succeed")
    /\ UNCHANGED <<job, chunked, author, ingestCrashes>>

JobSucceeded(w) ==
    /\ IngesterAt(w, "succeed")
    /\ SetJob(ingester[w].doc, "succeeded")
    /\ IngesterDo(w, Polling)
    /\ UNCHANGED <<indexVars, author, ingestCrashes>>

\* Mutant: an error in the pipeline ends it quietly, as if it were done.
IngestErrorSwallowed(w) ==
    /\ ingester[w].at \in IngestSteps
    /\ IngesterGoTo(w, "succeed")
    /\ UNCHANGED <<job, indexVars, author, ingestCrashes>>

\* Any await of the try block may reject, the last update included.
IngestError(w) ==
    /\ ingester[w].at \in IngestSteps
    /\ IngesterGoTo(w, "fail")
    /\ UNCHANGED <<job, indexVars, author, ingestCrashes>>

JobFailed(w) ==
    /\ IngesterAt(w, "fail")
    /\ SetJob(ingester[w].doc, "failed")
    /\ IngesterDo(w, Polling)
    /\ UNCHANGED <<indexVars, author, ingestCrashes>>

\* The process stops, or an update outside the try block rejects; nothing takes
\* a running job over.
StopIngester(w) ==
    /\ ingester[w] # Stopped
    /\ ingestCrashes < MaxIngestCrashes
    /\ ingestCrashes' = ingestCrashes + 1
    /\ IngesterDo(w, Stopped)
    /\ UNCHANGED <<job, indexVars, author>>

RestartIngester(w) ==
    /\ ingester[w] = Stopped
    /\ IngesterDo(w, Polling)
    /\ UNCHANGED <<job, indexVars, author, ingestCrashes>>

AuthorStep(a) ==
    (\E d \in Document : CreateFaq(a, d)) \/ InsertFaq(a) \/ CountFaq(a) \/ AbandonFaq(a)

IngesterStep(w) ==
    \/ PollQueue(w) \/ (\E d \in Document : SelectRow(w, d)) \/ ClaimNextJob(w)
    \/ DeleteChunks(w) \/ InsertChunks(w) \/ UpdateVersionChunks(w)
    \/ JobSucceeded(w)
    \/ IngestError(w) \/ JobFailed(w) \/ RestartIngester(w)

IngestionNext ==
    \/ \E d \in Document : CreateQueued(d)
    \/ \E a \in Author : AuthorStep(a)
    \/ \E w \in Ingester : IngesterStep(w) \/ StopIngester(w)

IngestionSpec == IngestionInit /\ [][IngestionNext]_ingestionVars

\* Workers poll for ever, and one that ended is started again.
IngestionFairness == \A w \in Ingester : WF_ingestionVars(IngesterStep(w))

FairIngestionSpec == IngestionSpec /\ IngestionFairness

-------------------------------------------------------------------------------
\* A job reported as succeeded left a searchable version, with its count: no
\* error, and no worker that started on the same job, comes in between
\* (processNextJob, ingestVersion).
SucceededIsIndexed ==
    \A d \in Document : job[d] = "succeeded" => d \in chunked /\ d \in counted

\* A job that waits alone in the queue is claimed; IngestionFairness does not give
\* more, for two jobs that wait together stop every worker (runWorker).
LoneJobIsClaimed == \A d \in Document : ~<>[](Queued = {d})

\* "Polls for orgs with queued jobs, claims and processes one job per org per
\* poll. Runs until the process is killed" (knowledge-ingestion.worker.ts:142):
\* each queued job is claimed.
QueuedIsClaimed == \A d \in Document : job[d] = "queued" ~> job[d] # "queued"
================================================================================
