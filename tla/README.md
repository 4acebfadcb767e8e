# Formal model of sihkaromicro

sihkaromicro is a set of services behind a gRPC gateway with which a user keeps
*projects*, uploads *sources* (files and web pages) into them, has the sources
indexed into a vector store, and asks questions about them. This directory
holds TLA+ modules that model the parts of it that are hard to get right, TLC
configurations that check them on small instances, and theorems about them that
TLAPS proves for instances of any size.

1. [The system](#the-system)
2. [The modules](#the-modules)
3. [The runs](#the-runs)
4. [What the runs found](#what-the-runs-found)
5. [The proofs](#the-proofs)
6. [Bounds, fairness and faults](#bounds-fairness-and-faults)
7. [What is not modelled](#what-is-not-modelled)
8. [Plan](#plan)

## The system

| Component | State | Operations | Talks to |
|---|---|---|---|
| **sources** (`sources/`, Go) | table `sources` (status, `minio_path`, `job_id`), objects in MinIO, the buffers of open upload streams | UploadSource (a client stream), GetSource, ListSources, DeleteSource, RetryJob | projects (gRPC CheckAccess), PostgreSQL, MinIO, Kafka (writes `jobs.chunking`, `jobs.cancel`) |
| **knowledge**, consumer (`knowledge/kafka`, Python) | tables `parent_chunks` and `chunks`, the offsets of a Kafka group | chunking job, cancellation, start, shutdown | Kafka (reads both topics, writes `jobs.status`), MinIO, OpenAI, PostgreSQL |
| **knowledge**, queries (`knowledge/core`, `knowledge/grpc_server`) | the cache of Keycloak's signing keys | Search, Generate, GenerateStream | PostgreSQL, OpenAI, Keycloak |
| **projects** (`projects/`, Go) | table `projects` | Create, Get, List, Delete, CheckAccess | PostgreSQL |
| **auth** (`auth/`, Go) | none | Login, Refresh | Keycloak |
| **jobs** (`jobs/`, Go) | none | none: a service without handlers | - |

How they interact:

- Every operation of *sources* asks *projects* first whether the user owns the
  project; it holds nothing while it goes on, so the project may be deleted
  meanwhile. Deleting a project tells nobody.
- A source goes through `uploading`, `uploaded` and `pending`. An upload inserts
  the row, puts the file, sets the path, sets `uploaded`, publishes a job and
  sets `pending`. The calls are separate; deferred functions undo the first of
  them when a later one fails.
- RetryJob publishes another job for a source it reads as `uploaded` or `failed`.
  DeleteSource reads the row, deletes it, and from what it read decides whether
  to cancel a job and which file to remove.
- The consumer handles one record at a time: download, parse, embed in batches,
  save in one transaction, report on `jobs.status`, commit the offset.
- A query is answered for the `sub` of a verified token: search by owner and
  project, deduplication by parent, reranking, and an answer of the model in one
  piece or as a stream.
- Nothing reads `jobs.status`. A source therefore never becomes `processing`,
  `ready` or `failed`, although the code of RetryJob and DeleteSource handles
  these.

What is hard about it, and what the properties are for:

- **Interleaving.** Requests of one source run in goroutines of their own and
  share nothing but the stores; every decision is made on a row that was read
  earlier (`sources/internal/service/source.go` 126, 157, 282). Reads go on beside
  writes, and answer with what is being written or removed (108).
- **Partial failure.** An upload changes three stores without a transaction.
- **Crashes and restarts.** Deferred functions die with the process. The
  consumer is started again from its committed offsets.
- **Ordering.** Jobs and cancellations are on two topics that nothing orders,
  and one commit covers both (`knowledge/kafka/consumer.py` 64, 122).
- **Retries.** A job is tried again after any failure, also when its chunks
  are saved already, and saving adds to what is there.
- **Lost events.** The Kafka writer asks for no acknowledgement.
- **Streams.** A client sends the messages of an upload in any order, ends or
  breaks the stream anywhere, or stays silent while the server wants to shut down;
  the model's stream of an answer breaks half way.
- **Arithmetic of batches and pages.** Embeddings are computed in batches that
  cut across sections and dealt out again by an offset; pages come without an order.
- **Stale caches.** The signing keys are cached for ten minutes, and calls that
  find them stale fetch them at the same time.

PROJECT.json lists each of these hazards at its line, with the properties that
cover it.

## The modules

| Module | Models | Parameters that matter |
|---|---|---|
| `SourceLifecycle` | what *sources* promises about each source (abstract) | sources, jobs |
| `SourceService` | UploadSource, DeleteSource, RetryJob over their stores | requests, faults, requests at a time, crashes |
| `Tenancy` | the reads of *sources* and all of *projects*, over `SourceService` | users, projects, readers, pages |
| `UploadStream` | the handler of the upload stream, and the shutdown under it | kinds and sizes of files, the limits |
| `ChunkingConsumer` | the Kafka consumer of *knowledge* | jobs, retries, faults, resets of the position |
| `IndexingPipeline` | `SourceService` and `ChunkingConsumer` over topics and object store | those of both |
| `ChunkAssembly` | how a document becomes rows of the vector store | documents, the size of a batch |
| `Retrieval` | Search, Generate and GenerateStream, over `ChunkAssembly` | callers, limits, scores |
| `TokenVerifier` | the verification of tokens and the cache of keys | calls, keys, times |
| `..._proofs` | the theorems about the module of that name | - |
| `SourceRaces_proofs` | the theorems about `SourceService` when requests about one source overlap | - |
| `MC...` | instances for TLC: fault sets, symmetry, functions | - |

### SourceService

One action is one call to a dependency, with the local code up to the next one.
`pc[r]` is the next call of request `r`:

| Label | Action | Code (`sources/internal/service/source.go`) |
|---|---|---|
| idle | `Accept`: access check, for every operation | 266-279 |
| limits | `CheckLimits` | 281-290 |
| save | `Save` | 194-206 |
| put, setPath, markUploaded | `PutObject`, `SetPath`, `MarkUploaded` | 219-245 |
| undoObject, undoRow | the deferred functions, last registered first | 208-233 |
| publish | `Publish`, in UploadSource and RetryJob | 247-253, 166-170 |
| markPending | `MarkPending`, in both | 255-261, 172-176 |
| find | `Find`, in RetryJob and DeleteSource | 126-129, 157-164 |
| deleteRow, cancel, deleteObject | `DeleteRow`, `CancelJob`, `DeleteObject` | 131-149 |

`rows` is the table, `objects` the object store, `jobsChunking` and `jobsCancel`
the events published, `seen[r]` the row that a request has read and goes on
with. A request mints at most one row id and one job id, so that both are named
by the request. The columns that are never updated (project, owner, type) are
those of the upload's request `req`. `Crash` ends all requests in flight where
they stand, and `DeleteProject` takes a project away between the access check and
what follows it.

### SourceLifecycle

A source is unborn, then uploading, uploaded, pending, and in the end gone; a
job is submitted only for a source whose upload is complete, and shown as
pending only if it was submitted. `SourceService` implements it under the
mapping `Life` (a row that is absent is unborn until its upload has tried to
insert it, and gone afterwards).

### Tenancy

Extends `SourceService` with what users read meanwhile. `at[c]` is the next
statement of a read:

| Label | Action | Code |
|---|---|---|
| idle | `Arrive`, `TurnAway`: the interceptors | `sources/internal/interceptor/auth.go` 75-108, `recovery.go` 20-30 |
| count, page | `CountProjects`, `ReadPage`: the two statements of a list of projects | `projects/internal/repository/project_repository.go` 41-70 |
| check | `CheckAccess` | `projects/internal/handler/project.go` 31-41 |
| read | `ListSources`, `GetSource`, with the URLs they sign | `sources/internal/service/source.go` 73-119 |

`CreateProject` issues an id that was never issued before, and `owner` remembers
whose each id was, also when the project is gone. `RowsOnPage` is what gorm makes
of the page and the size: no `OFFSET` unless it is positive, no `LIMIT` if the
size is negative; and since there is no `ORDER BY`, the page is any set of rows of
that size. GetProject is the statement that `CheckAccess` runs.

### UploadStream

The stream of one UploadSource: `Send` and `EndOfStream` are the client, who may
send anything at any time; `ReceiveMeta` (handler 51-90), `ReceiveChunk`
(183-236) and `Drain` (238-253) read the messages one by one, `CallService` (100-109)
is the service with all that it calls, which is `SourceService`. A message carries
the size of its chunk and, for the properties, how much of the file the client
had sent by then. `Terminate` and `Stop` are SIGTERM and `App.Stop`
(`sources/internal/app/app.go` 55-60), which closes the producer when GracefulStop
has returned; `Kill` is the end of the container's patience. The object store is
told the declared size (`Stored`), not the received one.

### ChunkingConsumer

`log[t]` is a topic with one partition, `position` and `committed` are the offsets
of the group, `current`, `phase` and `attempt` the task's place in
`_handle_record`. `Read` stands for download, parse and embedding, whose failure
has no effect; `Save` for the transaction of `save_source_chunks`, which adds a
copy of the source; `Commit` commits every position, as `commit()` does.
`BeginStop` and `FinishStop` are the shutdown of `main.py` 103-111: the connection
is closed, while the task goes on, and then the task is cancelled at whatever
call it has reached. `Start` reads on from the committed offsets. `Rebalance` is a
handler that has taken longer than the group allows between two polls: the consumer
leaves the group and joins it again as its only member, so that the position goes
back to the committed offsets while the task goes on with its record. `unreported`
is a history variable: the jobs whose very report as failed was refused by
`jobs.status`, of which nobody can hear.

### IndexingPipeline

Extends `SourceService` and instantiates `ChunkingConsumer`. A step of the service
that publishes an event appends a record to its topic (`Appends`); the
consumer's document of a source is there as long as the object is (`Present`), and is a
text, blank or broken as the upload brought it (`content`): a blank one parses into no
sections, of which nothing is stored although its job is done (`consumer.py` 181-183).
The two topics are separate sequences, read in any order. Both processes may die.

### ChunkAssembly and Retrieval

`ChunkAssembly` is `_do_chunking` (`knowledge/kafka/consumer.py` 167-241) from the
parsed document on: `Collect` lays the texts of the sections out one after the
other, `Embed` sends them to the provider batch by batch, whose items come in any
order, `Split` deals the embeddings out again, `Save` stores the rows in one
transaction. A text is known by its place (section and piece), and an embedding by
the text that it was made of, so that a shift by one shows. A document is a
sequence of sections, a section a sequence of pieces with or without text.

`Retrieval` adds the questions: `Search` (`search.py` 56-68) returns rows of the
scope in the order of their scores, `Rerank` (70-110) keeps the first of the best
rows of each parent in whatever order the cross-encoder says, `Complete`,
`OpenStream`, `Piece` and `EndStream` (`rag.py` 46-83, `handlers.py` 111-127) write the
answer, and `Break` ends a call anywhere. The model's stream ends when the answer is
whole or when it is cut off at `max_tokens` (`Ends`), and the client is told the same. Scores are 0..`MaxScore`, with ties.

### TokenVerifier

`KeycloakVerifier.verify` (`knowledge/grpc_server/interceptor.py` 35-68), coroutine by
coroutine: a call gives way only where it awaits, so that `Verify` with fresh keys
is one step, and a fetch is `Respond` (Keycloak's answer), `Fill` (the two globals)
and `Return` (the client is closed, and the call goes on with the *global*). An answer
that does not parse ends the call in `Misread`, any other failure in `FetchFails`. `Rotate`
changes the keys at Keycloak and `Tick` moves the clock; `history` records what was
published when.

## The runs

| Run | Properties | Instance |
|---|---|---|
| `service_chaos` | `TypeOK`, `CancelMeansGone`, `UploadedHasFile`, `JobHasContent`, `UnpublishedIsRetryable`, `ImplementsLifecycle` | 3 requests at once; every call may fail, with or without effect (in the database: without); 1 crash |
| `tenancy` | `ReadsTypeOK`, `UrlLeadsToFile`, `PageIsCounted`, `ReadsAreOwn`, `FailedUploadLeavesNothing`, `OnlyOwnerWrites` | 2 users, 2 projects, 2 uploads or deletes (at least one upload of a file) and 1 read at once, the second page of size 1; access checks and databases fail, jobs are lost |
| `service_races` | `LimitRespected`, `JobsAreBounded`, `UncancelledWasUnseen`, `OrphanWasUnseen` | 2 requests at a time, 3 in all, a limit of 1 source; the errors of `RaceFaults`; 1 crash |
| `consumer_chaos` | `TypeOK`, `DoneMeansIndexed`, `CopiesAreBounded`, `CommittedIsReported`, `OffsetsNeverRegress`, `EveryJobIsReported` | 1 source, 2 jobs, all documents and faults, 2 crashes, shutdowns or rebalances; fairness |
| `pipeline` | `FailedMeansDeleted`, `CommittedIsSearchable`, `PendingIsIndexed`, `UploadingIsTransient`, `ConsumerIsImplemented` | 2 requests at once, the first an upload, whose file may be blank or broken; the service's calls and the consumer's commits fail, 1 crash of each, shutdown or rebalance; fairness |
| `uploads` | `TypeOK`, `StoredWasConfirmed`, `CorrectIsServed`, `ServiceHasProducer`, `StreamsEnd`, `ShutdownEnds` | 1 stream of up to 4 messages of any kind, sizes 0 to 3, limit 3, least first chunk 2; shutdown and kill; fairness |
| `retrieval` | `EmbeddingIsOfItsText`, `WholeDocuments`, `AnswerIsOwn`, `BestOfEachParent`, `DoneEndsTheStream` | 2 sources of 2 users, documents of up to 3 rows, batches of 2, 2 saves, any 3 rows found |
| `tokens` | `AcceptedWasPublished`, `RefusedWasUnpublished` | 2 calls, 1 key, 5 moments, keys cached for 2, fetches of at most 1 |
| `commit_skips`, `cancel_overtakes`, `search_scope`, `allowed_types` | `CommittedIsDone`, `DeletedIsUnindexed`, `AnsweredInProject`, `AllowedIsServed`, each violated | see the next section |

What each passing run shows is the `about` of the run in PROJECT.json and the
comment in front of the property.

Each property of a passing run has a mutant, an operator that stands in front
of the definition it changes (`TooLargeAlone` before `TooLarge`, say): with
it in the place of the definition, the same run fails. PROJECT.json lists them.

## What the runs found

Each of these runs checks one statement of the repository's own comments or docs
that the code does not keep.

- `commit_skips`: a record that failed is committed by the commit of the next one
  that succeeds ("Do NOT commit - the record will be redelivered on restart",
  `consumer.py` 132). So the failed job is not redelivered.
- `cancel_overtakes`: a cancellation that is consumed before its job deletes
  nothing, and the job is then indexed, even with requests one at a time ("cancel
  job if still active", `source.go` 135).
- `search_scope`: the project id of a chunk is the second part of the object name
  (`consumer.py` 209), which is the id of the *source*: a search in project 1
  answers from source 1, in whatever project it is ("strictly filtered by owner_id AND
  project_id", `vector_store.py` 109). The owner is right: `AnswerIsOwn` is proved.
- `allowed_types`: of the content types that `allowedContentTypes` lists
  (`handler/sources.go` 23-28) only PDF gets through: `http.DetectContentType` says
  `text/plain; charset=utf-8` of a text and `application/zip` of a docx.

What requests about one source do to each other. The code reads a row and acts on
what it read, so that the promises of its comments hold only for requests that do not
overlap. `service_races` checks, and `SourceRaces_proofs` proves, what is left of them
when requests do: how far each can fail, and that nothing but an overlap of reads, or
a crash, makes it fail.

- `LimitRespected` ("max sources per project"): the limit is checked and used in two
  statements. It is overrun by one source for each request beyond the first that may
  be in flight, and by no more; one request at a time keeps it.
- `JobsAreBounded` ("Retry job if not started", `sources.proto` 19): a retry that reads
  `uploaded` while the upload is publishing starts a second job, and the source is then
  indexed twice. There are no more jobs of a source than requests served at a time, and
  one for each request that died before it had shown its job: once a job is
  shown, no further one starts.
- `OrphanWasUnseen` ("delete file from storage", `source.go` 142): a file that is left
  when its source is gone was missed by a delete that died, or that had read the row
  before it had a path. No compensation, retry or order of calls leaves another.
- `UncancelledWasUnseen` ("cancel job if still active", `source.go` 135): the same of a
  job and a delete that had read the row before it said `pending`.

What modelling the code brought up, without a run of its own:

- A shutdown of *knowledge* does not wait for the current record, as `main.py` 8
  says it does: it cancels the task at whatever call it has reached (107). No job is
  lost by it, since the record is redelivered.
- A client that sends more bytes than it declared gets OK, and its file is stored
  cut off at the declared size (`Stored`).
- A client that stays silent keeps GracefulStop waiting until the container is
  killed: no deadline is set anywhere. `ShutdownEnds` says so as its premise.
- When the signing keys cannot be fetched, the caller gets UNKNOWN, not
  UNAUTHENTICATED: what httpx raises for a failed request, a timeout or an error
  status is not the ValueError that `interceptor.py` 49-51 announces for any failure.
  When they are fetched but do not parse, it is one, and a good token is refused as
  UNAUTHENTICATED (`Misread`).
- A document without any text is reported as done, committed and shown as pending like
  every other, with nothing that a search could find (`consumer.py` 181-183): the
  properties and theorems about done, committed and pending jobs except it.
- An answer that reaches the 2048 tokens of `rag.py` 53 and 75 is cut off, and neither
  the reply nor the `done` of the stream tells it from a whole one, since no
  `finish_reason` is read. `DoneEndsTheStream` only claims what `done` can mean: that
  the stream of the model did not break, and that all of it was passed on.
- Pages of projects, read one after the other, may repeat one and miss another; a
  page of 0 or less is served as the first.
- CheckAccess answers every error of its database with InvalidArgument, which
  *sources* passes on as Unavailable. The verifier of *sources* checks the client
  id of a token, those of *projects* and *jobs* skip it. The interceptor of *jobs* has no
  public methods, so that its health check needs a token.
- A `top_k` of more than 20 cannot be served in full: the search returns at most
  `ann_top_k` rows before it deduplicates.
- In *auth*, a request to Keycloak that fails, or a 401 of Login, is logged through a
  logger that `auth.go` 26-28 drops; Refresh posts to a URL of its own (71); and
  statuses other than these are answered with OK and empty tokens (55-66).

## The proofs

TLAPS checks every step of eight modules. The theorems hold for all values of the
constants that satisfy the assumptions of the modules: any number of requests, users,
projects, readers, sources, jobs, calls and streams, any limits and times, any
number of attempts, crashes, restarts and rebalances, and any faults but those that
the theorem names.

| Theorem | States | Assumes |
|---|---|---|
| **SourceService** | | |
| `TypeCorrect` | `[]TypeOK` | - |
| `ProtoHolds` | `[]Proto`, the inductive invariant | - |
| `CancelledIsGone` | `[]CancelMeansGone` | - |
| `ServiceImplementsLifecycle` | `ImplementsLifecycle` | the broker loses no job it has accepted |
| `UploadedSourcesHaveFiles` | `[]UploadedHasFile` | a database call that fails has had no effect |
| `JobsHaveContent` | `[]JobHasContent` | the same |
| `UnpublishedUploadsCanBeRetried` | `[]UnpublishedIsRetryable` | the broker loses no job it has accepted |
| `FailedUploadsLeaveNothing` | `[]FailedUploadLeavesNothing` | errors of database and object store mean no effect; compensations get through |
| `OwnersWriteTheirRows` | `OnlyOwnerWrites` | - |
| `LimitOverrunIsBounded` | `[]LimitRespected` | - |
| `JobsStayBounded` | `[]JobsAreBounded` | a job that is published is shown: the update after it is not refused, and no event is delivered and reported as failed |
| `OrphansWereUnseen` | `[]OrphanWasUnseen` | errors of the stores mean no effect; clean-ups work |
| `UncancelledWereUnseen` | `[]UncancelledWasUnseen` | the same, and cancellations arrive |
| `SourcesGoForward` | no step takes a source back in `Life` | - |
| `UploadingEndsWithItsUpload` | a row says `uploading` only while its upload is under way or has died | errors of the database mean no effect; the removal of a row is not refused |
| `PendingWasSubmitted` | a pending row shows the id of a job that was published for it | the broker loses no job it has accepted |
| `RequestsAdvance` | every call that returns leaves its request fewer to make, eight at most | - |
| **Tenancy** | | |
| `TenancyTypeCorrect` | `[](TypeOK /\ ReadsTypeOK)` | - |
| `AnswersStayWithTheirUser` | `[]ReadsAreOwn` | - |
| `PagesWereCounted` | `[]PageIsCounted` | - |
| `UrlsLeadToFiles` | `[]UrlLeadsToFile` | - |
| **UploadStream** | | |
| `StreamTypeCorrect` | `[]TypeOK`; no buffer outgrows the limit | - |
| `StreamsHold` | the inductive invariant | - |
| `OnlyConfirmedIsStored` | `[]StoredWasConfirmed` | - |
| `CorrectClientsAreServed` | `[]CorrectIsServed` | - |
| `ProducerOutlivesRequests` | `[]ServiceHasProducer` | - |
| `EndedStreamsAdvance` | once its client has ended or broken a stream, Recv does not wait, and every step of the handler leaves it less to do | - |
| **ChunkingConsumer** | | |
| `ConsumerTypeCorrect` | `[]TypeOK` | - |
| `OffsetsAdvance` | `OffsetsNeverRegress` | - |
| `DoneTellsTheTruth` | `[]DoneMeansIndexed` | - |
| `NoSilentCommit` | `[]CommittedIsReported` | - |
| `CopiesBounded` | `[]CopiesAreBounded` | - |
| `RecordsAreFinished` | every call leaves the task fewer to make for its record, `3 * MaxRetries + 2` at most, and nothing adds to them | - |
| **IndexingPipeline** | | |
| `PipelineImplementsConsumer` | `ConsumerIsImplemented` | - |
| `PipelineImplementsService` | `Spec` of `SourceService` | - |
| `ConsumerKeepsItsPromises` | the four theorems about the consumer, of the pipeline's consumer | - |
| `DoneCanBeFound` | a job reported as done leaves its source in the vector store until it is deleted, unless its document is blank | - |
| `SourcesHaveFewCopies` | a source has at most `(MaxInFlight + dead requests) * MaxRetries * (resets + 1)` copies | as `JobsStayBounded` |
| `FailedJobsAreDeleted` | `[]FailedMeansDeleted` | a database call of the service that fails has had no effect; of the consumer's calls only the commits fail |
| `CommittedCanBeFound` | `[]CommittedIsSearchable` | the same |
| `PendingIsNeverLost` | until the job of a pending source has ended (the source can be found, or a blank or broken document has been reported), the consumer has it still to read or in hand | the same, and the broker loses no job it has accepted |
| **Retrieval** (with `ChunkAssembly`) | | |
| `AssemblyHolds` | the inductive invariant of the assembly | - |
| `EmbeddingsMatch` | `[]EmbeddingIsOfItsText` | - |
| `DocumentsAreWhole` | `[]WholeDocuments` | - |
| `AnswersAreBest` | `[]BestOfEachParent` | - |
| `AnswersAreOwn` | `[]AnswerIsOwn` | - |
| `DoneIsTheEnd` | `[]DoneEndsTheStream` | - |
| **TokenVerifier** | | |
| `VerifierTypeCorrect` | `[]TypeOK` | - |
| `KeysHold` | the inductive invariant | - |
| `NoWithdrawnKeyIsAccepted` | `[]AcceptedWasPublished` | - |
| `NoKnownKeyIsRefused` | `[]RefusedWasUnpublished` | - |

Apart from the column, they rest on the assumptions that the modules name on their
constants: that `NoJob` and `NoUser` are no request and no user, that only the broker
loses silently what it has accepted, that a fetch of keys ends before they expire, and
that constants are of their types.

### The arguments

*The sources service.* None of the properties is inductive: a step of one request is
safe only because of what the others know. `Proto` says that, label by label. A
request between `put` and `markUploaded` has a row that is absent (someone deleted it)
or `uploading`, never further; one that publishes, or updates after publishing,
works for a source whose life is complete; one that has passed `deleteRow` works
for a source that is gone; and a job is only known to the topic once its own
request has passed `publish`. The lemmas `PcMoves`, `RowMoves`, `PublishMoves`
and `CancelMoves` say what a step does to each variable; `LifeForward` says
that no source ever goes back (an update by id alone never inserts), and is what
carries the knowledge of one request over the steps of all others.

Each theorem adds the part it needs. The refinement adds `Queued` (a request at
`markPending` has its job on the topic), which a broker that drops jobs breaks, and so
does `AnswersOK` for the retries. `UploadedHasFile` adds `FilesOK`, what an upload
knows of its file at each label and that a compensation only runs on a row that never
became `uploaded`, which an update that is applied but answers with an error breaks.
`JobsHaveContent` adds `EventsOK`, what a request knows of the event it is about to
publish; `FailedUploadsLeaveNothing` adds `TidyOK`, what is left of an upload at each
label of its compensations; `OwnersWriteTheirRows` adds `ScopeOK`: a request past its first
read works on a row of its own user and project. `LimitOverrunIsBounded` counts: a
row that is there and a request that may still insert one each hold a *place* in the
project, `FewInFlight` bounds the second, and a request that passes the check finds
places for itself and those beside it (`FewPlaces`).

*Races over one source.* `WorkOK` counts, for each source, the requests that work on it:
those about to publish a job of it or to show it, and those whose job is on the topic.
Before its upload shows the source as `uploaded` there is none (`WorkIsUnderWay`), and
while it is shown as `uploaded` all of them are in flight or have died. A request
therefore only joins them when they are at most `MaxInFlight - 1` and the dead, and
nobody joins once `pending` is shown, since no source goes back. That bounds the jobs.
For what a delete leaves behind, `SeenOK` says what a request can have read at which label,
`BornOK` that a source that was created and is not there has a delete that removed it
and has died, answered or is still at work, `CancelOK` and `GoneOK` that this delete has
done what it had read to do. When nothing is in flight, what is left over is thus what
that delete did not read.

*What liveness rests on.* `UploadingIsTransient`, `EveryJobIsReported` and `StreamsEnd` need
fairness and are TLC's, but what fairness works on is proved: `RequestsAdvance` and `RecordsAreFinished`
give each request and each record a number of calls that every call makes smaller and
nothing makes larger, so that a scheduler that goes on brings each to its end.
`EndedStreamsAdvance` does the same for `StreamsEnd` and the messages of a stream, once the
client sends no more of them, and adds that Recv has something to return.
`UploadingEndsWithItsUpload` says that at its end an upload has left no row in `uploading`.
For `PendingIsIndexed` it is `PendingIsNeverLost`: a pending row shows a job that was published
(`PendingWasSubmitted`), every job has its record on the topic (`TopicIsComplete`), and a
record that the consumer is past was heard of, as done or as failed (`ReportsOK`); done means
that the source can be found or has a blank document, and failed that it is deleted, which
a pending one is not, or has a broken one.

*Reads.* `OwnersOK` (an id keeps its owner for good) and `CallsOK` (a read that has
passed the check asks for a project of its user) give `ReadsAreOwn`; a project that
matches the page was there at the count or was issued since, which is
`PageIsCounted`. `UrlLeadsToFile` needs `PathsOK` at every label of an upload: a row has
a path only if its object was put, and the object goes only after the row or with a
failed upload. It holds over all faults, those of the compensations included.

*The consumer.* `OffsetsOK` (committed is at most position, which is at most the end
of the topic) makes a commit advance, whatever set the position back. `DoneOK` says
that a task about to report success has its source indexed; that it stays so
(`IndexedStays`) is because chunks go away only with a cancellation. `JobsOK`, that a
job is published once, ties a report to its record. `ReportsOK` says that what is
committed was heard of, and that what has been read was heard of or is in hand; the
second part holds only while the process is up, since the position of a process that
is down is forgotten. `CopiesBounded` counts the saves by jobs, attempts and resets.

*The pipeline.* `CancelsOnce` and `TopicsMatch` tie the two topics to the sets of
`SourceService`, so that a step of the service is a step of the consumer's environment.
`ChunkingConsumer_proofs` is instantiated under the pipeline's mapping (`Proved`), whose
assumptions follow from those of the pipeline: its theorems become facts about the
pipeline (`ConsumerKeepsItsPromises`), and those of the service do by
`PipelineImplementsService`. `FailedJobsAreDeleted` adds that a task at work on a
job that is still there finds its document, so that only a broken one fails (`Hopeless`).

The theorems from end to end put the two halves together. A job that is reported as done is
indexed, blank or cancelled (consumer), and cancelled only if its source is gone for good
(service): `DoneCanBeFound`. What is committed was heard of (consumer), as done or as
failed, and failed only if its source is gone or broken (pipeline): `CommittedCanBeFound`. The copies are
bounded by the jobs of the source (consumer), whose records are no more than the
events of the service (`RecordsAreEvents`), which the races bound: `SourcesHaveFewCopies`.

*The stream.* `StreamsHold` ties the handler's place, buffer and declared size to the
messages it has read: at `chunks`, one metadata message and then only chunks that were
within the limits; so a stream of a correct client meets no refusal, and the
buffer at `service` ends with done.

*The assembly.* `AssemblyOK` states what the loops compute by a recursive function of
the number of sections, the *base* of a section: `Collect` puts the texts of section
`i` from its base on (`LaysOut`), `Embed` extends a prefix of the embeddings of these
texts whatever order the answers come in, and `Split` starts section `i` at that base.
`PartsOK` adds that the sections dealt out so far have their rows in the batch, and that
whatever is stored is a whole document, since `Save` stores all and a delete removes all.

*The answers.* `BestOK` says that what was found is in the order of scores, so that the
first row of a parent is the best of it. That there is a first, and that the rows chosen
are as many as the limit allows, needs a least member of a set of numbers: `Least` gets it
without induction, by counting. If no member were least, the ranks of `n` numbers would
be `n` different numbers below `n`, against the pigeonhole principle of the library.

*The keys.* `KeysHold` says that the keys in the cache, and in every answer that a call
has received, were published at or after the time that stamps them, and that no stamp is
ahead of the clock. A call that goes on with the global which another has filled is
justified by that one's answer, which is no older than the cache's time since a fetch
ends before it.

### Only model-checked

Liveness: `EveryJobIsReported`, `PendingIsIndexed`, `UploadingIsTransient`, `StreamsEnd` and
`ShutdownEnds`, which is out of the prover's reach. Every other property of a passing run
is the statement of a theorem.

## Bounds, fairness and faults

*Bounds.* `MaxInFlight` is the number of requests served at the same time,
`MaxCrashes` bounds the crashes of the service and `MaxResets` how often the consumer
goes back to the committed offsets, by a restart or a rebalance; the real
`MaxSourcesPerProject` of 20 is 1 or 2, and the three attempts of a job are 2. Three
requests are an upload together with two others of any kind, which is every pair of
rivals over one source; two jobs on one topic are enough for one to fail and the next
to commit past it, and for a redelivery to meet another record. Four messages are
metadata, two chunks and done, and sizes up to 3 put a file below, at and above the
limit of 3 and a first chunk below and at the least of 2 (the real ones are the
bytes of a file and 512). Three rows in batches of two, the first section with one row and
the next with two, cut a batch across sections, and two saves let one document be found
twice. In the pipeline, one file of any kind with another request beside
it puts a blank or broken document before or behind the record of another source, and
under retries and deletes of its own; the theorems are about any documents. Two calls suffice for one fetch to
overtake another; five moments are twice the cache's time. `Patience` is an assumption
about Keycloak: the timeout of 10 s that httpx is given is for each read, so that a fetch
of many slow reads could take longer than the cache's ten minutes. Symmetry is used for safety
only; runs that check liveness have none. The runs allow deadlock: the requests,
messages and moments of an instance are used up.

*Faults.* A call is `refused` (no effect, an error), has a `lostReply` (the effect
and an error: a timeout, a cancelled request) or, for events only, is `dropped` (no
effect, no error: the writer asks for no acknowledgement). `Faults` says which
can happen, and each run's fault set is as large as its properties allow. What
holds under which is part of the result: lost answers break
`FailedUploadLeavesNothing`, since the code takes an error for a call without effect,
and lost jobs break `UnpublishedIsRetryable` and the life cycle, since a pending
source without a job cannot be retried.

*Fairness.* Of the service (`Step`, in the pipeline): a goroutine whose call returns is
run again, so every request in flight takes its next step; nothing forces a client
to call, a call to succeed, a project to be deleted or the process to die. Of the
consumer: the task goes on, the shutdown completes, and the container is started again
(`restart: unless-stopped` in `docker-compose.yaml`); with at most `MaxResets` of
them, the process stays up at some time. Of an upload stream: a handler whose Recv or
call returns goes on, and `App.Stop` returns when GracefulStop does. Nothing makes a
client send or end its stream, so that `StreamsEnd` starts where the client's end does,
and `ShutdownEnds` has `ClientsEnd` as its premise.

*Kafka.* One partition per topic and one consumer, which is what the compose file
sets up. Several partitions would only add orders within `jobs.chunking`, whose
records are about jobs of their own.

## What is not modelled

- *auth*: two stateless calls to Keycloak whose outcomes depend on the answer alone.
  *jobs*: has no handlers.
- The verification of a token by the go-oidc library in the Go services. `Tenancy` has
  its outcomes: a user, none, or a refusal.
- Download and parsing of a document: outcomes of one step of the consumer. Where a
  section is cut into pieces is up to a library; `ChunkAssembly` takes any cut of the
  documents of its instance.
- Exceptions of the consumer's iteration itself, which end its task: what is on the
  topics is the JSON that *sources* writes.
- The reranker's lazy load: two calls may load the model twice, the second in the place
  of an equal one.
- What becomes of the sources of a deleted project: nothing in the code does anything
  with them, and no statement in the repository says what should be done.
- Configuration, logging, start-up, migrations. Generated protocol code, about half of
  the repository's lines, which has no behaviour of its own.
- The contents of documents, chunks, embeddings, prompts and answers.

## Plan

Done: all modules of the table above, with their runs and proofs, in the order
`SourceLifecycle`, `SourceService`, `ChunkingConsumer`, `IndexingPipeline`,
`UploadStream`, `ChunkAssembly`, `Retrieval`, `TokenVerifier`, `Tenancy`.

Left:

1. The theorems that assume true errors of the database, under lost answers: which of a
   source's promises survive them, and what takes the place of the rest.
2. The jobs service, once it has handlers: it would consume `jobs.status`, and the life
   cycle would go on to `processing`, `ready` and `failed`.
