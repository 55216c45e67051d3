# FUGU RAG routing: TLA+ specifications

FUGU is a multi-tenant retrieval service: an Express backend (`backend/src/`) in front of
Postgres (with pgvector and Apache AGE), Redis, Kafka/Redpanda and LLM providers, a React
frontend, and three small SDKs. This directory holds specifications of the backend's core
logic and of what its clients make of it, the TLC configurations that model-check them, and
proofs that TLAPS checks.

Paths below are relative to the repository root; `svc/`, `mw/`, `repo/` abbreviate
`backend/src/services/`, `backend/src/middlewares/`, `backend/src/repositories/`.

| component | modules | runs | proved |
|---|---|---|---|
| document ingestion | `Ingestion`, `DocumentLifecycle` | `ingestion`, `ingestion_live`, `ingestion_dlq`, `ingestion_redelivery` | types, all invariants and action properties, refinement |
| org-scoped transactions, pool, audit log | `OrgScope`, `ScopedConnection` | `orgscope`, `orgscope_durable`, `orgscope_audit` | types, pool hygiene, durability, own commit |
| query quota | `Quota`, `ScopedConnection` | `quota`, `quota_stream` | types, all 3 invariants |
| sessions, memberships | `Directory`, `Sessions`, `Team` | `accounts` | types, 4 invariants/action properties |
| webhook deliveries | `Webhooks` | `services` | types, both invariants |
| subscriptions | `Billing` | `services` | types, its invariant |
| rate limiter | `RateLimit` | `services` | types, its invariant |
| console pages | `Console` | `services` | types, both invariants |
| LLM credential, model catalog | `Credentials` | `services`, `settings_model` | types |
| streamed answers: LLM client, server, browser, SDKs | `AnswerStream` | `services` | types, its invariant |
| embedding, routing, graph search | `Retrieval` | `services` | types, both invariants |

`tlc -config X.cfg M` runs a configuration of module `M`; `tlapm M.tla` checks the proofs of
a `*Proofs` module. `PROJECT.json` lists runs, the mutations each property is known to
catch, the source lines of every definition, the hazards, the findings and the theorems.

# 1. Inventory

## Document ingestion
*Code*: `svc/document-ingestion.service.ts`, `queue/ingestion-queue.ts`, `server.ts`
(`handleIngestMessage`), `controllers/document.controller.ts`, `repo/document.repository.ts`,
`repo/vector.repository.ts`, `svc/storage.service.ts`, `config/request-context.ts`.

*State*: a `documents` row (status, `chunk_count`), its `document_chunks`, the stored file,
the topic `document.ingest`, the dead-letter topic, and one transaction per running job.

*Operations*: upload, retry, delete (each a request inside an org-scoped transaction); the
consumer's `processDocument` (find, read file, wipe chunks, PROCESSING, embed and insert
batches, READY or FAILED); re-enqueue with `attempt + 1`; dead letter; the in-process
fallback when the broker refuses a message or the queue is disabled.

*Hard*: the job is published before the upload commits; at-least-once delivery, evictions
during long jobs, crashes between the COMMIT and the offset commit, messages that the broker
loses; a client that leaves while its file is saved, before the INSERT; the fallback runs beside
the queue; a deletion locks rows in the opposite order; the workers of `mapWithConcurrency`
go on after the first failure, on a connection that has been released.

*Correct when*: a READY document has all its chunks from one run and the right count; no
half-done attempt is ever visible; no committed document is forgotten while PENDING; a late
or repeated job never damages a finished document; deletions end.

## Org-scoped transactions, connection pool and audit log
*Code*: `mw/org-scope.middleware.ts`, `config/request-context.ts`, `config/database.ts`,
`mw/audit-log.middleware.ts`, `repo/audit-log.repository.ts`, `migrations/002_row_level_security.sql`,
and the callers in `mw/auth.middleware.ts`, `mw/api-key.middleware.ts`, `repo/graph.repository.ts`.

*State*: the pool's connections (open transaction, `app.current_org_id`), the
AsyncLocalStorage context of each request, the committed rows.

*Operations*: connect, `BEGIN`, `SET LOCAL`, the handler's statements, a second connection
for a graph search, `COMMIT` + release before the response is flushed, `ROLLBACK` + release
when the client leaves, the audit INSERT when the response ends.

*Hard*: the handler is never told that its client left, so its later statements reach a
connection that may belong to somebody else; errors of `COMMIT` are swallowed; requests that
hold one connection wait for another of the same pool.

*Correct when*: nothing of one request (organization, uncommitted write) reaches the next one
through the pool; a 2xx answer means the write is committed; a write becomes visible by the
end of its own request only; connections come back.

## Queries and quota
*Code*: `svc/query.service.ts`, `controllers/query.controller.ts`, `repo/subscription.repository.ts`.

*State*: `usage_counters` (query_count, warning_email_sent), the log, e-mails sent.

*Operations*: check the quota, retrieve, synthesize (whole or streamed), log, count, claim
and send the 80 % warning.

*Hard*: check and count are a whole query apart; accounting of a stream runs in a transaction
its own client can roll back; an e-mail leaves before its claim is committed.

*Correct when*: overshoot is bounded by concurrency, every delivered answer is counted (unless a
stray statement of another handler has aborted its transaction), one warning goes out per period.

## Sessions and team
*Code*: `svc/auth.service.ts`, `svc/team.service.ts`, `svc/account.service.ts`, `mw/auth.middleware.ts`,
`repo/user.repository.ts`, `repo/organization.repository.ts`, `frontend/src/lib/apiClient.ts`, `store/authSlice.ts`,
`store/api/authApi.ts`.

*State*: users, organizations, memberships, refresh tokens, reset links; in the browser the redux
store and `localStorage`. *Operations*: sign-up, log-in, rotation after a 401, switching, log-out,
reset; invite, accept, decline, role change, removal, deletion of an organization.

*Hard*: every handler is a chain of statements without a transaction (or with one that locks
nothing); access tokens carry a role that may be gone; two tabs or two calls rotate one token.
*Correct when*: a reset ends what it can see; no token names an organization its user was not in;
the browser is never left with a spent token; racing calls never change a settled membership.

## Webhook deliveries
*Code*: `svc/webhook.service.ts`, `queue/webhook-retry.scheduler.ts`. *State*: `webhooks`,
`webhook_deliveries`. *Hard*: a poll every 15 s whether or not the last is over, a POST and its mark in
two steps. *Correct when*: an answered delivery is repeated for a reason only, and given up only after
all tries.

## Billing
*Code*: `svc/billing.service.ts`, `repo/subscription.repository.ts`, `app.ts`, `routes/billing.routes.ts`, the
sign-up of `svc/auth.service.ts`. *State*: the subscription row of an organization. *Hard*: bonuses of
overlapping sign-ups on rows of two organizations in one transaction; which of two parsers reads an event's
body. *Correct when*: no bonus is lost or granted twice, and a signed event is accepted (none is).

## Retrieval
*Code*: `svc/embedding.service.ts`, `utils/lru-cache.ts`, `svc/routing-engine.service.ts`,
`svc/embedding-centroid-classifier.ts`, `repo/graph.repository.ts`. *State*: the embedding cache, the
centroids and the promise of their warm-up. *Hard*: concurrent first queries share a warm-up; a path of the graph
may lead through another organization; its 64-bit ids are rounded by `JSON.parse`. *Correct when*: a failed
warm-up hurts those who waited for it only; a graph answer shows all of the organization's own, once, and
nothing else, as far as the ids are exact.

## Answers and their clients
*Code*: `utils/llm-client.ts`, `svc/answer-synthesis.service.ts`, `controllers/query.controller.ts`,
`frontend/src/hooks/useQueryStream.ts`, the `query` and `http` files of the three SDKs. *State*: two byte
streams in a row, each read in chunks. *Hard*: a chunk ends anywhere, a stream ends early, a client
leaves. *Correct when*: what is told to be whole is.

## Console and settings
*Code*: `frontend/src/pages/dashboard/` (documents, API keys, webhooks, team, query explorer,
settings), `frontend/src/store/api/`, the controllers behind them, `svc/credential.service.ts`,
`svc/model-catalog.service.ts`. *State*: rows on the server, RTK Query's cached list, the dialogs.
*Hard*: answers that overtake COMMITs, calls that end in an error for the page while the server still carries
them out, lists that were read before a change, dialogs that change while a call is under way. *Correct when*: a list that has settled is fresh; a secret that is shown once is not
lost unnoticed; a model on display is the selected provider's.

## Rate limiter
*Code*: `mw/rate-limit.middleware.ts`. *State*: a sorted set with an expiry. *Hard*: the time is read
before the pipeline runs. *Correct when*: a window never admits more than the limit.

# 2. How the parts interact

A request authenticates, then `orgScopeMiddleware` gives it a connection and a transaction;
controllers and repositories reach it through the AsyncLocalStorage context. Uploads publish
to Kafka from inside that transaction. The consumer has no request, so `processDocument`
opens its own scope (`runInOrgScope`). Queries read and write the usage counter in the
request's transaction; audited routes add a row when the response ends.

`ScopedConnection` is the shared vocabulary: what BEGIN, SET LOCAL, a statement, an error,
COMMIT/ROLLBACK and release do to one connection. `OrgScope` and `Quota` INSTANCE it.
`Ingestion` needs only two facts about connections, which `OrgScope` explains: a transaction
may be hit by a stray statement of somebody else (faults `ConnectionLost`, `CommitVoided`),
and the strays of a failed job may be committed later (`StrayInsert`).

**Row-level security.** The migrations create policies for a role `fugu_app`, but the deploy
workflow connects as `POSTGRES_USER`, a superuser to whom policies do not apply.
`EnforceRLS` covers both. The `orgscope*` and `quota` runs enforce it, `quota_stream` does
not; each is the setting in which the property is harder to keep (or the finding does not
depend on the other). `Ingestion` has no such constant: with the policies a stray's row can
only join a transaction of its own organization, without them it can also commit by itself,
and both are the same step.

# 3. Ingestion

**Correspondence.** One document. `row`, `count`, `chunks` are the committed database, `run`
holds what each execution of `_processAsync` has written in its open transaction, `queue` is
the topic from the committed offset on, `current` the run that holds its head. An upload is
`UploadSave`, `UploadCreate` (the INSERT), `UploadDispatch`, `UploadCommit`; when its client leaves
(`UploadDisconnect`) during the save, the INSERT goes out on the released connection (`UploadStray`), where it
commits by itself, joins another request's transaction (`UploadLate`) or is rejected, and the handler still
dispatches. One action per statement or await of a run: `FindDocument`, `ReadFile`, `Wipe`, `MarkProcessing`,
`InsertBatch`, `MarkReady`/`MarkFailed`, `RunCommit`, then `Reenqueue`/`DeadLetter`/`Ack`.
The guards `RowFree` and `ParentFree`, and those of `Wipe`, `DeleteLock` and `DeleteCascade`,
are Postgres row locks under READ COMMITTED: they are what lets a deletion and a run wait for
each other, which `DeadlockAbort` resolves as Postgres does.

**Abstractions.** A batch stands for its embedding call and its chunk inserts. `count` is the
set of batches counted. A batch still in flight when its run fails is a *stray*: it may be
inserted inside the still-open transaction, or after it (`leaked`); the latter step is the
moment its row is committed, and a stray that is rejected or rolled back is that step never
taken. Uploads and deletions whose COMMIT fails are their disconnects. The graph enrichment,
between the last batch and READY, is best effort and cannot change the outcome. `LoseMessages` is a broker
that forgets messages at the end of its log, or a consumer group without an offset that starts behind
them (`fromBeginning: false`). `abandoned` is the history of the last retry: a job since then was
dead-lettered, or lost by the broker, with this process or by a voided COMMIT.

**Properties** (run `ingestion`).
- `ReadyIsComplete`: READY implies one run committed all batches, and `chunk_count` counts them.
- `NoOrphanPending`: a PENDING document has a message, a live run or an upload that is
  about to dispatch it, or its last job was given up (`abandoned`) and a user must retry. A retry sets
  `abandoned` back: what was lost before it excuses nothing afterwards.
- `WorkerAtomic`, `QueueRewritesOnce`: attempts of the queue are all-or-nothing and replace each
  other, the leaked strays excepted. (`QueueRewritesOnce` holds with one consumer process; see below.)
- `ProcessingNeverVisible`, `ReadyIsSticky`: no reader sees PROCESSING; only a deletion or a
  failing in-process run takes READY away. (The latter is what the code does, and nothing in the
  repository rules it out.)
- `LifecycleSpec`: the committed state implements `DocumentLifecycle` (status and searchable
  chunks change together).

**Liveness** (run `ingestion_live`): `PendingSettles` (a PENDING document is settled or its job given up, and
after a user's retry settled in spite of what was lost before), `DeleteEnds`. Weak fairness on what the
runtime carries on (the consumer polls, awaits resolve, requests are answered) and strong
fairness of `MarkProcessing`, because Postgres queues waiters for a row lock, so a stream of
deletions that are rolled back cannot starve a run. Users and faults have no fairness.

**Bounds.** Two batches: enough for one to fail while the other is in flight. Two attempts:
one that is re-enqueued and one that is dead-lettered. Four runs: first attempt, its
redelivery, a second attempt and a fallback or retry. One fault of any kind. `ingestion_live` has six runs, which
is as many as one fault and one retry can start, so the bound cuts no pursuit short, and one batch: a deletion and a run
wait for each other over chunks that an earlier run committed, and one batch has such chunks. One
consumer process in the safety run, as deployed, so a redelivery waits until an evicted handler has ended; two in
`ingestion_live`, where it runs beside it. Pairs of faults (messages lost before and after a retry, a departed client's
INSERT and a crash) are left to the theorems, which hold for any number. The batches are interchangeable, hence the
symmetry set of the safety runs; the liveness run has none.

**Two consumer processes** (no run checks it; set `Consumers = 2` in `MCIngestion.cfg`) refute `QueueRewritesOnce` and
nothing else: the redelivery's wipe does not see the chunks of an evicted attempt (`queue/ingestion-queue.ts:68-71`), its
UPDATE to PROCESSING waits for that attempt's COMMIT, and every chunk is there twice.

**Findings.**
- `ExhaustedIsFailed` (run `ingestion_dlq`): the last attempt writes FAILED, reads it back, throws, and its
  transaction is rolled back with FAILED in it; the message goes to the dead letters and the document says PENDING.
- `RedeliveryIsIdempotent` (run `ingestion_redelivery`, no fault at all): after an embedding error
  the other workers go on; a batch inserted after the next attempt's wipe is a second copy in a
  READY document. `document_chunks` has no unique key that would refuse it.

# 4. OrgScope

**Correspondence.** `conn`, `owner` are the pool; `client` is the AsyncLocalStorage context,
which keeps pointing at the connection after `scope` is "released" (`Stray`). The middleware
is `Connect`, `Begin`, `SetOrg`, `BeginFails`, `ConnectTimeout`, `TimeoutCrash`; the handler is
`Borrow`..`Return` (graph search), `Write`, `Throw`; the end is `Finish` (COMMIT), `Flush`
(release, answer, audit row), or `Disconnect` and `FinishStray`.

**Properties** (run `orgscope`): `IdleHoldsNothing` (a pooled connection carries no organization
and no uncommitted write; it may carry an *aborted* transaction when a stray statement failed
between another request's BEGIN and SET LOCAL, because `BeginFails` releases without ROLLBACK:
every later BEGIN on it then fails too, until the process restarts); `DurableUnlessStruck`;
`OwnCommitOnly`; `ConnectionsReturn` (liveness: holders that wait for a second connection are
freed by the time-out; weak fairness per request, since the pool's timer fires and every
external call of a handler has a time-out of its own).

**Bounds.** Three requests of two organizations on two connections: a stray, its victim, and
a third one; two searching requests that hold both connections and wait for a third; one
broken connection. The real pool has twenty; the properties speak of pairs of requests that
meet on one connection, or of all connections being held, and two show both.

**Findings.** `SuccessIsDurable` (run `orgscope_durable`): a stray aborts another request's
transaction and that request's 2xx is sent although its COMMIT rolled back.
`AuditWritten` (run `orgscope_audit`): the audit INSERT is issued after COMMIT and release, with
no organization set, and row-level security rejects it.

# 5. Quota

`Check`, `Retrieve`, `Claim`, `SendMail`, `Synthesize`/`FirstDelta`/`StreamEnds`, `Account`, `End`,
`Disconnect`. Connect, BEGIN and SET LOCAL are one step, ROLLBACK and release another, since
`OrgScope` has them one by one. `Struck` is the rejected statement of some other, departed client's handler on the
connection of a request: its transaction is aborted, COMMIT is a ROLLBACK that reports success, and the answer goes out all the
same (the finding `SuccessIsDurable` of section 4). `peak`, `blind`, `lost` and `struck` are history variables of the bounds.

Run `quota`: `OvershootBounded` (fewer queries beyond the limit than were in flight together: `InFlight` are
the requests past the check that may still count, `peak` the most of them at once),
`DeliveredIsCounted` (but for the requests that were struck), `WarningOnce` (one e-mail, and one more per claim that was rolled back).
Two streams and a JSON query around a limit of two on two connections: the limit is reached,
passed, and contended, and one query has to wait. Finding `StreamedIsCounted` (run
`quota_stream`): a client that leaves while the accounting is being committed is not counted.

# 6. Accounts

**Correspondence.** `Directory` is the tables with the repositories' queries as operators, `Sessions`
the calls of `AuthService` with the browser that makes them, `Team` those of `TeamService` and
`AccountService`; each extends the one before, so that a membership can change between any two statements of
a log-in. A slot of `slot` is one call under way; one action per statement. `Leads` is `requireRole`: it
reads the token, not the row. `Refreshed`, `Refused`, `LoggedOut` and `Reload` are the browser.

**Properties** (run `accounts`): `SurvivorsOverlapped` (a session that outlives a reset was issued by a call
that had passed its check before), `TokensFollowMembership`, `KeptTokenUnspent`, `JoinedIsSettled`.

**Bounds.** A founder and one visitor (with `v` the browser's user), two organizations, two calls at a time, four tokens, three
incidents, six events together: enough for a rotation that overlaps a reset or a removal and for a second
rotation with the token it leaves. E-mail verification is left out.

# 7. Services

Seven components that share no state with each other, so that one run looks at them side by side:
`MCServices` extends all seven, the initial state chooses one (the retrieval in one of two ways), and the others rest (all their
variables unchanged). Nothing is composed that interacts: the sum of the state spaces is
explored, not the product.

**Webhooks.** `dispatch` and `poll` are runs of `WebhookService.dispatch` and `processDueRetries`, one action
per statement or POST, each of which may be the last (`DispatchStops`, `PollStops`). A poll keeps the
attempts it loaded (`cur`) and writes that number plus one, whatever the row says by then. `due` is
`next_attempt_at <= now()`: `BackoffElapses` may happen at any time, so the
back-off table's values do not matter. `dispatch` has no caller under `src/`; the model calls it at any
time. Dispatches and polls run outside an org scope, so a role that is subject to the policies sees no rows
(`PollsSeeRows`); the run looks at the other case. One webhook, one row, one dispatch, two polls: the overlap is one of
two polls on one row. *Properties*: `RepeatsOnlyOverlap`, `DeadOnlyAfterAllTries`.

**Billing.** `bought` and `sent` are Stripe: subscriptions that change and the events they send, of which
`Delivered` hands over any, again and again, in any order. What a handler gets as the body is `BodyAtHandler`: the
application's JSON parser comes first (`app.ts:22`), the raw parser of the webhook's route leaves what was read, and a signature is
verified over bytes only, so every `Delivered` is a refusal (against the comments at `app.ts:21` and `billing.routes.ts:9`), tier, status and limit never
follow Stripe, and the handlers behind the check are not modelled. `signup` is the transaction of a
sign-up with a referral code, which grants two bonuses in two organizations' scopes (`Matches`: an UPDATE out of scope
changes nothing) and locks both rows until it commits (`Locked`). *Property*: `BonusesAddUp` (the bonus is permanent, says
`repo/subscription.repository.ts:64-66`). One customer, two newcomers that refer to it, two events: two sign-ups and a
check-out overlap on one row.

**RateLimit.** A clock of integer ticks, `Ask` reads it and `ExecutePipeline` runs the four commands at
a later time, on the key as it is by then. A member of the sorted set is its score and a number, which
stands for the random part of its value: two requests of one millisecond are two members. *Property*: `WindowHolds`, for requests that are not delayed in between,
whatever delayed ones do. Two callers, a window of two ticks, four ticks, a limit of two.

**Console.** One page of `kind`: documents, one document, API keys, webhooks, team, query explorer. The operators `...View`,
`...Form` and dialogs give what a page offers in a state, the user takes any of it; `Offers`
respects which dialog is on top. `calls` are mutations from the click to the answer, with `Commit` possibly after
the answer (the org scope answers from `res.end`). A call whose connection breaks (`Fails`, at any moment until its answer) is an error
to the page and goes on at the server: `adrift` before its handler has run (`ExecuteUnheard`), then to COMMIT or
ROLLBACK. `fetch`, `cached`, `stale` are RTK Query's request, data and delayed
invalidation. *Properties*: `UnseenKeysWereAbandoned`; `SettledListIsFresh`, but for changes that were committed only
after the page had its answer or error (`raced`): nothing tells the page of those. Two rows, two calls, two visits: one call can be
overtaken by another, and by leaving the page and coming back.

**Credentials.** The settings page with its two effects, each part of the step that causes the render; the
catalog with its cache; check, test and upsert of the server. Finding `SelectedModelIsOffered` (run
`settings_model`): after a change of provider the page picks the first model of the *previous* provider's list, which the hook
still returns, and keeps it; the server refuses the pair.

**AnswerStream.** Two streams of tokens, a line or a frame being two halves and its newlines, so that a chunk can end
inside one. `Script` is what a provider sends in its format; `ReadSSELines`, `Frames` and the `...Hears`, `...End` operators
are the readers of server, browser and SDKs. A provider's error within its stream is a line without text and then the end
(`ReportsError`), which the server takes for a whole answer, as it does an early end. *Property*: `ToldWholeIsWhole`. Two pieces of text, all five providers, all six
ways to ask. The browser finalizes a stream that ended early with what it has (`guess`), which it does not call whole.

**Retrieval.** A query from its embedding to its searches; `memo` is the LRU cache, `warming` the promise, `payer`
whose key it runs with. `found` holds what the last step found in the graph. *Properties*: `FallbackHadAnAttempt` (run
`services`): two queries and two questions around a cache of one (hit, expiry and eviction). `TraversalIsOwnOnce`: nodes and edges have an `Id`, which `JSON.parse` rounds to the nearest double (`Rounded`, past `Precision`),
and the code tells them apart by the rounded one (`Key`); edges are named and have one or two ends (`Joins`), so that
relations may be parallel or loops and a path may come back to a node. The property is exact for what keeps its id apart; of those that
are rounded alike it promises one. The graph of the run has three own nodes and two foreign ones, seven edges with a parallel pair and
a loop, a precision of 8 in place of 2^53 (two own nodes and a foreign one share a rounded id, and so do two edges; ties go to either side). The retrieval is two of the run's parts: `retrieval` has questions side by side in a graph
that answers with one node at most, `paths` one question at a time and any two paths of at most two hops. Where ids are rounded alike the code breaks the
comment at `repo/graph.repository.ts:235-237`: an edge to another organization's node is kept when that node, which is dropped,
shares its rounded id with an own one. The property names that case as an exception (`LooksOwn`).

`TypeOK` of the run is the conjunction of the parts' type invariants, the bound of the cache among them. No
fairness is assumed: all of these are safety properties.

**What the models show besides** (and no run checks): the 30 s of the back-off table is never used
(`svc/webhook.service.ts:99` indexes it with the attempt already incremented, against 58-61); a stale poll turns
`delivered` into `dead_letter`; the handlers of Stripe's events, which nothing reaches, would overwrite the permanent bonus and
set limits (20, 1,000, 20,000) other than those of `README.md:128-130`; the graph search swallows its own errors, so the routing engine's catch
never runs and a hybrid query never reports the graph as unavailable; a delete that fails closes whichever dialog is open by then; the answer to a
query may be shown before its log line can be listed.

# 8. What is proved

All constants are arbitrary (`IngestionAssumption`, `OrgScopeAssumption`, `QuotaAssumption`,
`BillingAssumption`, `WebhooksAssumption`, `DirectoryAssumption`, `SessionsAssumption`, `RateLimitAssumption`,
`ConsoleAssumption`, `CredentialsAssumption`, `AnswerStreamAssumption`, `RetrievalAssumption`): any number of batches, attempts, runs, retries, faults; of requests, organizations,
connections, streams; of customers, sign-ups, events; of webhooks, deliveries, dispatches and polls; of users,
organizations of theirs, tokens and calls in flight; of callers, windows and limits; of rows, calls and visits; any text and any cut of its streams, any graph, any
cache size, any lists of models. Two
theorems have a condition in their statement: `IngestionImplementsLifecycle` a document with at least one batch,
`TopicWritesOnce` one consumer (`server.ts` starts one per process; two processes refute it, see section 3).

- `IngestionProofs!TypeCorrect`: `TypeOK /\ HeadIsHeld` is inductive. `HeadIsHeld` is needed because
  `Ack` takes the tail of the topic, which must not be empty.
- `IngestionProofs!TransactionsCorrect`: `TransactionsOK` (the state of every open transaction), relative to `TypeOK`, is inductive:
  what each open transaction may hold given the row and a deletion under way. It is needed because
  `ReadyIsComplete` speaks of committed state only and says nothing of the transaction that is
  about to commit. `ReadyDocumentsAreComplete`, `ProcessingIsNeverVisible` and `ReadyStays` follow
  from it through `DocumentChanges`, which lists the four ways the committed document changes.
- `IngestionRunProofs!IngestionImplementsLifecycle`, for a document with at least one batch
  (with none, "a full set of chunks" is the empty set and every document is searchable): the step
  mapping needs `ChunksOK`, that a run that failed, with its strays, never makes up a full set.
- `IngestionRunProofs!PendingIsPursued` (`NoOrphanPending`). Messages, runs and requests hand the care for a PENDING
  document on to each other; `Pursued` adds the moments in between: an upload that has published but not committed, or
  whose INSERT is still adrift, and a run that is about to acknowledge the head of the topic while a later message or nobody takes over.
- `IngestionRunProofs!WorkersAreAtomic` (`WorkerAtomic`) and `TopicWritesOnce` (`QueueRewritesOnce`). A run's rows may be
  committed, in the snapshot of another run's DELETE, or deleted and not yet committed so (and come back with a rollback):
  `RunsOK` speaks of every such copy (`Copies`). `Atomic`: before its end a run has committed nothing, after it what leaked,
  or everything. `Single`, with one consumer: one worker is alive at a time, and once it has come to its DELETE it
  deletes what any other run of the topic has committed.
- `OrgScopeProofs`: `PoolHoldsNothing`, `AnswersAreDurable`, `WritesCommitAlone`. The invariant is
  `TypeOK` with `PlacesOK` (where a handler can be while its request holds a connection, and that a
  lent connection is nobody's own), `ConnectionsOK` (what an idle, a lent and a held connection may
  contain, the held one by the progress of its request: a request that is not struck has an open
  transaction scoped to its organization, which holds its write once it wrote) and `WritesOK` (a
  pending write belongs to the owner of the connection or to a stray). It is needed because the
  properties speak of idle connections and of answers, and both depend on what a handler of another
  request, long after its own was over, may have done to a connection in between.
- `QuotaProofs`: `TypeCorrect`, `DeliveredCorrect` (`DeliveredIsCounted`), `WarningCorrect`
  (`WarningOnce`), `OvershootCorrect` (`OvershootBounded`). The invariant says who holds which connection (`Conns`, `Handlers`), that a
  handler which is about to end its answer has its count in the transaction that COMMIT will save, unless it was struck
  (`Counting`), and that of all claims of the warning at most one is alive, saved or in an open
  transaction (`Claims`). The last is needed because a claim is tested against the rows that the
  claimant sees, which do not show another transaction's; the row lock is what excludes a second one. For the
  overshoot, `Admissions` bounds those that are counted or still in flight together (`Outstanding`, by the theorems
  on finite cardinalities): fewer than the limit, the peak and the blind ones. A check admits a request only while the count
  is below the limit, so with those in flight it stays below that sum; `Account` moves a request from one part to the other.
- `ServicesProofs!BonusesCorrect` (`BonusesAddUp`, of `BillingSpec`). A sign-up commits a value that it
  computed from the referrer's row some steps before, so the invariant adds that the row has not
  changed since (`LockedValue`), that no two sign-ups have one row (`OneHolder`), and in whose scope a sign-up is when it
  grants.
- `WebhooksProofs!GivenUpCorrect` (`DeadOnlyAfterAllTries`) and `RepeatsCorrect` (`RepeatsOnlyOverlap`),
  of `WebhookSpec`. A poll writes from what it loaded. The invariant relates each load and each row to
  the history of failed tries (`Loaded`, `Tried`); for the second theorem it says that a row no two
  polls had at once is held by at most one (`Exclusive`), and that one which was answered is about to
  be marked, or is marked and nobody will post it again (`Once`).
- `TeamProofs`: `TypeCorrect`, `SurvivorsCorrect` (`SurvivorsOverlapped`), `TokensCorrect`
  (`TokensFollowMembership`), `JoinedCorrect` (`JoinedIsSettled`), `KeptCorrect` (`KeptTokenUnspent`). The
  properties speak of tokens, and a token is written from what its call has read some steps before. The
  invariant `TeamInv` therefore says of every call in flight what it may still rely on (`CallOK`): the
  tokens and organizations it names are there (`Refers`); a password that a reset has overtaken was
  checked before that reset, and the organization of the new token is one the user was in (`Session`);
  what is about to be written was read (`Writes`). For the token in localStorage it takes two facts more:
  an answer that is about to be stored carries a token that no other call is about to store or spend
  (`Fresh`), and a stored token that is revoked was revoked by a call that is past it and still answers,
  by one whose answer was lost, or by a reset (`Kept`).

- `ServicesProofs!WindowCorrect` (`WindowHolds`, of `RateSpec`). `Kept`: what was let through within the last window is still in
  the set, and the key outlives it; a delayed request removes only what is older than its own, older window. A request
  that is let through without delay has therefore counted all the others of its window.
- `ServicesProofs!FallbackCorrect` (`FallbackHadAnAttempt`, of `RetrievalSpec`): `FallbackInv` adds that the promise of a
  failed warm-up can never be found, because it is forgotten in the step that rejects it.
- `ServicesProofs!SecretsCorrect` (`UnseenKeysWereAbandoned`) and `SettledListsAreFresh` (`SettledListIsFresh`), of `ConsoleSpec`, from one
  invariant, `ConsoleInv`. A call in flight keeps a row to itself until its COMMIT (`CallsOK`) and its form
  admits one create at a time, so a secret is never replaced by the next (`PageOK`); the page offers only rows that
  were committed (`RowsKnown`, `OffersFit`); a secret is accounted for once it was answered, although its row may still
  be uncommitted (`SecretsOK`). A row of the list is `UpToDate` when it agrees, or when something is on its
  way that will make it agree: a committed call without an answer, a delayed invalidation, a request not yet
  read; or when its change is `raced`. `Settle`, which either keeps the tags or acts on them, preserves that (`SettleFresh`); a tag waits only while a call does (`ListOK`).
- `QueryProofs!TraversalCorrect` (`TraversalIsOwnOnce`, of `RetrievalSpec`). Filters and folds are recursive functions, and what
  they compute is shown by induction over the length of what they have read. The induction theorems of the library take an operator, which the provers
  do not instantiate; `SetInduction` states induction for a *set* of numbers instead, from the well-foundedness of `<`,
  and each use names the set of lengths for which its claim holds. `FilteredProperties` gives what a filter leaves
  with the positions it left it from, each of them once; from it, what a list of places shows that no earlier list and no earlier place
  of its own has (`FirstsOf`), that every key has such a first place (`FirstPlace`, by `Least`: the first list that has it, and there the
  first place), and that dropping empty rows loses nothing (`DroppedEmpty`). Nothing is assumed of `Id` but that it is injective, and
  nothing of the rounding but that it is a function.
- `QueryProofs!ToldWholeCorrect` (`ToldWholeIsWhole`, of `AnswerSpec`). The property speaks of two streams, one after the other,
  and of the end only; the invariant says where in both everything is. `ServerInv`: while an answer is synthesized, the answer so far,
  the lines that wait, the rest of a line and what was not read yet are the provider's words, in order (`OpenAt`, `EndedAt`), or the last
  line is an error (`Complains`).
  `ClientInv`: while the client listens, what it has heard, the part of a frame in its buffer and what waits in the connection are
  the events that the handler has written, and those are `meta`, a beginning of the text and at most one final event (`Plan`). A
  reader is followed over a chunk of any length by induction (`ChunkOfLines`, `ChunkOfFrames`), from any place inside a line or a frame. That a
  piece of text is none of the words by which the model calls the other events is part of `AnswerStreamAssumption`: it
  stands for the JSON around each of them.
- `QueryProofs!TypesCorrect` (`TypeOK` of `MCServices`, for all of its parts at once, of its `Spec`). Most types are parts of the invariants above; new are the
  cache of embeddings, which has each question once and never more than its size (`GetKeeps`, `SetKeeps`), and the
  page of the credential, where a model is about to be stored only after it was found in a list of the catalog (`SaveTypes`)
  and a credential is shown only after it was read (`KnownTypes`).

Every invariant, action property and refinement that a passing run checks is the subject of a theorem. Only
model-checked, and why:
- liveness (`PendingSettles`, `DeleteEnds`, `ConnectionsReturn`): out of the prover's reach;
- the runs that expect a violation.

# 9. Not modelled

Document parsers, entity extraction, prompts and citations, the fusion score, cosine similarity and prototypes: I/O or
arithmetic that only labels an answer. SMTP, cryptography, DTO validation, error formatting, the URL guard: formatting and
predicates on strings. E-mail verification, the profile, the data export, the audit log's page, the billing page: single statements or
read-only views. Landing page, layout and animation of the frontend; thin wrappers of the SDKs for endpoints other than
queries; infrastructure. Chunking (`chunkText`) is a function over text: Ingestion takes the number of its batches.
`PROJECT.json` gives each component's status.

# 10. What could follow

1. `Quota` composed with `Billing`: the limit that a check reads while a sign-up raises it.
2. Chunk packing as a function over unit lengths, against a reference definition.
3. An abstract specification of the console's list (rows that appear and disappear, and a list that catches up)
   that `Console` implements, as a theorem.
4. Liveness of webhook deliveries under fairness of the scheduler.
