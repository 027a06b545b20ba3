# Verification of Grapl

Grapl turns security logs into a graph. Logs pass through a chain of services,
each of which reads messages from its own SQS queue, fetches the payload a
message points at from S3, does its work, and uploads its output to S3, which
puts a message on the next queue:

    logs -> graph generator -> node identifier -> graph merger
         -> analyzer dispatcher -> analyzer executor -> engagement creator

The last of them puts what looks suspicious into lenses, and a web console shows
a user the lenses and the graph of each. `grapl-cdk` deploys all of it.

This directory models the parts where concurrency, failure and retries decide
whether Grapl is correct: the chain as it is deployed, the loop that runs in its
services, the services' shared state, and the console with the endpoints behind
it. TLA+ modules describe the code, TLC checks them on small instances, and TLAPS
proves the main safety properties for all values of their parameters. Paths
below are relative to `src/src/`.

Run the checks here with `tlc -config X.cfg MCM.tla` and `tlapm M_proofs.tla`.

## 1. The system

### 1.1 Components, their state and their operations

| component | state | operations | modelled |
|---|---|---|---|
| the deployed pipeline (`js/grapl-cdk/lib`: `grapl-cdk-stack.ts`, `fargate_service.ts`, `service.ts`, `services/*.ts`) | three queues per service, buckets, two roles per service | notify, redrive, grant | `Deployment`, `Pipeline` |
| sqs-executor, the loop of every Rust service (`rust/sqs-executor/src/lib.rs`, `rusoto_helpers.rs`, `s3_event_emitter.rs`) | the source queue, futures of a batch, detached tokio tasks, dead letters | `_process_loop`, `process_message`, `get_message`, `delete_message`, `move_to_dead_letter`, `emit_event` | `SqsExecutor` |
| completion cache (`redis_cache.rs`, `cache.rs`) | an LRU cache per process, Redis shared by all | `filter_cached`, `all_exist`, `store`, `store_all` | `RedisCache`, `Slices` |
| visibility keep-alive (`sqs_timeout_manager.rs`) | the message's visibility, a manager task, a stop channel | `keep_alive`, `start`, `Sender::drop` | `SqsTimeoutManager` |
| node identifier (`rust/node-identifier/src/lib.rs`, `dynamic_sessiondb.rs`) | DynamoDB's static mapping table | `handle_event`, `attribute_static_mapping`, `attribute_dynamic_session` | `NodeIdentifier` |
| session table (`sessiondb.rs`, `sessions.rs`) | DynamoDB's session table | `handle_unid_session` | `SessionDb` |
| the graph of a lens (`js/engagement_view/.../graphDisplay`) | the graph shown, requests in flight | select a lens, fetch, merge | `GraphDisplay`, `LensGraph` |
| GraphQL endpoint (`js/graphql_endpoint`) | the JWT secret of a process | `lens_scope`, `lenses`, `validateJwt` | `LensScope`, `LensTable` |
| the table of lenses (`toggleLensTable.tsx`) | the list so far and its offset | ask for a page, append | `LensTable` |
| the console's pages, login and plugins (`routes.tsx`, `EngagementView.tsx`, `Dashboard.tsx`, `uploadPlugin`) | the page's state, checks, lists and edits in flight | navigate, log in, check, delete, upload | `Console`, `PluginsPage` |
| lambdas behind the console (`engagement.ts`, `graphql.ts`, `model_plugin_deployer.ts`) | none | what each may do | `EdgeApi` |
| plugin deployer, engagement_edge | the keys of a bucket; none | list, deploy, delete; login, checkLogin | as the console sees them |
| analyzer dispatcher, graplctl's redrive | none | one event per analyzer; dead letters to the retry queue | in `Pipeline` |
| graph generators, graph merger, analyzer executor, engagement creator, dgraph ttl | Dgraph, caches, a process of their own | see 5 | their queues and grants only |
| the rest: ux-router, provisioner, grapl_analyzerlib, metric forwarder, batch lookups, graph descriptions, notebook, graplctl, pulumi, wire formats | none that interleaves | | no |

`PROJECT.json` lists every component with the reason for its status.

### 1.2 How they interact

* Services meet only through queues and S3. SQS delivers a message at least
  once: one that was received comes back when its visibility timeout ends, and
  after three receives moves to the queue of a second instance of the service,
  the retry handler, and from there to a dead letter queue (`service.ts:18-34`).
* In a Rust service, `process_loop` receives up to ten messages and runs one
  `process_message` future for each. They share one thread of control: a panic
  in one, or the 450 s timeout, drops all of them wherever they await. The analyzer
  executor receives ten at once too, and ends with the first that fails; a lambda's batch
  is retried as a whole. Deletes
  and dead letter sends, and the keep-alive's manager, are tokio tasks of their
  own and go on.
* Futures of one service share its completion cache, in the process and through
  Redis with other replicas.
* Node identifiers share two DynamoDB tables: each decision is a query and, later, a
  write without a condition. A future that is dropped does not take back what it sent.
* The console is one thread, but every request it makes is a closure over the
  state of the render that made it, and writes that state back, changed, when
  the answer comes. Answers come in any order.

### 1.3 What is hard, and what makes each part correct

| component | hard behaviour | correct if |
|---|---|---|
| pipeline | failures between the send and the delete of each hop; batches that fail together; a service that hangs; three queues in a chain; access that is granted role by role | nothing is lost between two services; nothing is retried for want of a grant; everything comes to rest |
| executor | drops at any await; several processes on one message; deletes that act late; uploads that half succeed | a message leaves its queue only when its outputs are downstream or it is in the dead letter queue; every message leaves |
| cache | a lookup in two levels with awaits in between; late writes; evictions; processes that disagree | it never claims work it was not told of; a store ends without Redis |
| keep-alive | each extension races the one before it; the stop races the timer | the message is invisible while it is worked on; retries are not delayed; the manager stops with its worker |
| session table | query, then write; writes that land after their callers are gone; sightings before creations; skewed times; retries after a lost reply | one row per session; a creation keeps its session; redelivery finds the same one |
| node identifier | lookups that miss in two handlers; late writes; partially identified graphs that are emitted and retried | one identity per key in everything emitted; nothing dangles; success means complete |
| graph of a lens | answers of an older render or lens; merges that keep old nodes; links whose ends the drawing library replaces | never two lenses at once; no link without its nodes; the selected lens is shown |
| table of lenses | paging by offset with requests that overtake each other; errors that look like an empty page | lenses in order, none left out or twice; all in the end |
| console | closures of pages that are gone; checks that stop; rows written after a deletion, or one that stopped halfway | a user without a session is told; the plugin table follows the bucket |

`PROJECT.json` "hazards" gives the line at which each of these bites.

## 2. The modules

Each module that is proved about has its proofs in `<module>_proofs.tla`, and
each `MC<module>.tla` holds the instances TLC runs. Operators that a comment
calls a mutant, or that are introduced by "As X, ...", are faulty variants of the
definition next to them; nothing uses them. `PROJECT.json` says which property each
one violates.

### 2.1 SqsExecutor, and AtLeastOnce

`queue`, `receives` and `deadLetters` are the SQS queues; `downstream` the outputs
published; `cached` the completion cache as one set; `work[p][m]` the future of
message m in process p, whose `stage` is the await it stands at; `tasks` the
detached deletes and sends. `Receive` is `get_message`, `CheckHit`/`CheckMiss`/
`CheckUnavailable` the lookup, `FetchPayload`/`FetchTestEvent`/`FetchTransient`/
`FetchPersistent` the S3 retriever, `HandleOk` to `HandlePersistent` the four
answers of an `EventHandler`, `EmitOne`/`EmitDone` the uploads, `CacheMessage`/
`CacheEvents` what follows, `DeleteOk` to `SendFail` the tasks, `Abort` a panic or the
batch timeout, `Crash` a restart, `Expire` and `Redrive` the queue.

The receipt of a task is the receive it belongs to. A future that awaits a task resumes
when that task ends; `WaitsForItsTask` says that it never waits for one that is gone, and
never resumes for the task of an earlier receive. SQS honours the delete of
an older receipt here, as standard queues may: the safety argument may not
depend on stale receipts being refused.

The cache is asked and told through `Cacheable::identity`. `Hash(_)` is a
parameter. With `TypedHash`, as built, a message id is looked up as a `String`
and stored as a `Vec<u8>`, and an event's identity is hashed a second time when it
is stored, so lookups never hit. With `ContentHash`, they do: the passing run takes
it, because more can go wrong when events really are skipped. Safety is proved
for every hash without collisions, so it holds of the code as it is and would
go on to hold if the identities were repaired. It also rests on the handlers:
`cache_completed` stores the identities of successes and failures alike, and no
handler adds an identity for an event it did not map (the generic generator, the
only one that adds any, adds it after the mapping succeeded).
`CompletedKeysWithFailures` is the variant in which one does, and the events it
loses.

`AtLeastOnce` is the promise to the service upstream: a message is acknowledged
only once it is settled. `SqsExecutor` implements it (`DeliversAtLeastOnce`).

Abstracted: payloads, metrics, the choice of S3 keys. Only `Records[0]` of an S3
notification is processed by the code; a message here stands for that record.

### 2.2 RedisCache, and CompletionCache

`lru[p]` is the LRU cache of a process, `redis` the shared keys, `wire` keys being
set for a caller that gave up, `call[w]` the call a worker is in, `home[w]` the
worker's process: every placement of workers in processes is an initial state.
`FilterInLru` is `_filter_cached` up to its await, `RedisAnswers` Redis taking the
values, `FilterInRedis` the rest, `GetFails` the error path; `StoreInLru`, `SetOk`,
`SetFails`, `SetTimesOut` the parts of `_store_all`. A request that timed out is
applied, key by key, or lost later (`WireApplied`, `WireLost`).

The LRU cache is a sequence, least recently used first. A `get` of an entry does what a
`put` of it does, so `Put` stands for both, and `Puts` is the cache after each of a slice's
`put`s. `Slices` says what `Iterator::partition` keeps of a slice; `RedisCache` and
`CompletionCache` share it. The keys of one `MSET` are a set: their order is not visible.

`CompletionCache` is the contract of the trait `Cache`: answers keep the order of
the question and leave out only what somebody asked to store. `RedisCache`
implements it (`AnswersLikeACache`).

Why "asked to store" is enough for the worker: it asks to store an identity only
when the outputs behind it are downstream, which is `CacheIsTruthful` of
`SqsExecutor`. The two properties compose.

### 2.3 SqsTimeoutManager

Time is in seconds. `visible` is what is left of the message's invisibility,
`sleep` of the manager's sleep, `busy` the age of the call in flight, `age` that
of the future. `Tick` lets a second pass, unless something due then has not
happened. `Latency` bounds the time from a request to its effect and from there
to the reply, and the time the worker takes from the receive to `keep_alive`.
`failed`, `late` and `over` are history: they record what the properties speak of, and no
guard reads them.

### 2.4 SessionDb

`table` holds the rows, `task[w]` the call a worker is in, between two requests, and `sent`
the writes in the air whose callers are gone.
`Begin` cuts the timestamp to tenths of a second; `CreationFinds...` are the queries
of `handle_creation_event`, `SeenFinds...` and `SeenDefaults` those of
`handle_last_seen`, and `WillMove` and `WillPut` what they go on to write. `Written` is a
write that is applied and acknowledged, `Fail` a request without effect, and `GiveUp` a call
that ends while its write is in the air (its reply is lost, or the executor drops its future:
a neighbour's panic, the batch timeout). Such a write is applied at any later time, by
`Land`, or never. `skewed_cmp` subtracts on `u64`, so it wraps for
times below ten: a redelivered event of time 0 gets a second session (a debug
build panics).

The table is written without conditions: `version` ("This is an atomic version used for
transactions", `sessions.rs:25`) is incremented and never compared. A write that was decided
on an older table may leave one session two rows, or overwrite a row of another session.
That needs no two calls at once: one worker, and a move that outlives its caller, are enough
(3.4). `overlapped` therefore records whether a call ever began
while another was under way *or a write of a dropped one still in the air*, and the
properties that relate sessions to rows are stated until then; what is dropped, and lands
before the next call begins, is covered by them. `CanonicalIsCreation` holds in any case.

Times are cut to tenths of a second, so a creation may find, at its own time, a row that a
sighting guessed. It takes it for canonical (3.4) and leaves it a
guess, which an earlier creation takes over later. `CreationIsRecorded` excepts creations
that share their tenth of a second with a sighting (`TimeIsItsOwn`); the instance TLC runs
has one.

`end_time` is left out: no code makes an end canonical, and no branch with an
effect depends on it.

### 2.5 NodeIdentifier

`table` is the static mapping table and, for session nodes, the answers of
`handle_unid_session`; `writes` are puts on their way, `applied` those that took
effect, `task[w]` a `handle_event` between requests. `Find` and `Miss` are the two
answers to a lookup, `Created` the acknowledged put, `NodeFails` and `PutFails` the
failures that make a node dead, `Finish`, `FinishNone` and `Panic` the outcomes,
`Abandon` the executor dropping the future, after which its put may still be
applied (`Apply`) or not (`Lose`). Nodes are tried in any order, as in a `HashMap`.

`contended` is the set of keys that were missed while a put of theirs was on its
way. For such a key the code makes two identities and the second replaces the
first (3.4); the properties are stated for all other keys.
`Panic` is what `add_edge`'s assertion does when two ends of an edge turn out to be one; as
nothing is emitted then, no property of what is emitted tells of it.

Session nodes are reduced to one lookup and one put. That is sound because their
primary key ends in the `node_key` of the node (`dynamic_sessiondb.rs:146`), drawn
anew for each description by the derive macro (`derive-dynamic-node/src/lib.rs`):
only redeliveries of one subgraph, with one and the same time, meet in a partition
of the session table. For the same reason the interleavings `SessionDb` is checked
under arise in the deployed pipeline only between redeliveries; `SessionDb` is
checked as the component its API and its tests promise.

### 2.6 Deployment and Pipeline

`Deployment` is what `grapl-cdk` says of the chain: `writesTo` is the order of the
buckets, and each of `SysmonGraphGenerator` to `EngagementCreator` is the set of
grants its stack makes, through the helpers of `FargateService` and `Service`, as
`<<service, role, action, resource>>`. `Needs(s)` is what the code of a service does
with a message; `Allowed` compares the two. What is open to all addresses (Redis),
and what the library grants to both roles by itself (their queues), is left out.

In `Pipeline` a message is `[service, queue, receives, state, body, log, analyzer]`.
`Upload` puts a log into a generator's bucket, and the notification follows in the
same step. `Handle` receives a message, does the work and emits what comes of it;
`Delete` follows, or a `Fault` comes between them, which brings back any part of a batch:
messages of one queue that were received together, handled or not. This is what `AtLeastOnce` says of
a service and `SqsExecutor` is shown to do: between the receive and the output a
service does nothing others see. `Denied` is the service without the access it
needs, or with a body it cannot parse. `Redrive` is SQS. `Poisoned` is
`move_to_dead_letter`, which sends first and deletes then, and may fail between (`moved`).
`OperatorRedrive` is `graplctl queues redrive`, which does not look at what `send_message_batch`
says of the entries it could not send, and deletes them all the same: a message may be in
both queues afterwards, or in none, which `dropped` records. `Hang` is an analyzer's process
that ends without a result: `poll_process` waits for it for ever (`analyzer_executor.py:219`),
nothing is received from that queue (`polled`), and what was received becomes visible again.
`Restart` is somebody who notices. Messages that are alike
in everything are one: duplicates are idle repetitions of a step and need no count.

`NothingLost` and `EveryLogSettles` say what holds although redrives lose messages and services
hang: nothing but a redrive loses one (`Dropped`), and every log settles unless from some time
on an analyzer executor hangs for good (`[]<>(hung = {})`).

`settled` holds `<<log, analyzer>>`: the analyzer executor found no hit, or the
engagement creator took the hit. The dispatcher writes one output per analyzer, so a
message is for no analyzer before it and for one behind it.

`Journey` sees the whole pipeline as one worker: its messages are the logs, their outputs
the judgements of the analyzers, and a log is acknowledged when no message of it is left and no redrive lost one.
`DeliversJudgements` says that this is `AtLeastOnce` again, without dead letters: at the end
of the chain they are messages like others, which an operator can bring back. `OnlyForwards`
is the finite half of `EveryLogSettles`: while nothing fails and nobody interferes, a step
takes one message for good and brings only what is in a later service (`hops`), a later
queue (`turns`) or a later receive. There are finitely many such places, and failures,
redrives and uploads are counted, so nothing goes round.

### 2.7 LensScope, LensGraph and GraphDisplay

`LensScope` is the endpoint's answer as a function of what Dgraph holds:
`handleLensScope` with the filters of `batchEnrichNodes`, `resolveType`, which fails
the whole answer, and the depth to which the console's generated query asks
(`genField`). `LensGraph` is what the console makes of it: `vizGraphFromLensScope`, in
which the order of visits decides whether a node keeps its risks, and `mergeGraphs`
with what it really compares.

`GraphDisplay` composes them. `display` is the component's state, `fetches` the
requests in flight, each with the lens and the state of its render; `SelectLens` and
`FetchTick` add requests, `AnswerFetch` evaluates the endpoint on the present Dgraph,
`UpdateGraph` is the closure going on, which runs the effect again if it sets the
state. Links that were set in the last update are `fresh`: `react-force-graph`
replaces their uids by nodes at some time, so `UpdateGraph` is taken with either form
(`UnboundAtArrival`). `Attach`, `Connect`, `Prune` and `Deploy` are the merger, the
engagement creator, the ttl and the plugin deployer changing the world meanwhile.

Abstracted: properties of nodes other than their risk, labels, colours, positions.

### 2.8 LensTable

`rank` is Dgraph's lenses by score, `table` the component's list and offset, `asks` the
requests in flight. A request goes through the middleware (`AwaitSecret`,
`fetchJwtSecret`, `Refuse`), then `Resolve` or `ResolveFails`, and comes back in
`Answered`, where an answer with errors is an empty page, null is no page, and a
refusal rejects the promise. `NewLens` and `Rescore` change the order; `reranked`
records that they did, because paging by offset is right only until then.

### 2.9 PluginsPage, Console and EdgeApi

`Console` is the browser: `route` is the page that is mounted, `page` its state, `checks`
the login checks in flight. `Mount` is what react-router does: the new page starts
from its default state, and closures of the old one run on to no effect. `SessionEnds` is the
cookie being cleared, or the secret being replaced: `engagement_edge` signs no expiry and
sets no age, so a session does not end by itself.

`PluginsPage` is the part of the plugins page: `ListTick`, `ListAnswered`, `ListReturns` for
the table, `Edit` and `EditReturns` for deletions and uploads. The deployer is `keys`, the
keys in its bucket, `Folder` telling the plugin of a key. `listed` is one answer of
`list_objects_v2`, which has at most `MaxKeys` (1000) keys and of which no second page is
asked for. `Upload` stores one file of a directory, as the code does. A deletion is
`ListForDelete`, which takes every key that *begins with* the plugin's name, and one
`DeleteNext` for each; `EditFails` ends either halfway. `EdgeApi` is what the three lambdas
behind the API gateway may do; `LensTable` and `Console` let no request succeed that needs
more.

### 2.10 How the modules fit together

                 AtLeastOnce  <-- implements --  SqsExecutor
                   ^  |                           |       |
        implements |  | used by                   |       |
       Deployment  Pipeline   CompletionCache <-- RedisCache  SqsTimeoutManager
            \______/                              |
                           EventHandler::handle_event: NodeIdentifier
                                                  |
                                             SessionDb

       LensScope -> LensGraph -> GraphDisplay       (extends)
       EdgeApi -> PluginsPage -> Console            (extends)
       EdgeApi -> LensTable                         (extends)
       Slices -> RedisCache, CompletionCache        (extends)

`Pipeline` takes of a service what `AtLeastOnce` promises, and keeps the same promise as a
whole. `SqsExecutor` assumes less
of the modules below it than they give: its cache may forget anything, a message may
become visible at any time, a handler may give any of its four answers and may be
dropped. Each lower module assumes less than the one above gives: workers come and
go at any time, deliveries repeat. `GraphDisplay` may be handed another lens at any
time, which is all that `Console` does to it; `LensTable` is the other half of that page.

## 3. The runs

| run | instance | what it shows |
|---|---|---|
| `pipeline` | 1 log, 1 analyzer, 2 receives, 1 fault or hang, 1 poisoning, 1 redrive | `NothingLost`, `NoFreeRetry`, `OnlyForwards`, the refinement of `AtLeastOnce` by the whole, and under fairness `EveryLogSettles` |
| `pipeline_retries` | as `pipeline` | violation: what comes to a retry queue cannot be handled there |
| `executor` | a batch of 2 messages (one an `s3:TestEvent`), 1 event, 1 process, 2 receives, `ContentHash` | types, `NoLoss`, `DeleteTasksAreSafe`, `CacheIsTruthful`, `WaitsForItsTask`, the refinement of `AtLeastOnce`; every message leaves |
| `executor_recognises` | 1 message, 2 processes, `TypedHash` | violation: a processed message is not recognised |
| `cache` | 2 workers in any placement over 2 processes, 2 identities, LRU of 1 | types, `NoFalseClaim`, the refinement of `CompletionCache`, `StoresEnd` |
| `keep_alive` | 30 s visibility, 10 iterations, 450 s, latency 2 s: the deployed constants | `ExtendedInTime`, `KeptAlive`, `RetriedSoon`, `StopsInTime` |
| `session` | 2 creations and 2 sightings of one key, two of them in one tenth of a second, 2 workers, 3 sessions, 1 write in the air | the session table, see 2.4 |
| `node_identifier` | 2 handlers, a graph with an unidentifiable node, one that describes a host twice, an empty one, 3 identities | the handler, see 2.5 |
| `graph_display` | 2 lenses that share a node, a risk, a node of a plugin's type, 2 requests, 2 changes, 1 failure | `GraphOfOneLens`, `LinksJoinNodes`, `LensIsShown` |
| `graph_lens` | the same, in an unchanging world | violation: a lens that is part of the one on the screen is not shown alone |
| `lens_table` | 3 lenses in pages of 2, 2 requests, 1 failure | `ListsInOrder`, `AllListed` |
| `console` | all pages, 1 lens, 2 keys of 2 plugins of which one name begins with the other, 2 checks, 1 list, 1 edit, 1 failure | types, `LoggedOutIsTold`, `RowsFollowPlugins` |

The type invariants of `Pipeline`, `SessionDb`, `GraphDisplay`, `NodeIdentifier` and
`SqsTimeoutManager`, and `OneLateCall` of the latter, are in no run: section 4 proves them for
all constants.

### 3.1 Bounds, and why they are enough

* Pipeline (`maxReceiveCount`, `MaxFaults`, `MaxPoison`, `MaxRedrives`): messages affect each
  other only by failing in one batch. `pipeline` has one log and one analyzer, whose copies
  after a fault between send and delete, or between the two halves of a move, still meet in
  batches. With two receives, one fault and one poisoning together bring a message to the
  retry queue, where it is denied twice and comes to the dead letter queue, from which it is
  redriven once and goes round again. Three receives with three faults, and a second analyzer,
  whose messages would share batches with those of the first, are beyond a run of five
  minutes; the theorems cover them, and batches of any messages of any logs.
* Executor (`BatchSize`, `MaxReceives`): a batch of two, one with a neighbour to panic, and two
  receives, so that an old task and a new receive meet. Two processes that hold one message
  at once, several outputs of a message, three receives as deployed, and every other hash
  are covered by the theorems; `executor_recognises` has two processes.
* Cache (`Capacity`): evictions need a slice longer than the LRU cache: capacity 1, slices
  up to 2, one with a repeated identity. A third identity adds nothing that `x2`
  does not do to `x1`. Capacity and contents are not visible to callers otherwise. The theorems
  cover any processes, clones, capacity and slices.
* Keep-alive (`MaxIter`): the deployed constants themselves; TLC takes latency 2 s, and the
  theorems cover all below 5 s.
* Sessions (`MaxIds`, `MaxSent`): the queries look at the nearest row before or after a time,
  so a creation and a sighting in one tenth of a second, a creation in the next and a
  sighting after it put rows on each side of every kind of event; two workers give every
  overlap of two calls, and one write in the air every way it can land among them.
* Identities (`MaxIds`): two handlers race on a key, and a third identity can be made after
  the race.
* Graph (`MaxInFlight`, `MaxChanges`, `MaxFailures`): an answer is late if another was
  asked for after it, so two requests are enough; two more come with a changed state. Four
  nodes make a risk, a link to a node that is there in one lens only, and a node that is
  visited both at the top and as a neighbour. The theorems cover any number of all.
* Lens table (`PageSize`, `MaxAsks`, `MaxFailures`): three lenses make a full page and a
  part of one; two requests can ask for the same page. The theorems cover any lenses, page
  size, requests and failures.
* Console (`MaxChecks`, `MaxLists`, `MaxEdits`, `MaxKeys`, `MaxFailures`): two checks overtake
  each other; an edit overtakes a list. Two keys are a plugin whose name begins with that of
  another, which can be deleted with it, or by half. Both
  keys fit into one listing (`MaxKeys`); the run passes with `MaxKeys = 1` as well, where a
  listing leaves one out.

No run stops short at a bound: where `MaxIds` is reached, a handler can still be
abandoned. `keep_alive`, in which a single message ends, and the runs of the pipeline and
the console, in which nothing may be left to do, turn deadlock checking off.

### 3.2 Fairness

* `pipeline`: the services that are not hung go on, SQS redrives, messages are deleted
  (`Progress`): an executor's batch ends with its timeout, a lambda with its own, and what
  crashes is started again. An analyzer executor that hangs need not be restarted
  (`Restart` is not fair); `EveryLogSettles` assumes only that no service hangs for good.
  Faults, hangs, poisonings and the operator are not fair.
* `executor`: no step of a future or of a detached task is fair; each may hang. What ends a
  batch for certain is its 450 s timeout (`lib.rs:471`), so `Abort` is weakly fair. SQS runs
  its timers (`Expire`, `Redrive`). Receiving is strongly fair in each message:
  long polling asks all servers of the queue, so a message that is visible again
  and again is returned in the end. `MaxReceives` is what bounds the attempts.
* `cache`: only what the process does by itself (`GoesOn`: the rest of a lookup after
  the answer, and tokio's timer). Nothing makes Redis answer, so no lookup is
  promised to end: lookups have no timeout, though `REDIS_REQUEST_TIMEOUT` is
  documented as "Timeout for requests to Redis" (`redis_cache.rs:22`).
* `keep_alive`: none. Its properties are of safety, in a model that has time: `Tick` does not
  let a second pass over what is due.
* `graph_display`, `graph_lens`, `lens_table` and `console`: intervals fire as long as the page
  is there, a request is answered or fails, and a promise that settles resumes its
  closure. Requests are told apart by what the property needs (the present render or an
  older one, the offset, the toggle), so that none is overlooked for ever. The user, the
  world and lost requests are not fair.

### 3.3 What the violations say

* `executor_recognises`: the message cache never hits (2.1). Outputs are emitted
  again on every redelivery; nothing is lost.
* `graph_lens`: `updateGraph` merges first and asks later whether the graph is of the
  same lens. `mergeGraphs` "returns 'null' when there are no new updates"
  (`mergeGraphs.tsx:45`), so a lens whose nodes and links are all on the screen already,
  as part of another lens, is never shown alone.
* `pipeline_retries`: the retry instance of a Fargate service may not read its bucket, nor
  write the next one: `readsFromBucket` and `writesToBucket` add their policies to the task
  role of the first instance only (`fargate_service.ts:215`, `229`). And what
  `move_to_dead_letter` sends is the body serialised once more, which nothing can parse
  when an operator redrives it.

### 3.4 Seen on the way, not checked as violations

In the services:

* `graplctl queues redrive` deletes from the dead letter queue every message of the batch it
  sent, also those that SQS reports as not sent (`queues/lib.py:57-65`). A message is lost
  so in `Pipeline` too: `dropped` holds it, and `NothingLost` and the refinement count it as
  given up.
* `update_session_create_time` deletes the row it read and puts one elsewhere, "in one
  transaction" (`sessiondb.rs:125`), but without a condition. When the row has moved
  meanwhile, because a write of a dropped call lands late or because calls overlap, nothing is
  deleted, and the session has two rows. One worker is enough.
* The row a creation finds at its own time need not be "already canonical, with an accurate
  timestamp" (`sessiondb.rs:347`): a sighting of the same tenth of a second may have guessed
  it. The creation leaves it a guess, and an earlier one takes it over.
* Two handlers that look one key up before either has written make two identities and emit
  both (`dynamic_sessiondb.rs:239`), where the README of the repository has "canonical
  identities" (48-49). No failure is needed.
* `redis_cache.rs:187` says an LRU entry was stored in Redis. The put comes first and
  stays when the request fails, and later stores of the entry skip Redis.
* Sessions are keyed by node, not by node type (`dynamic_sessiondb.rs:145`), so the process
  of `services.md:21`, described in two events, gets two identities.
* One failed `ChangeMessageVisibility` ends the keep-alive ("it's probably fine",
  `sqs_timeout_manager.rs:98`), against "will ensure that a message will stay
  alive" (line 171). `KeptAlive` excludes it. The keep-alive also starts only after the
  cache was asked, and that lookup has no timeout (`lib.rs:200`, `redis_cache.rs:118`).
* `add_edge` asserts that the ends of an edge differ. Two nodes of a subgraph with
  one primary key and an edge between them make the handler panic on each
  delivery, and its batch with it (`Panic`).
* `HashCache::filter_cached` (`node-identifier/src/lib.rs:350`) keeps what is cached
  instead of what is not; nothing uses it in the deployment.
* A batch of ten comes back as a whole when one message raises in a lambda, ends the analyzer
  executor or panics in a Rust service: after three times all ten are in the retry queue.
  `NoFreeRetry` and `EveryLogSettles` hold; what is judged is judged again.
* An analyzer executor whose child process dies without a result stops for good
  (`analyzer_executor.py:219`); nothing in the repository watches for it.
* The dashboard of the pipeline shows each service's retry instance under the title of the
  service and the other way round (`pipeline_dashboard.ts:42`).

In the console:

* The login check is not "schedule[d] to re-run every N seconds" (`EngagementView.tsx:152`)
  once it has had an answer (136): a session that ends later is not noticed there.
* A late answer to a login check writes back the lens and the node of its render
  (`EngagementView.tsx:145-149`).
* A late page of lenses unfolds a table the user has folded, and paging by offset misses
  or repeats lenses when scores change (`toggleLensTable.tsx:52-73`).
* A node that is visited again as a neighbour of a later one loses its risk
  (`vizGraphFromLensScope.tsx:51-88`), and `mergeNodes` writes what it merges to a copy that
  is dropped (`mergeGraphs.tsx:4-39`): a node on the screen never changes.
* Links whose ends are still uids share a key (`mergeGraphs.tsx:73-79`): one per name is
  kept of them.
* The percentiles that colour nodes and links are taken over `node.risk`, which nothing
  sets (`nodeCalcs.tsx:3-33`, `linkCalcs.tsx:40`): any risk counts as the highest.
* One node of a type without a schema makes the whole scope an error
  (`schema_to_graphql.ts:131-135`, `fetch.ts:54`). `LensIsShown` excludes it.
* A request whose fetch of the JWT secret fails is never answered (`jwt.ts:44-47`).
* A plugin is deleted with every other whose name begins with its name
  (`grapl_model_plugin_deployer.py:557-560`), and the table then shows the rows it had
  before (`pluginTable.tsx:89-94`) until it is listed again. A deletion that fails halfway leaves
  half a plugin (565-566), and what is beyond 1000 keys is neither listed nor deleted. Of an
  uploaded directory the deployer stores one file (493-495), and the page never says that an
  upload succeeded (`uploadPlugins.tsx:95-102`).

## 4. The proofs

| theorem | for |
|---|---|
| `Pipeline_proofs`: `TypeCorrect`, `NothingIsLost`, `RetriesAreForFaults`, `GoesForward`, `JourneyIsAtLeastOnce` | any logs, analyzers, batches, receive limit and numbers of faults, hangs, poisonings and redrives; the deployed services and grants |
| `SqsExecutor_proofs`: `TypeCorrect`, `SafetyCorrect`, `NothingIsLost`, `LateDeletesAreSafe`, `CacheCorrect`, `FuturesWaitForTheirTasks`, `Refinement` | any messages, events, processes, batch size, receive limit, and any hash without collisions |
| `RedisCache_proofs`: `CachesAreBounded`, `NothingClaimedFalsely`, `ImplementsCompletionCache` | any processes, clones, identities, slices, and any capacity but none |
| `SqsTimeoutManager_proofs`: `TypeCorrect`, `InvisibleWhileManaged`, `LateCallsAreBounded`, `AliveWhileWorking`, `GivenUpIsRetriedSoon`, `StopsWithinOneCall` | any visibility timeout above 10 s, any number of iterations, any latency below 5 s, any batch timeout the extensions outlast (`BatchAssumption`) |
| `SessionDb_proofs`: `TypeCorrect`, `CanonicalCorrect`, `CreationsKeepTheirSession`, `SessionsAreUnique`, `StartsMoveBack`, `RedeliveriesAgree` | any events, workers and dropped calls; the last four until a call begins before the writes of the others are done with |
| `NodeIdentifier_proofs`: `TypeCorrect`, `RecordedFirst`, `OneIdentity`, `IdentityStays`, `SuccessMeansAll`, `EdgesAreWhole` | any subgraphs and any number of handlers |
| `GraphDisplay_proofs`: `TypeCorrect`, `OneLens`, `NoLinkDangles` | any lenses, nodes, edges, requests in flight and changes of the world; the last if edges named "risks" lead to risks |
| `LensTable_proofs`: `TableInOrder`, `OffsetsAreLengths` | any lenses, page size, requests in flight and failures |

**Pipeline.** `NothingLost` counts a message that was handled as standing for its log, and
such a message is deleted: not inductive. `Stands` asks for a visible message instead, or that
a redrive lost one (`Dropped`). A
visible message disappears only in `Handle`, whose outputs are visible and stand for the
same (`OutputsStand`), or when the verdict is in, or in a redrive, which then drops it; every
other step puts one in its place
(`Replaced`, and `Succession` for a batch). For `NoFreeRetry`, `Paid` counts: in its first queue a message was received
at most once per fault and poisoning, and once more while it is handled. That `Denied`
does not spend a receive there is `DefaultRolesAreAllowed`: each need of each service is
among the grants of its default role. `GoesForward` needs the types alone: a step that counts no
failure, redrive or upload is one of `Progress`, every bucket is that of a later service
(`WritesFurther`), and every queue but the last leads to a later one (`RedrivenFurther`).
In `JourneyIsAtLeastOnce` all steps but two leave the logs that are done with as they are
(`ReplacedDone`: a message gives way to others of its log). `Handle` may publish a judgement.
`Delete` of the last message of a log is `Acknowledge`, and `Stands` after the step is its guard:
with no message left, and none lost, every judgement must be in.

**SqsExecutor.** `NoLoss` is not inductive: whether a delete is safe was decided
stages before it. `Safety` adds `CacheIsTruthful`, `DeleteTasksAreSafe` and
`WorkProgress`: in a future that emits or caches, every output of its result is
downstream or still in `todo`; after emission `todo` is empty; and with verdict
`ok` the result together with what the cache let it skip is the whole message.
The last part is why the cache must be truthful for nothing to be lost. From
`NoCollision` a cached key speaks of one message or one event. `Refinement` maps
a message that was deleted to `acknowledged`; `DeleteOk` is the one step that
becomes `Acknowledge`, and `DeleteTasksAreSafe` is its guard. `WaitsForItsTask` becomes inductive
with `Receipts`: no future and no task has a receipt that the queue has not given out yet, so a
new receive finds no task of its own. From there on a future gets a task only by spawning it
(`Spawns`), and stops waiting only when that task ends (`WaitsTask`).

**RedisCache.** `Honest` is the invariant: every LRU cache holds offered identities only, each
once and at most `Capacity` of them, Redis and `wire` hold offered keys, and a call has a
shape of its own in each stage: what it leaves out of its slice is offered, and what misses
is the slice without a set. The last is what makes two lookups, one in the LRU cache and one
in Redis, a single one (`WithoutTwice`), however much the LRU cache changed in between. A
`put` keeps a cache what it is (`PutIs`), and then so do all of a slice's (`PutAllIs`). The
recursive functions behind both, over positions of a sequence, are shown to exist and to be
defined by their equations (`KeptExists`, `KeptIs`); what holds at each position follows
from the least position at which it fails (`LeastNat`, `Counting`). In the refinement
a lookup that Redis is asked for begins in `FilterInLru` and ends in `FilterInRedis` or
`GetFails`, any other is over in one step (`Filter`), and what Redis and the wire do is a
stutter.

**SqsTimeoutManager.** `Margin`: while the manager sleeps, `visible >= sleep + 10 -
Latency`; while a call is on its way, at least `10 - Latency` less its age; and the
extension, once in force, is as long as the next sleep and ten seconds more. That
the code subtracts ten seconds from the sleep and not from the timeout is used in
`Intervals`. `LastCall` says that a late call leaves a positive sleep, so the stop is
seen before a second one. `Overtime` measures it: what the manager outlives its worker by has
passed within one call, because a sleep it sets after that call does not begin. `AliveWhileWorking` is about what comes after the extensions.
`Slept(n)` is twice the sum of the first n sleeps; `Aged` says that a future whose manager
makes its n-th extension has worked that long, and `Outlives` that with the last extension
the message outlasts the age `Slept` allows. `BatchAssumption` says that this is beyond
the batch timeout: with 30 s and 10 extensions 450 s (`lib.rs:472`) could be 1880. The
same sum bounds a message that is given up: before the sixth sleep has ended the future has been
dropped (`SixIsLate`), so no extension exceeds six times the timeout (`AtMostSix`).

**SessionDb.** `CanonicalCorrect` needs only that a pending write carries its event's
kind (`IsWrite`). The other four hold until `overlapped`, from one invariant, `CalmInv`.
`TableInv` is of the table: the rows of a session are one, every answered creation is recorded,
a guess is at the time of a sighting (so a creation whose tenth of a second is its own never
lands on one), ids were created, and what the latest event was told is what the table still says
(`LatestIsSaid`). `CallsKnow` is of what was read and is going to be used: a write, of a call or
in the air, is a `GoodWrite`, which takes away only a guess that is still there and starts no
earlier, puts it at a free place, and carries the id of no other row. That is what a write
loses when something comes in between, and why a late one does harm. `AtMostOne` says
that nothing does: one call, or one write that is left of one. `CallAlone` and `LandAlone` draw
from it that the step at hand is alone; `DecidesWell` shows that what the handlers decide on is
a good write, and `WriteTable` that a good write leaves a good table.

**NodeIdentifier.** `Recorded`: an identity that a handler holds, that was emitted or
that is in the table was applied. `Settled`: for a key that is not contended,
every put that took effect is what the table holds, and a put is on its way only
while the table has none, and then alone. `OneIdentity` follows from the two.
`EmittedWell` looks at the graph emitted last. What `Finish` keeps of the edges are those
both of whose ends have an identity, and with outcome `ok` every node has one; `add_edge`
asserts that the two differ, or nothing is emitted (`Panic`).

**GraphDisplay.** `Inv` says the same of the state on the screen and of those closures
hold, and of each scope that was answered: its nodes are the lens's, and every edge that
will be drawn leads to a node that will be (`Closed`). `AnsweredScope` gets that from the
endpoint's filters, `GraphOfScope` carries it into a graph, `Merged` through a merge: nodes
only grow, and no link comes from elsewhere. An edge named "risks" passes the filter of the
scope whatever it leads to, which is why the theorem assumes what the schemas say of it.

**LensTable.** Every list a render holds travels with its own offset, in the table and in the
requests; `WellPaged` says that the offset is the list's length, and needs nothing of
the order. `OrderInv` adds that until the ranking moves every such list is its beginning, and
each page in flight the part that follows the list it was asked for (`Served`,
`PageInOrder`), or no lens. Then an answer leaves a beginning of the ranking, the late one of an
older render too (`PageContinues`), and a lens that comes in last disturbs none (`PrefixOfLonger`).

**Only model-checked.** The liveness properties (`EveryLogSettles`, `EventuallyLeaves`,
`StoresEnd`, `LensIsShown`, `AllListed`, `LoggedOutIsTold`, `RowsFollowPlugins`): the prover
does not do fairness. What they rest on short of fairness is proved for some of them:
`OnlyForwards` for `EveryLogSettles`, `WaitsForItsTask` for `EventuallyLeaves`. Of the safety
properties, the types of `Console` alone, which no other property rests on.

## 5. Not modelled, and why

* **Dgraph's writers**: graph merger, engagement creator, dgraph ttl. What makes them hard is
  Dgraph's transactions, of which the repository holds only the calls. Their hazards are
  known: two mergers that upsert one node (`upserter.rs:113`), an edge dropped because an end
  has no uid yet (`upserter.rs:225`), merges of properties that depend on the order
  (`graph-descriptions/src/lib.rs:369`), an upsert that returns a placeholder for a uid
  (`engagement_creator.py:164`), a lens's score written from an older sum (`309`), one step of
  many failing (`266`), the ttl's page that grows while it is read
  (`grapl_dgraph_ttl.py:141`).
* **Analyzer executor**: two processes, a pipe and three caches around code that is loaded at
  run time; the caches are asked and written under different names
  (`analyzer_executor.py:203`). Its place in the pipeline is modelled, with its batches and the
  wait for a process that died (`Hang`).
* **Batch lookups** (`dynamodb.rs:75`): one loop; whether it ends is DynamoDB's choice.
* **Graph generators, analyzerlib, wire formats, graph descriptions**: parsing and building of
  data, without state that outlives a call.
* **Metric forwarder, ux-router, provisioner, notebook, graplctl but for redrive, swarm scripts,
  pulumi, the rest of grapl-cdk**: one-off or stateless calls of AWS, and declarations.
* Of the console: what things look like, the notebook, the upload's message; of the endpoint
  that GraphQL integers have 32 bits and Dgraph's uids 64.

## 6. Where to go from here

1. `PropertyMerge`: the merges of `graph-descriptions/src/lib.rs:347-512` as functions, with
   commutativity and idempotence as theorems where they hold.
2. `GraphMerger` over an abstract Dgraph with optimistic transactions: one node per
   `node_key`, edges to nodes another merger is writing.
3. `EngagementCreator` on the same Dgraph: a retry is idempotent; the score of a lens.
4. `AnalyzerExecutor`: parent, process, pipe, caches and the Python event retriever.
