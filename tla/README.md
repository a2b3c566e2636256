# mcpr in TLA+

mcpr is a reverse proxy for MCP servers. A client's HTTP request goes through a
pipeline to one upstream server; on the way back the proxy tracks the session,
rewrites what has to be rewritten, and emits events. An event bus hands the
events to sinks: a log on stderr, a SQLite database, and a cloud endpoint.

This directory holds TLA+ modules of those parts and of the command line that
configures and starts them, the TLC configurations that check them on small
instances, and TLAPS proofs of the most important invariants for every instance. Paths below
are relative to `src/crates/`. `PROJECT.json` maps each definition to the lines
it stands for and lists the hazards the properties are aimed at.

## Inventory

| Part | State | Operations | Talks to |
|---|---|---|---|
| Session store (`mcpr-core/src/protocol/session.rs`) | two maps under one mutex: session id to info, JSON-RPC id to session id | `start_session`, `track_request`, `end_session`, lookups | called by the session stage |
| Stage pipeline (`mcpr-core/src/proxy2/stage/`, `proxy2/mod.rs`) | one task for each request: its context, the upstream's results | parse, route, session / schema / CSP / log stages, encode | upstream, session store, event bus |
| Router and pool (`router_stage.rs`, `upstream/pool.rs`) | four HTTP clients | single call, batch, plain HTTP, event stream | upstream |
| Event bus (`mcpr-core/src/event/bus.rs`) | bounded channel, the thread's batch, shutdown channel | `emit`, dispatch, flush tick, `shutdown` | sinks |
| Store and writer thread (`mcpr-integrations/src/store/engine.rs`, `writer.rs`) | bounded channel, batch, time of last flush, SQLite connection | `record`, batch loop, flush, `shutdown`, `Drop` | SQLite |
| Cloud sink (`mcpr-integrations/src/sinks/cloud_sink.rs`) | bounded channel, buffer, retry loop | `on_event`, flush on size / interval / close | cloud endpoint |
| Gateway (`mcpr-cli/src/main.rs`) | server task, signal task, heartbeat task, watch channel | start, serve, shut down | everything above |
| Store schema and rows (`store/schema.rs`, `db.rs`, second half of `writer.rs`) | six tables | inserts, upserts, change log, vacuum | SQLite |
| Queries (`store/query/`) | none; reads of the tables | log, slow log, statistics, schema and its usage, session detail, store counts, dry run | SQLite, beside the writer |
| MCP messages (`protocol/mcp.rs`, `protocol/mod.rs`) | none | parse and classify a request, classify an answer, encode | pipeline |
| SSE codec (`protocol/sse.rs`) | parser buffer, current frame, frames waiting | feed a chunk, pop a frame, decode a whole body, encode a frame | router |
| Schema tracking (`protocol/schema.rs`, `schema_tracking_stage.rs`) | none | one event for each entry of a list | event bus, later the change log |
| CSP policy (`proxy2/csp.rs`, `csp_rewritten_stage.rs`) | configuration only | lower the `[csp]` table, merge domain lists, match globs, rewrite metadata | pipeline |
| Auth (`mcpr-core/src/auth/`) | metadata fetched at start-up | parse credentials and challenges, answer discovery | pipeline |
| Event payloads and formats (`event/types.rs`, `wire.rs`, `sinks/stderr_sink.rs`) | none | what is logged of an exchange, the cloud's envelopes, the line on stderr | sinks |
| Timer (`timer/`) | spans of one request | start, end, sum | pipeline, log stage |
| Configuration and setup (`mcpr-cli/src/config.rs`, `cmd/setup.rs`) | files, the cached login | load, validate, lower; the setup dialogue | cloud client, gateway |
| Cloud client (`mcpr-integrations/src/cloud_client.rs`) | none | log in, list and create projects, servers, tokens | cloud |
| Benchmarks, examples, tables printed on a terminal | none | | |

### What is hard in this code

* **Locks released before events are emitted.** The session stage changes the
  store under its mutex and emits the resulting snapshot afterwards. Requests of
  one session run on several threads.
* **Futures dropped at an await.** A client that disconnects makes hyper drop
  the handler wherever it waits.
* **One request id, several sessions.** JSON-RPC ids are chosen by clients, and
  the reverse index of the session store is keyed by them alone.
* **Three bounded channels in a row** (bus, store, cloud sink), each of which
  drops when it is full, with a batch behind each.
* **Shutdown**: of the bus (signal, last drain, flush, join), of the writer
  (sender dropped, last batch, join), of the cloud sink (sender dropped, never
  joined), and of the process (joins none of them).
* **Retries** against an endpoint that may have taken the data in.
* **Partial failure**: of a batch of calls, of a transaction, of a stream, of a
  setup.
* **Bytes that arrive in pieces.** A stream may be cut anywhere, between CR and LF
  too, and what the client gets must not depend on where.
* **One exchange told four times**: to the client, to the log, to the cloud and to
  schema tracking, each in a form of its own, before or after the rewriting.
* **Layers of policy** in two shapes of metadata, perhaps rewritten twice.
* **A validator and a loader** that decide about one file by different code.

### What makes each part correct

* Session store: the two maps agree; a request is counted once; metadata and
  counts of a live session are never lost.
* Pipeline: the events of a request say what its client was told; a failed
  request leaves no trace in the store; the sessions table shows the sessions.
* Event bus: accepted events reach every sink once and in order; `shutdown`
  returns, after everything was delivered and flushed.
* Writer: accepted events are committed once and in order, none waits for ever,
  and `shutdown` returns after the last flush.
* Cloud sink: every accepted event is acknowledged or given up, never silently
  lost; repeats are repeats of whole batches; no false reports.
* Gateway: a shutdown finishes what was begun; a file that validates without a
  message can be run; setup leaves other files alone.
* Rows and queries: a request is joined to the first answer under its key and to no
  other; statistics count a call once; a dry run foretells the deletion.
* SSE codec: one meaning for a stream, however it is cut.
* Schema tracking: what the server serves, not what the gateway makes of it.
* CSP: a host enforces exactly what the operator's layers allow; frames fail
  closed; the proxy stays reachable.
* Events and formats: the sinks are told what the client was told, and agree.
* Timer: the upstream's share is a share.

## Modules

`SessionStore` — each method is one action, because both maps live behind one
mutex. A `HashMap` is a total function with a distinguished value for "no
entry". The clock fields are left out. `UsesId` says which JSON-RPC ids the
responses in a session carry, so that shared and private ids are both covered.
Deviations named `...Unchecked`, `...KeepingIndex` and so on, here and in the
other modules, are not part of any specification: they are the edits that show
that a property can fail.

`OrderedBroadcast` — what a bus promises, without threads, batches or flushes:
events are accepted in order or dropped, and every sink gets a prefix of the
accepted sequence that only grows.

`EventBus` — the bus, one action per step of the thread between which an emitter
or the owner can act: the receive, each further `try_recv`, the hand-over to
each sink, each sink's flush, the tick, the signal. It implements
`OrderedBroadcast` under the refinement mapping `done <- (pc = "exited")`; the
other variables have the same names.

`StoreWriter` — the writer thread and the `Store` handle. The loop's control is
kept position by position (`receive`, `fill`, `flush`, `check`, `tail`); the
clock is one bit that says whether 200 ms have passed since the last flush. A
transaction may fail at any event when `DbFails` is true. `discarded` holds the
event that the test for the end of the loop may throw away.

`ProxyPipeline` — extends `SessionStore` with tasks. A task is a record with a
program counter: it waits for the upstream, streams, goes through the session
stage (`track`, `close`), holds a snapshot it has not emitted (`publish`), and
logs. The bus is abstracted to what `OrderedBroadcast` promises: an event is
dropped or takes effect in order; `row` is the sessions table as the upsert
leaves it. `overtaken` and `dropped` are history variables that say for which
sessions the table may be wrong. The server answers under any ids, not only those it
was asked under, since the stage takes the id of the response; and it may answer a
plain HTTP request, a DELETE among them, with a JSON-RPC document, which then goes the
way of the calls (`UpstreamAnswersHttpWithRpc`).

`CloudSink` — the sink's channel, buffer, and posts. The cloud is external: a
post that looks failed may be lost, or be taken in at any later time
(`LateArrival`).

`GatewayShutdown` — the process around all this: open requests, the server task,
the shutdown flag, main and the two threads that carry events. The bus and the
writer are one step each here.

`StoreRows` — the tables as sets and functions, with the unique keys and upserts
that the schema gives them. Several gateways write into one database, each under
its proxy's name. An event is one action; a statement that fails ends it, and
what was written before stays, so the action writes a prefix. The view that joins
requests and responses is an operator (`Answers`), in which NULL equals nothing. The
ids a server answers are any, asked or not, and so is the session in the header of
its response, which the writer takes as they are.
Vacuum is another process: its two deletions are two actions. The history
variables say which exchanges the writer was handed, what hash of an item it saw
last, and for which items a statement failed.

`StoreQueries` — what the queries answer, as operators over the tables of
`StoreRows`, which it extends: the joined log with its filters, pages and
cursors, slow calls, statistics per tool with nearest-rank percentiles, schema
and schema usage, a session with its calls, and the dry run of vacuum. A page is
a relation (`IsPage`), because SQLite may break ties as it likes.

`JsonValues` — JSON documents as tagged records, with the reads the code makes of
them, the values at each level of a document, and what it means that two lists have
the same entries. Text is a model value or a sequence of pieces where the code looks
inside.

`McpMessages` — what is a request, a batch, a response, a result or plain HTTP,
by content type and shape; the encodings back.

`SseCodec` — both decoders and the encoder. Bytes are grouped into tokens: CR,
LF, colon, space, field names, documents, and one token that is no UTF-8. A chunk
may end after any token, so that every CR LF may be split.
`DecodeFrames` reads a whole body; `Feed` keeps a buffer, a current frame and the
frames not yet taken.

`Csp` — the lowering of the `[csp]` table (modes, defaults, widget overrides) and
the merge of one directive's list: upstream, global, widgets in their order, the
server's own references taken out, the proxy put first. The server is known by the
host in `mcp`, without scheme and path (`StripScheme`). `CspRewrite` — the stage:
both shapes of metadata, the inference of a widget's URI (a set of none or one, since an empty URI is a URI),
and the deep injection.
What recurses in the code, over a pattern or over a document, is a recursive function
here, so that it can be reasoned about: the glob matcher over the places in pattern
and text, the injection over the levels of a document from the lowest one up
(`MaxNesting`; serde_json's parser refuses more than 128 levels). `CspChain` — a
result on its way through one gateway, or through two when the upstream is a gateway
with the same file. Its constant `Documents` is the set of the results and of
everything in them.

`AuthDiscovery` — credentials and challenges as they are noted for the log, and
the answers of the OAuth providers.

`EventFormats` — the projection that is logged (resources lose their bodies), the
cloud's envelopes, and the line on stderr.

`Exchange` — composes all of these into one HTTP exchange: intake and
classification, the router's single call, batch, plain forwarding and event
stream, the stages for each result, the encoder, and the emission of events. A
stream is relayed while it arrives; the upstream may fail or end, and the client
may leave, at any point. `raw` and `sent` are history variables. The session stage
is in `ProxyPipeline`, which has several exchanges at a time but only the outline
of each.

`GatewayConfigs` — a config file as the loader sees it, `validate` with its
messages, and the lowering. `GatewayStart` — the setup dialogue question by
question with the cloud's answers and refusals, the cached login that grows old,
files that a user edits by hand, ports that other programs take, and a gateway
that starts from a file, serves, and stops. Setup finds a free file name
(`ChoosePath`) and writes the file (`Write`) in two steps, between which anybody may
make a file of that name. The search itself, name after name, is one step: config
files are edited and never deleted, so what holds when the last name is looked at
holds of the names before it too. `build_app` fails on an upstream that is no URL, and
where the system's certificates do not load.

`Lists` — two things the code does with lists everywhere, as recursive functions
and without operator parameters, so that they can be reasoned about: keeping the
entries that pass a test, and adding an entry unless it is there.

`MC...` modules give the constants their values. The `...Proofs` modules hold the
theorems about the module they are named after, and some about a module beside it:
`SessionStore` in `ProxyPipelineProofs`, which extends it; `StoreQueries` in
`StoreRowsProofs`; `GatewayStart`, `Csp`, `CspRewrite` and `CspChain` in
`ConfigurationProofs`; `SseCodec`,
`McpMessages` and `EventFormats` in `ExchangeProofs`. `ListProofs` holds the lemmas
that several of them cite, about numbers and about lists: folds, lists mapped,
filtered, flattened and joined, and two lists filtered in step.

## Runs

| Run | Shows | Bounds, and why they are enough |
|---|---|---|
| `session_store` | index and counters stay right under every mix of start, track and end | sessions that share ids and sessions that do not, so that an entry can be overwritten by one session and cleared by another |
| `event_bus` | exact delivery, shutdown, flush, refinement | two sinks, a channel and a batch of two: both fill up, and events come in while a batch is handed over |
| `store_writer` | order, accounting, shutdown, no event waits for ever; with failing transactions | channel and batch of two, five events: a full batch, a partial one, and a shutdown with work left |
| `pipeline` | events, store and table agree across three concurrent tasks | one session: an initialize or a call, a batch of two, and a call or a DELETE; a stream of up to two frames beside them; two ids, under either of which the server may answer; a DELETE answered with a JSON-RPC document; the bus may drop (2.6 million states) |
| `cloud_sink` | accounting, repeats, true reports, settling, stop | buffer and channel of two, two attempts (three in the code: one more adds states, no new kind of step), four events: a buffer fills while an earlier batch is repeated |
| `exchange` | the client gets every result of a stream in order, the log, the schema events and both sinks say what the client was told, no call is lost, the upstream's time is a share of the whole | requests: lists, a read, batches in both orders, an empty batch, one with a broken member, a notification, an initialize, a DELETE, a GET stream, two discovery paths. Answers: results of the call asked and of others, a batch, 401, plain text, and streams with all three line ends, a last CR, comments, foreign events, a notification, an unfinished frame, invalid UTF-8. A clock up to two tells apart earlier, equal and later |
| `csp` | the lists a host reads are those the policy allows, through one gateway or two | an upstream with and without a path in its URL; the connect, frame and redirect lists set in every way a file can set them, a mistyped mode among them; up to two widget overrides, in both orders; results with the policy in either shape, in both, misplaced, of the wrong type, or missing. `MaxNesting` = 8, more than any of these documents has after two rewritings |
| `gateway_start` | a gateway that fails to start does so for its environment or for something the validator has a message about; setup spares the files that were there when it looked for a name | two clouds, three file names (so that `next_available` has something to skip), one port, one good and one mistyped URL, a hand-written file that is good or broken; one setup, edit and run each. The two processes touch each other through files and ports only, so the setup comes first (`SetupFirst`; 2.1 million states) |
| `store_rows` | requests joined to the first answer under their key, statistics that count a call once, an exact change log, vacuum that spares what is in use and does what its dry run said; with a failing statement | a number and a string id of the same text, one more id, and a batch of two; two proxies that share two sessions, either of which the header of an answer may name, and any set of ids answered, so that an exchange can answer for another; two hashes, one vacuum, one failure. `MaxEvents` and `MaxWork` allow two exchanges, or one among two other events, or three others: the join reads what exchanges write, the other properties what all events write. Swapping the proxies, the sessions or the hashes changes nothing (1.1 million states). A vacuum up to the first time stamp deletes nothing and is left out |

These runs pass. Three more each check one statement that a comment or a document
of the repository makes, and that the code does not keep. Each is a finding in
`PROJECT.json`, with the line that makes the statement:

| Run | Statement | What happens |
|---|---|---|
| `session_store_end` | ending a session clears the entries that pointed at it | it also clears those that point at another session with the same ids |
| `gateway_shutdown` | SIGTERM finishes requests in flight | main returns without waiting |
| `store_rows_latency` | the join recovers the latency | both rows of an exchange have the one time stamp of the event |

Where a statement holds up to a point, the property says how far, and passes:

* `ProxyReachable`: lists in metadata that is no widget's get the proxy too, as the
  comment at `csp_rewritten_stage.rs:236` says, where `docs/proxy/WIDGET_CSP.md:149` and
  :28 say that such metadata is left untouched. The property follows the code. In the
  run, a `file://` resource template with a list `connect_domains` comes back with the
  proxy in it.
* `EveryEventAccountedFor`: the writer loses no event but one, at most, that is
  queued after the owner let go of it and received by the loop's last test
  (`writer.rs:94`); the module's comment promises that none is lost.
* `MirroredUnlessOvertaken`: the sessions table mirrors the store unless two
  snapshots overtook each other after the lock was released
  (`session_tracking_stage.rs:93`) or the bus dropped one; the table's comment
  has no exception.
* `FailureLeavesNoTrace`: failures of the exchange itself. A DELETE that the
  server refuses still closes the session (`session_tracking_stage.rs:127`),
  though the comment above it says that a close follows an accepted one.
* `CountedRequestsSucceeded`: the ids a session lists were answered with success, but
  need not have been asked: the stage lists the id the response carries
  (`session_tracking_stage.rs:81`).
* `AnswersPairUp`: a request is joined to the first answer that any exchange brought
  for its id in its session. With a key used again, or a server that answers ids it
  was not asked, that is another call's answer (`schema.rs:124`).
* `SavedConfigsKept`: a file of the chosen name that somebody makes between setup's
  look and its write is overwritten (`setup.rs:259`).
* `ValidatedConfigStarts`: a file without `mcp` cannot be run, and `mcpr validate` has
  a warning about it and exits with status 0. The other ways to fail are the store, the
  system's certificates and the port.

### What the properties of the newer runs say

`StreamedInOrder` compares what the client decodes from its answer, with what
waits in the parser, with what the buffering decoder makes of the bytes so far:
the incremental parser is checked against the other one for every way to cut the
stream, through rewriting and encoding. `LogMatchesAnswer` is about the order of
the stages (the log after the rewriting) and about what must never be logged (the
body of a resource). `SchemaAsServed` is about the other order: schema before CSP.
What is announced has the members the server gave the entry, and the name the
client was told; a member that is `null` and one that is absent count as the same.
Among the answers is an event stream without a byte in it, which the client of a
single call gets as an empty stream.
`SinksAgree` pairs the envelopes with the results by id, whatever order the server
answered in. `NothingSkipped` is about the calls of a batch and their order.
`TimesConsistent` is about spans that are still running when a frame is logged.

`ListsFollowPolicy` states the effective list of a widget as a set, from the layers
that no later layer replaces, and compares it with what the fold over layers and
the rewriting in two shapes leave, after one pass and after two.
`FramesFailClosed` and `ProxyReachable` are the two things an operator relies on
without reading the merge. `ProxyReachable` is about every list at every level of a
result, in a widget or not, and only about the methods the stage looks at: it leaves the
results of other methods, those of prompts for instance, as they are. `ListsFollowPolicy` says in
words of its own (`NamesHost`) which references are the server's own: those that
mention the words of its URL between scheme and path.

`ValidatedConfigStarts` relates two pieces of code that read one file for different
ends. `SavedConfigsKept` is an action property about a long dialogue, any step of
which may fail, and about two looks at the files, the one that chooses a name and the
write, between which others write too.

`AnswersPairUp` says exactly which answer the log shows, whatever keys clients and
server use: the first one there was, one only, and none where there was none.
`LogCountsOnce` says that log, statistics and view have one row per call, however
often a key is used again; `DryRunForetells` relates vacuum's preview to what its
two deletes do, when nothing comes in between.

### What the models also show, without a run of its own

Of the pipeline:

* A client that disconnects leaves no event at all, where the comment on
  `RequestEvent` (`event/types.rs:184`) counts on an orphan one: the future is
  dropped where it waits.
* When one call of a batch fails the client gets a 502 for the whole batch,
  although earlier calls were carried out. Calls and answers are paired by
  position, and an empty batch is answered `[]` without the server.
* A batch of one call is answered with an object. An item of a batch that is
  answered by an event stream of one result is accepted, though a comment at
  `router_stage.rs:163` says that such upstreams are rejected.
* A stream of several results emits an event for each, and one without results
  emits none.
* Hop-by-hop headers of the server's answer are forwarded, except for GET
  streams, and of a repeated header the last one wins.
* A stream with CR line ends has every frame held back until the next byte.
* `pool.rs:67` says that the requests of a session share a connection; the router
  picks by JSON-RPC id.
* A result of `null` loses its `result` member on the way.

Of the sinks and tables:

* An ordinary HTTP request that is answered with a JSON-RPC document is logged
  with status 0 and size 0 in the cloud's envelope, and without its session.
* Vacuum never deletes responses. A request that uses a key anew is joined to the
  answer of the deleted one.
* A vacuum scoped to one proxy (`docs/CLI.md:87`) also deletes the closed
  sessions of the others, if no request of theirs is left. Its dry run counts
  sessions while the requests are still there, and so misses those that their
  deletion frees.
* A change-log row that fails after its item was updated is never made up for,
  and a read of the old hash that fails is logged as a new item.
* The request of an `initialize` has no session id, so it is never joined to its
  response; a call answered with an error has no response row, so the view's
  status is never "error".
* Since latencies are zero, the slow log is empty for any positive threshold;
  statistics fail as a whole while a call in the window has no answer.
* `logs_since` misses rows that share the cursor's time stamp or come in late.

Of policies and configuration:

* A mistyped mode means "extend". An entry under `ui://` whose `_meta` is `null`
  gets no policy. A reference to the server is recognised by substring.
* `validate` does not look at redirect and base lists. No configuration leads to
  the reflecting OAuth provider, and no code reads `[store]`.
* Without a port the gateway listens on 3004, while the protected-resource
  document names port 0.
* `mcpr proxy setup` writes `mcpr_2.toml` and so on where there is an `mcpr.toml`, though
  `docs/CLI.md:36` and :55 say that it writes `./mcpr.toml`; `mcpr proxy run` reads the
  former only when told.
* Setup writes the cloud's base URL as endpoint, where the sink posts to the URL
  as it stands.
* A login is kept on disk, though the comment at `cloud_client.rs:3` says never.
* A start that fails leaves bus and store without their shutdown.

All runs set `CHECK_DEADLOCK FALSE`: the bounds on requests and events let every
system come to rest.

## Fairness

* Bus: weak fairness of the thread's own steps, since an OS thread that is
  runnable runs; strong fairness of the three `select!` branches, since tokio
  polls them in random order, so that a branch that is ready again and again is
  taken with probability one.
* Writer: weak fairness of the thread, of the passing of time, and of the join.
* `session_store`, `pipeline`, `exchange`, `csp`, `store_rows`, `gateway_start`: none.
  Their properties are about what may happen, and hold wherever a run stops. Nothing
  makes an upstream answer, and a request that it never answers waits for ever (no
  timeout in the code ends it).
* Cloud sink: weak fairness of the task's branches and of a post coming to an
  end, which the HTTP client's ten-second timeout gives. Nothing makes a post
  succeed.
* Nothing in any module obliges a client to send, an emitter to emit, or an
  owner to shut down.

`ShutdownReturns` of the bus holds because emission is bounded in the model: the
last drain in the code goes on as long as emitters keep the channel non-empty.

## Proofs

`tlapm` checks every leaf; the only assumptions are the named ones on the
constants, which TLC evaluates in the runs. Those of `CspChain` say what the two
parsers return: a `[csp]` table has lists of texts where it has lists at all
(`FilesAssumption`, which lets modes be any text and tables be missing, and wants the
scheme of a URL in front), and what is in a result is an object, an array that is a
list, a text or a plain value, to a depth of `MaxNesting` (`ResultsAssumption`).

*Session store.* The index is sound for every choice of sessions and ids, shared
or not: `StoreIndexSound`. The argument needs only that `end_session` clears
every id the ended session lists, which is more than it owns. Completeness and
exact counts (`StoreIndexComplete`, `StoreCountsDistinct`) hold for sessions
whose ids nobody else uses; the inductive invariant adds that a session lists
only ids its client uses, and that the id list has no repetition.
`StoreFirstCallWins` is an action property proved from types.

*Event bus.* `DeliveryExact` is not inductive: that the batch in hand is empty
whenever the thread is back in its `select!` has to be known too. The inductive
invariant is `BusInv`: types, `DeliveryExact`, where a batch may be
(`BatchPlace`), that the thread only stops after a signal (`StopAfterSignal`),
and that during the last flush the sinks already passed are flushed to the end
(`LastFlush`). `ShutdownDrains` follows from it. `BusImplementsBroadcast` shows
that the initial state maps to the broadcast's and every step to a broadcast
step or a stutter.

*Writer.* The inductive invariant `WriterInv` keeps the order of written, batched
and queued events as six facts about the three sequences (`InOrder`), so that a
step that moves one event or cuts the batch disturbs only some of them.
`EveryEventAccountedFor` claims that at most one event is thrown away; that is
inductive only together with `AtMostOneDiscarded`: once an event was thrown away
the sender is gone, so a receive that fails afterwards finds the channel empty,
and it stays empty until the test. `ExitedDone` and `BatchSpace` say that the
thread ends with nothing in its hands, which gives `ShutdownFlushes`.

*Cloud sink.* All safety properties. `SinkInv` is about the events' way: each
place holds an increasing sequence, and settled < posted < buffered < queued
(`InOrder`), so that the places are disjoint and a batch has no gap. `PostsInv`
adds the cloud's side: every post that was or may yet be taken in is a run of
accepted events, and is either of the current batch, with no more copies than
failed attempts, or settled. A late arrival moves a copy between the two bags and
leaves their union alone (`MoveCopy`). `ReportsInv` keeps the acknowledged events
finite and counted.

*Rows.* All safety properties. For the join, `AnswersPairUp` needs to know where
answers come from: every response row stems from the exchange of its time stamp
(`ResponsesHaveSource`), every result of an exchange written whole has a row that is
no younger than the exchange (`ResultsKept`), and keys of responses with a session are
unique (`ResponsesUnique`). Nothing is assumed of the ids or the session of an answer.
`ChangeLogExact` is inductive with the types of the log.
`VacuumSparesLogged` follows from the types and the test in vacuum's second
statement, which reads the requests that are there then.

*Pipeline.* Types, `EventsMatchReply`, `FailureLeavesNoTrace`,
`CountedRequestsSucceeded` and `MirroredUnlessOvertaken`, for every set of tasks,
sessions and ids. An action changes the record of one task and perhaps one session
and one row, so there is a lemma for each action that says what it does to the
record, and three steps carry them to the whole state: one that touches no session
(`QuietStep`), one under the lock (`StoreStep`), one that emits (`PublishStep`).
What has to be added to be inductive: what a task asked, was answered, replied and
logged hang together at every place of its program (`TaskOK`), it holds a snapshot
exactly where it is about to emit one, and a session that was not overtaken has one
snapshot on its way at most, which is up to date (`HeldOnce`).

*Queries.* `LogCountsOnce` in full. One half of it (`QueriesOneRowEach`) says that
the view is a bijection with the requests, because keys of responses are unique,
and that both are finite. The other half is a sum: the statistics list each label
once, the view is the disjoint union of the rows of the labels, and so the groups
add up to it (`GroupsAddUp`, by induction over the labels listed so
far). The assumption `QueriesAssumption` says which item a call is of, and that no item
has the name that stands for none.
`DryRunForetells` follows from set differences of finite tables.

*Exchange.* All six invariants of the run, for every set of requests, every upstream
and every way to cut a stream. `ExchangeAssumption` says that arrays in documents
and the bytes of an event stream are sequences. `Rewrite`, what the CSP stage makes
of a result, is a parameter here. `RewriteAssumption` asks three things of it: that
an array of entries stays one, that each entry keeps its place and its names, and
that it has the members an entry needs after the rewriting if and only if it had
them before.
`RewritingKeepsEntries`, in `ConfigurationProofs`, proves these three of `CspRewrite`
for any configuration, any method and any document. It asks that what stands for a
name is no object and no array, for into such a name the deep injection would go as
well, and that neither the list nor what its entries need is `_meta` or has the key of
a list of domains, which no kind of entry has. TLC evaluates the assumption itself
with `CspRewrite`'s rewriting and every answer of the run. Only `SchemaAsServed` uses
it.

The inductive invariant `IInv` has seven parts. `TypeInv` has the types, down to the
parser's frame, which rest on lemmas about both decoders. `PhaseInv` says what
there is in which phase: a classified request once the upstream is called, no event
and no closed span before it has answered. `TimesInv` orders the spans of a stream,
whose events all report the span that ended with the first item. `SentInv` is what
makes `NothingSkipped` inductive: what was sent are the calls so far, one for each
result and in their order. `SinksInv` says what shape an event's request and
response have; the two sinks then agree on it because the result that an envelope
looks up by id is the first one with that id (`BatchResultAnswers`).
`StreamInv` is about streams: the parser has taken in the bytes up to some point
before the last one that arrived, has handed over the frames so far and holds those
that wait, and the client was sent the results in the frames that were handed over.
`StagesInv` says that log and schema events are functions of the results the server
gave (`raw`), and that an answer in one piece tells these results, or nothing there
is to log.

`StreamedInOrder` rests on lemmas about the codec, which are about bytes and frames
of any kind. The buffering decoder is a fold over bytes (`Split`) and one over lines
(`Handled`). The incremental parser, in its loop over complete lines, keeps a
relation to them (`Consumed`): what it has committed is what the two folds make of
the bytes up to there, and what it has in its buffer is the rest (`CommitKeeps`,
`FeedConsumes`). A CR at the end of what has arrived waits for the byte that follows,
which is the one case where the two would differ. That what is written is read back
is `EncoderRoundTrip`, for payloads without a line break in them.

`LogMatchesAnswer` and `SchemaAsServed` compare lists made from `raw` in different
ways. Each is a list of what a function makes of the results one by one (`Mapped`,
`Spread`), so it grows as `raw` does (`StagesGoOn`), and two of them agree if they
agree for a single result: for the log that is `LogIsFaithful`, for the schema events
`ResultAligned`, where two filters, one before the rewriting and one after it, pass
the same entries (`OnlyInStep`).

An action does to the lists of events, envelopes and times one of a few things
(`EventsEffect`, `SentEffect`), so each part is carried over a step once, not once
for every action.

*Policies.* First, which URIs a widget's pattern names. `GlobMeaning` says that the
matcher, which tries the shortest piece for a star and backs up, answers yes exactly
when the text can be cut into pieces that the words of the pattern stand for; the
recursion has one solution, by induction from the last word of the pattern back to
the first, and within it from the end of the text. So a pattern without wildcards
names one URI (`GlobLiteral`), and one with a star at its end names what begins as it
does (`GlobPrefix`).

Then which references are the server's own: `StripScheme`, as the code cuts a URL,
leaves the words that `NamesHost` speaks of, for every URL with its scheme in front
(`SelfReferenceNamesHost`). Then the merge of the lists, for every configuration: whatever the layers say, the
list of a directive is the set that `ListsFollowPolicy` speaks of
(`EffectiveDomainsFollowPolicy`); a second gateway with the same file leaves the set
as it is (`SecondGatewayAddsNothing`); frames stay closed unless a layer opens them
(`FrameListFailsClosed`); and every `[csp]` table is lowered to a policy the merge can
work with (`IntoRuntimeTotal`). The list is a fold over the layers, and the proofs
follow it: the set after n widgets is the one that the last replacing layer among the
first n leaves, and whatever the later ones add.

Last the whole chain: `ChainListsFollowPolicy`, `ChainFramesFailClosed` and
`ChainProxyReachable` state the three invariants of the run for any files and for
documents of any shape and depth. The injection is a function over the levels of a
document, so facts about it are inductions over numbers, in three forms. What it
returns is a document, because a set of values that is closed under taking what is in
them stays closed. What it does to a value is a relation between the value and its
image that holds from the lowest level up: the kind is the same, so are the keys and
the places, and a list of domains has at most the proxy more, in front. And every list
within its reach has the proxy (`InjectReachesAll`). The inductive invariant
`ChainInv` says of each widget what the three properties need together
(`WidgetFollows`): both shapes of its metadata hold what the policy allows, each once,
and what a second gateway would take the server to have asked for is what the first
one wrote. That is where `SecondGatewayAddsNothing` is used. The widget entries that
apply stay the same, because a rewriting changes neither a widget's URI nor the
pointers in its metadata that stand in for one.

`ProxyReachable` used to speak of every result. The proof did not go through, and
rightly: the results of other methods are not looked at, and the run had not seen
that, since its only result of such a method had no list in it. Now the property
names the methods, and the run has such a result with a list that stays as it is.

Inductions, over numbers and along lists, are over a set of numbers: a set that
contains zero and with each number the next one has them all (`Induction` in
`ListProofs`, from `LeastNumber`). The provers cannot instantiate the library's
theorems about predicates.

*Start.* The inductive invariant behind `SavedConfigsKept` is `PathInv`: until setup
writes, the path it chose is a name that no file had when it looked. It rests on
`FreeNameExists`: of n + 1 numbered names for n files one is free (a pigeonhole
argument from `NamesAssumption`, that the names differ), and the free numbers have a
least one (`LeastNumber`, again by counting, without an induction). For
`ValidatedConfigStarts` the inductive invariant `StartInv` adds what a gateway that got
past the loader, and past the store, may rely on; four lemmas about single files compare the loader with the validator.

Only model-checked, and why:

* Every liveness property, since fairness and ENABLED are outside the prover:
  `ShutdownReturns` and `AcceptedIsFlushed` of the bus, `WriterStops` and
  `AcceptedIsWritten` of the writer, `EventuallySettled` and `SinkStops` of the cloud
  sink.
* `GatewayShutdown`, whose one property is a finding.

## Not modelled

* How the pool chooses and configures its connections; the bytes of a GET stream,
  which pass through as they are; notifications and the methods a server may call,
  which no code sends.
* The lists of sessions and of clients, which filter by a creation time the tables
  here do not keep; columns that no property needs; schema creation and migrations.
* The heartbeat, and the envelopes of heartbeats and sessions, which copy fields.
  The heartbeat task keeps no state others read.
* The grammar of header parameters, base64, and text layouts of log lines: they
  decide about characters, not about what is said.
* The argument parser, and tables and prompts as they look on a terminal.
* The two calls about endpoints in the cloud client, which no code makes.
* SQLite itself: a transaction is all or the prefix that was written before an
  error, as `flush_batch` leaves it. A query reads one snapshot; `stats` reads two
  in the code, one for its sums and one for the percentiles.
* Benchmarks, examples, container images.

A client may name a session that this process has never seen: the store is in
memory only, and the client may have talked to an earlier process. So tasks may
name any session at any time.

## Plan

Done, in this order, because each later module uses what the earlier ones
establish: `SessionStore`, `EventBus` (with `OrderedBroadcast`), `StoreWriter`,
`ProxyPipeline`, `CloudSink`, `GatewayShutdown`, `StoreRows`; then `JsonValues`,
`McpMessages`, `SseCodec`, `Csp`, `CspRewrite`, `AuthDiscovery`, `EventFormats` and
`Exchange`, which composes them; `CspChain`; `StoreQueries`; `GatewayConfigs` and
`GatewayStart`; the proofs about the bus, the writer, the cloud sink, the rows, the
pipeline, the queries and the start; then about the exchange, the statistics and
the merge of policies; then about the SSE codec, and with it what the client of a
stream, the log and the schema history are told; last about the glob matcher, the
rewriting of whole documents, and the chain of gateways.

Next:

1. Creation times in `StoreRows`, and with them the lists of sessions and clients.
2. A query that reads between two writes of one batch, so that `stats` may see two
   snapshots.
3. Two setups at a time, and the moment between the truncation of a file and its write.
