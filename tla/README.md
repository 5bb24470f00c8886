# mcp-memory-core in TLA+

A verification project for the MCP memory server: a knowledge base of
entities behind JSON-RPC tools, with exchangeable storage backends,
transports and a logging stack of its own, which is the larger half of the
code. The modules here model the parts of the server whose correctness depends
on interleavings, failures, restarts and long sequences of calls. TLC checks
them on small instances; TLAPS proves most of their safety properties, and that both
storage backends implement what a backend promises, for every value of the constants. Where a comment or a test
promises what the code does not do, a run of its own shows the counterexample.

Paths below are relative to the repository; `async.go:134` stands for line 134
of the file of that name.

## 1. The system

A request enters through a transport, which calls `Server.HandleRequest`
(`cmd/mcp-server/main.go`). It validates the request and passes a tool call to
`knowledge.Manager.HandleCallTool`, which decodes the arguments and makes one
call to a `storage.Backend`. Every part logs through loggers the logging
factory hands out, and the manager writes audit entries.

| component | state | operations | what is hard |
|---|---|---|---|
| storage contract (`storage/backend.go`) | the entities | CreateEntities, GetEntity, SearchEntities, GetStatistics | all-or-nothing batches |
| memory backend (`storage/memory.go`) | a map and an RWMutex | the same | validate-then-write under concurrency, partial failure |
| SQLite backend (`storage/sqlite.go`) | a file | the same, opening and migrating the file | transactions, rollback, crashes, migration order, two queries that should agree |
| knowledge manager (`knowledge/manager.go`) | none; drives backend and audit log | four tools | two stores (audit file, database) that nothing ties together |
| asynchronous log handler (`logging/async.go`) | a channel, a closed flag per handler, two goroutines | Handle, WithAttrs, WithGroup, Flush, Close | closing while others send, draining, counters |
| sessions (`transport/session.go`) | a map, renewal times | create, get (renews), expire, stop | expiry in two phases |
| SSE transport (`transport/sse.go`) | clients and message queues by session | GET /events, POST /rpc, Stop | order of registration, reconnection, shutdown |
| HTTP and stdio transports, server, main (`transport/http.go`, `transport/stdio.go`, `main.go`) | requests in progress; what is open | one request, one answer; start, signal, end of the process | panics, the order of shutdown, os.Exit past the deferred functions |
| configuration (`config/config.go`, `logging/config.go`, `main.go`) | the settings | Load, convert, override, Initialize, build | two validations that should agree |
| logger factory (`logging/factory.go`) | the global factory, its cache of loggers | GetLogger, UpdateLevel, Initialize, Shutdown | a cache that must not outlive a change |
| levels (`logging/level.go`) | levels by component | Enabled and Handle, changes, GetConfig | a read lock taken twice, a change between Enabled and Handle |
| audit log (`logging/audit.go`) | a file and its rotated predecessors | Log, Close | rotation that fails or dies half way |
| tracing (`logging/tracing.go`) | the table of active spans, counters | CreateSpan, FinishSpan, timeout, GetAllActiveSpans | timeout against finish, a read lock taken twice |
| sampling (`logging/sampler.go`, `sampling_handler.go`, `sampling_strategies.go`) | windows, rates, counters | ShouldSample, adjustment of the rate | counters under three locks, windows, the order of strategies |
| OTLP export (`logging/otlp.go`) | a queue, a batch | Handle, the export loop, Close | what becomes of a record at shutdown |
| batching log handler (`logging/async.go`) | a batch, a timer | Handle, timer, Close | three parties and one lock, a batch kept after an error |
| error metrics (`logging/error_metrics.go`) | counts, windows of time | RecordError, GetErrorRate, Reset | the edges of the windows |

What makes each correct: a backend stores a batch as a whole or not
at all, whoever reads or writes meanwhile and whatever fails; the manager
answers what happened; the log handler loses nothing it accepted and ends when
closed; a transport gives each response to its session, in order, and stops
when told; the process that ends with exit code 0 owes no client an answer; a
record that is sampled, batched, exported or audited is counted once, wherever
it ends up. `PROJECT.json` lists every component, the ones not modelled with the
reason, and under "hazards" where each of these things can go wrong.

## 2. The modules

```
        EntityStore  (promise of storage.Backend)          LogQueue
        ^        ^           ^                                ^
        | refines| refines   | uses as its backend            | refines
 MemoryBackend  SqliteBackend  KnowledgeManager          AsyncHandler
                                                              ^
   SessionManager <-- conjoined -- SseTransport      AsyncHandlerProofs

                          Components (one in focus at a time)
   Server  Configuration  LoggerFactory  LevelHandler  AuditLog  TraceManager
   Sampler  Sampling  BatchingHandler  ErrorMetrics  OTLPHandler
                                                          ^
                      ComponentProofs -- instantiates -- OTLPHandlerProofs

   MemoryBackendProofs, SqliteBackendProofs, KnowledgeManagerProofs and
   SseTransportProofs; SequenceLemmas, which the proof modules use
```

The modules of the upper half but the two abstract ones, `SessionManager` and
the proofs have an `MC...` module each, which gives their constants values, and
one or more `.cfg` files. The eleven of the lower half share no state with each other, and
`Components` instantiates them side by side, with constants of its own (its small instance is
`MCComponents`): `focus` names the one that moves. Nothing is lost by that: steps of two of them commute and neither
enables the other's, so a behaviour of all eleven restricted to the variables
of one is a behaviour of that one, and every property is about one. The states
of the eleven add up instead of multiplying (`Aside` fixes a
component that may begin in several ways while it is out of focus).
An operator whose comment begins with "Wrong:" is a plausible bug: the same
action with a guard, a reset or a step missing. No specification uses it; it
stands beside the definition it would replace to show that a property
notices.

**EntityStore** is what CreateEntities promises: `Apply` makes a batch visible
in one step, `Reply` says so, `Refuse` leaves no trace, `Crash` loses calls in
progress. Two constants tell the backends apart: `Overwrite` (SQLite's upsert,
against the memory backend's refusal of an existing identifier) and `Durable`.

**MemoryBackend** has one action per stretch of CreateEntities: empty batch,
context check, `Lock`, `Validate` (the whole loop: `mu` is held, so nobody can
see it half done), one `Write` per row, `Return`. Readers need `mu` free. `pc`
is the program counter of a call, `mu` the lock's writer, `next` the row of the
write loop. The refinement mapping hides a batch that is in its write loop: no
reader can look at it.

**SqliteBackend** has the steps of NewSqliteBackend and initSchema (`Start`,
`CreateTable`, `AddColumn`, `FillUpdated`), those of CreateEntities (`Begin`,
one `Insert` per row, `RejectBlank`, `Commit`, `Fail`) and the two queries of
GetStatistics. SQLite itself is external: one transaction has the write
lock, from its first INSERT; nobody else sees its rows before COMMIT; rollback
and the end of the process undo it. A row without `updated_at` maps to one that
was updated when it was created, which is what the migration makes of it. (A file
with the old table never gets that far, see section 4: the properties say of
one only that failing to open it changes nothing.)

**KnowledgeManager** is handleCreateEntities over any backend that keeps
EntityStore (`Backend == INSTANCE EntityStore` is its environment): `Decode`
with one reading of the clock, an `Audit` step per entity, which may fail
and is not looked at, `Submit`, and `Respond`. A generated identifier is the
pair of call and position, because UUIDs do not collide; `created_at` cannot be
given in a request because mapstructure decodes no JSON value into a time.

**AsyncHandler** is the handler of async.go. A producer's Handle is `Check`
(the closed flag of its handler) and then `Send`, `Drop` or `Panic`, and
`CountBuffered` after the send. `With` makes a derived handler with a copy of
the flag. `Receive`, `Process`, `StartDrain`, `Finish` are processLoop and
drainBuffer; `Tick`, `Flushed`, `StopTicker` are flushLoop and Flush; `Mark`,
`Signal`, `CloseBuffer`, `Done`, `Timeout` are Close. **LogQueue** is what it
promises: entries accepted once, written in order, at most `Lag` waiting.

**SessionManager** has the operations of session.go; time is reduced to which
sessions are stale, and the clean-up goroutine is a `Scan` that collects and a
`RemoveSession` for each, as in the code. **SseTransport** builds its actions
from them. A stream goes through
`Resume` or `Begin`, `Register`, `OpenQueue`, `WriteMessage`, then
`Disconnected` or `Told`, `Deregister`, `CloseEvents`; a request through
`AcceptRpc` and `Respond`; Stop through `TellClients`, `Shutdown`,
`ShutdownDone`. net/http is external: Shutdown stops listening and waits for
the handlers. `WriterFlushes` says whether handleSSE gets a ResponseWriter that
is an `http.Flusher`.

**Server** is the process: `Start` (backend and transport, either of which
may fail), the transports, and the end. HTTP has `Receive` (handleRPC up to the tool; a
request that needs none is answered at once) and a goroutine per tool; stdio
has `Scan`, one turn of the loop, which reads nothing while a tool runs.
`HandleRequest` is a function of the request's `Forms`; a request keeps only
what it comes to. `ToolReturns` and `ToolPanics` end a call, `EndOfInput`,
`StopListening` with `Drained`, or `ListenFails` the transport; then
`CloseBackend` and `ShutdownLog` are the deferred functions of main, last one first, and
`Exit` is an os.Exit that skips them. `backend` is the one thing of what they
close that matters to a tool. Errors of the deferred calls are only printed, so
neither action has a failing outcome; and what logging.Shutdown leaves of the
log is not part of this module: it is AsyncHandler's, whose Close may give up.

**Configuration** follows a file through `Load` (conditions and normalisation
of Settings.Validate), `Convert` (convertLegacyLogConfig, applyEnvOverrides),
`Initialize` (logging's own validation, opening the file) and `Build`. A file
is the settings that are changed on the way or checked twice, and at most one
`flaw` of those that are checked once.

**LoggerFactory**: a getter's `Look` is the cache under the read lock, `Make`
the second look under the write lock; `UpdateLevel` is reached from `Update`
(the admin handler) and from `Signal` and `Switch` (SIGUSR1 and SIGUSR2, which
change one component after the other). `Initialize` and `Shutdown` wait for
the getters, as the global lock makes them.

**LevelHandler**: a record is `Ask` (Enabled) and then `Handle`, with any
change in between; GetConfig is `ReadDefault` and `CopyLevels`, under a read
lock each, and `Announce` is a writer that waits, which keeps new readers out
(sync.RWMutex is external). `Required` is the lookup by exact name, pattern
and default; the hierarchical and the load-based handlers have `RequiredBy`.

**AuditLog**: `files[0]` is the current file, `files[i]` is FilePath.i; the
actions are the calls to the operating system in the order Log makes them,
`Lock`, `Invalid` or `Encode`, `NoRotation` or `CloseFile`, `Shift` once per
older file, `MoveCurrent`, `Create`. Every one may fail (`Refuse` is
what a failed encoder does from then on), and `Crash` may come between any two.

**TraceManager**: `spans` is the table. A request's `Begin`, `CreateInner`, `FinishInner`
and `End` or `Panic` are the middleware and what a handler does with
CreateSpan and FinishSpan; `TimeOut` is the goroutine each span has; `List`
is GetAllActiveSpans with its second read lock.

**Sampler** has `Decide` (ShouldSample under its mutex) and `Pass` (the record
goes on after it), **Sampling** the steps of AdvancedSampler: `Call`, `ReadRate` and
`Ask` per strategy (`StepsOf` and `Turn` give their order), `Load` and `Store` of the sampler's own counters, which
overwrite each other, and `Adjust`. Hashes are a free choice.

**OTLPHandler**: `Pass`, `Enqueue` or `Drop` are Handle; `Receive`, `Tick` and
`EndLoop` exportLoop; the export itself is a stub that succeeds.
**BatchingHandler**: `Check`, `Add`, `Return` are Handle, `Fire`, `TimerLock`,
`TimerReturn` the timer, `CloseLock`, `Mark`, `CloseChannel` Close, and
`HandOver` one entry of processBatch, whoever holds batchMu.

**ErrorMetrics**: `SeeEnabled` and `Record` are RecordError, before and under
its lock; `Incremented` and `Cleaned` are the windows, `ErrorsIn` what
GetErrorRate divides by the duration; the sum its loop makes is the size of a
set of units (`SumOver`), which can be reasoned about without induction.
`times` is the history against which it is judged.

## 3. The runs

| run | shows | instance |
|---|---|---|
| memory | MemoryBackend implements EntityStore; readers see whole batches; the first writer of an identifier wins; no path keeps the lock | 3 calls, 1 reader, 2 identifiers, 5 batches |
| sqlite | SqliteBackend implements EntityStore; creation times survive upserts, crashes and restarts; statistics bracket the truth; no path keeps the write lock | 2 calls, 1 reader, 2 identifiers, 4 batches, 3 kinds of file, failing database calls |
| sqlite_migration (violation) | a database from before `updated_at` cannot be opened | one old file |
| manager | what is stored was audited; answers are true; every accepted call is answered | 2 calls, 6 requests, crashes |
| manager_audit (violation) | "entity.created: success" for entities that were refused | the same |
| async | nothing lost or reordered; Close drains; counters balance; Close and the flusher end; refines LogQueue | 2 producers with 2 and 1 calls, 2 handlers, capacity 1 |
| async_panic (violation) | sending on the closed channel | the same |
| sse | responses in order, in their session, and dropped only from a full queue; no registered client is closed; queues outlive streams; Stop returns unless a stream escaped it | 2 streams, 2 sessions with 2 requests or 1 session with 3, queue of 2 (`BoundedSpec`) |
| sse_race (violation) | an accepted request whose response finds no queue | 2 streams, 2 sessions, 3 requests, queue of 2 |
| sse_middleware (violation) | GET /events behind the logging middleware is always refused | the same, `WriterFlushes = FALSE` |
| components | the eleven properties of the next table, and a type invariant of each component | see there |
| server_signal (violation) | a stdio server whose client is silent does not end after a signal | 2 requests |

| property of `components` | what it says | instance |
|---|---|---|
| RotationForgetsTheOldest | the files, in order, hold the end of what was written: rotation loses or reorders nothing but the oldest, wherever it fails | 2 loggers, 3 files of 2 events, 9 events, 2 faults or crashes |
| LevelsInForce | GetConfig answers a configuration that once was; a record that gets through was allowed at a level in force since it was asked about | 2 threads, 2 components and a pattern, 1 change |
| SpansEndOnce | a span ends by its request or by its timeout, once, and the counters agree; the table keeps to its limit | 2 requests, 3 spans, table of 2 |
| RecordsAccounted | a record is exported once, in its producer's order, or counted as a failure, or left in the queue or batch | 2 producers of 2 records, queue of 1, batch of 2 |
| HandedOverOnce | an entry of a batch is handed over at most once, in order, and never to a closed channel | 2 producers of 2 entries, batch of 2 |
| SamplingAccounted | both samplers count each record once where the lock allows it, and never more where not; at most two bursts in a minute | 2 callers, 2 records, 2 adjustments; burst of 1, minute of 2 in 6 ticks |
| LoggersAreCurrent | no logger in the cache has a level that was changed; at most one factory is open | 2 getters, 2 components, 2 factories, 2 updates |
| RateMatchesErrors | GetErrorRate counts what happened in the duration, for the durations it can answer | 2 recorders, 2 windows of 2 ticks, 7 ticks, 3 errors |
| OrderlyEnd | exit code 0: each request read has one answer; however the process ends, no tool runs on a closed backend | 2 requests of every kind, both transports |
| ConfigurationHolds | a file that Load accepts takes the server all the way, with two named exceptions; under stdio the log keeps off stdout unless the environment says otherwise | every file with at most one flaw, every environment |
| ShutdownCompletes | a signal ends the process (under stdio, when the input says something or ends) | as OrderlyEnd |

*Why the bounds are enough.* Two concurrent calls make every pair of steps
meet; the memory backend has three so that two may wait while one writes. Two
identifiers are needed for a batch that is partly in conflict, and the batches
are chosen for the cases the code tells apart: empty, one identifier twice, a
blank identifier after a good row, overlapping batches. A channel of
one is full and empty within three entries, and an abstract queue of
`Capacity + 1 = 2` can be exceeded by the third. Two streams
of one session are what reconnection is about; two sessions are needed to mix
them up. A session's queue of two is the least in which the order of responses
matters, and a third request of that session the least that finds it full;
since the two needs do not meet, `InBounds` gives a behaviour two sessions with two
requests or one session with three (`LastRpc` is the third). It holds up only
what clients begin, for which no fairness is assumed, so `StopReturns` means the same
under `BoundedSpec`. Requests, calls and streams are never reused, so the systems stop when
all are served: deadlock is not checked for that reason (`CHECK_DEADLOCK
FALSE`), and the liveness properties say instead that each call comes to an
end. Two requests or producers make each pair of steps of two goroutines meet;
three audit files are the least with which the rotation's loop shifts twice, and nine events fill them
and one more; two faults are a failure and a crash after it, or the other way
round. Six ticks are three minutes of the sampler, seven are three windows of
the error metrics and a half, so that one is forgotten. A factory that is
replaced and an update after it need two of each. `MaxCalls`, `MaxBatch`,
`MaxEvents`, `MaxFaults`, `MaxChanges`, `MaxRefused`, `MaxRecords`,
`MaxEntries`, `MaxTime`, `MaxAdjusts`, `MaxFactories`, `MaxUpdates` and
`MaxErrors` bound the models alone. No run uses symmetry:
each has a liveness property or is small.

*Fairness.* Weak fairness of a call's own steps: its goroutine is scheduled,
and a lock or a connection it waits for is given up because its holder, too, is
fair. In the SQLite run a call that cannot get the write lock may instead fail
(`Fail`), which is not assumed to happen. AsyncHandler: processLoop, a Flush
that finds the channel empty, the select that sees `closeCh` closed, and the
steps of Close once begun; nobody has to log or to call Close, and the 30 second
timeout is not counted on. SseTransport: handlers and Stop run on, and the
select of the event loop does not ignore a closed Done channel for ever (Go
chooses among ready cases at random); clients need never leave or send.

Server: main's goroutine, which also
runs the stdio loop, is scheduled, and a tool that was called returns or
panics; clients need not send, close or signal anything. Of the other
components of `components` nothing is said to happen eventually.

Two liveness properties name the exception the code leaves. `AcceptedAreWritten`: an entry
accepted after Close began may be left in the channel, if processLoop had
already found it empty (the comment of Close, "waits for all buffered entries",
is true only of those accepted before it; `CloseDelivers` says exactly that).
`FlusherEnds`: such an entry keeps a Flush that is already polling in its loop
for ever. `StopReturns` likewise allows Stop to wait for a stream that
`TellClients` did not reach.

## 4. What the violations show

1. `sqlite.go:90`: the index on `updated_at` is created before the column is
   added, so a database from before that column cannot be opened and the
   migration below never runs.
2. `manager.go:196`: the audit entry "entity.created", result "success", is
   written before the entity is stored and stays when it is not.
3. `async.go:135`: Handle checks `closed` and sends later; Close closes the
   channel in between. Derived handlers, the only ones the factory hands out,
   never learn of Close at all.
4. `sse.go:448`: the client learns its session before the session has a queue.
5. `sse.go:244`: the middleware's response writer has no Flush.
6. `stdio.go:48`: the loop looks at its context only after the Scanner has
   given it a line. main.go:632 promises a graceful shutdown on signals; with a
   client that is silent the process stays, and because signal.Notify has taken the
   signals over, a second one does nothing either.

Other observations that no run is about; the models contain the behaviour.

*Logging.* Entries logged through a derived handler are written by processLoop
through the first handler, without the attributes the derivation added. An
entry added to a batch after Close is lost although Handle returned nil. A second
Close of an OTLP handler panics; its loop ends with records still in the
queue. One failed write or rotation makes the audit log unusable until the
next start. The audit checksum is computed (`audit.go:187`) before Version is set
(`audit.go:188`), so VerifyChecksum is false for every event logged. LevelHandler
can only raise the base level: SIGUSR1 ("Enabling debug logging",
`main.go:660`) enables nothing under base level info, and what it changes
concerns only loggers obtained later. Enabled does not see a component that is
named only in the record's attributes. GetConfig, GetAllComponentLevels,
GetStats and GetAllActiveSpans take a read lock twice: a writer between the two blocks
them and itself for ever (`LevelHandler` has the blocked state, `TraceManager`
calls it "stuck"). When Initialize fails after closing the old factory, the
closed one stays the global one. The tracing middleware does not defer FinishSpan; its
health, which waits for twice as many active spans as the table admits, is
always good; InjectTraceContext injects nothing. Priority rules are never
sorted, and no default rule matches a level worse than ERROR; the override by
the tail-based strategy decides nothing; a rate of 1.0 drops the hashes that
round to 1; AdvancedSampler's counters lose updates. Sampler lets up to two
bursts through within a minute. GetErrorRate for a duration shorter than the
interval leaves recent errors out, and cleanOldWindows keeps all windows when
all are old.

*Server.* The HTTP transport answers every error of HandleRequest with 500,
where `error_mapper.go` gives 200 to errors of the application. A tool that panics
makes HandleRequest answer nil: 500 under HTTP; under stdio the process exits
with 1 and without logging.Shutdown, as it does after a line of more than
64 KB. The line the stdio loop reads to find its context cancelled is discarded.
Exit code 0 does not mean that the log is complete: AsyncHandler drops entries
when its channel is full, its Close gives up after 30 seconds and answers nil
(`async.go:283-292`), and main only prints what logging.Shutdown answers
(`main.go:698-702`). `OrderlyEnd` therefore speaks of answers and of the backend alone.

*Configuration.* An OTLP section with only `enabled` and `endpoint` is
accepted by Load and refused by Initialize. MCP_LOG_OUTPUT=file without a path
fails; MCP_LOG_OUTPUT=stdout mixes the log into the answers of stdio, despite
`main.go:433`. The legacy `logLevel` is ignored when there is a logging
section. The admin server's port, the port plus 1000, may exceed 65535.

*Storage.* SQLite's LIKE searches the JSON text of the observations and gives
`%` and `_` a meaning, though `sqlite.go:312` says it matches the memory
backend; of two overlapping updates of one identifier the later to commit may
carry the earlier `updated_at`; message queues of the SSE transport are never deleted.

## 5. What is proved

Every theorem holds for all values of the constants that satisfy the module's
named assumption, which TLC evaluates for the instance it checks.

| module | theorem | statement |
|---|---|---|
| `MemoryBackendProofs` | `TypeCorrect` | `Spec => []TypeOK` |
| | `ReadersSeeWholeBatches` | `Spec => ReadsAreCommitted` |
| | `StoredOnce` | `Spec => FirstWriterWins` |
| | `ImplementsStore` | `Spec => KeepsPromise`: the refinement of EntityStore |
| `SqliteBackendProofs` | `TypeCorrect` | `Spec => []TypeOK` |
| | `CreationTimesStay` | `Spec => CreationTimeKept` |
| | `StatisticsBracket` | `Spec => StatisticsBracketed` |
| | `ImplementsStore` | `Spec => KeepsPromise`: the refinement of EntityStore |
| `KnowledgeManagerProofs` | `TypeCorrect` | `Spec => []TypeOK` |
| | `StoredWasAudited` | `Spec => []StoredIsAudited` |
| | `AnswersTrue` | `Spec => []AnswersAreTrue` |
| `AsyncHandlerProofs` | `TypeCorrect` | `Spec => []TypeOK` |
| | `Conservation` | `Spec => []NothingLost`: accepted = written, then in hand, then in the channel |
| | `CloseKeepsItsWord` | `Spec => []CloseDelivers`: when processLoop is done, what was accepted before Close began is written |
| | `ImplementsQueue` | `Spec => KeepsQueuePromise`: the refinement of LogQueue |
| | `CountersCorrect` | `Spec => []CountersAgree` |
| `SseTransportProofs` | `TypeCorrect` | `Spec => []TypeOK` |
| | `RegisteredStaysOpen` | `Spec => []RegisteredIsOpen` |
| | `ResponsesInOrder` | `Spec => []WrittenInOrder` |
| | `NoForeignResponse` | `Spec => []ResponsesKeepToTheirSession` |
| | `QueueStaysWithSession` | `Spec => QueueOutlivesStreams` |
| `OTLPHandlerProofs` | `RecordsTyped` | `Spec => []TypeOK` |
| | `EveryRecordAccounted` | `Spec => []RecordsAccounted` |
| `ComponentProofs` | `LoggersCurrent` | `Spec => []LoggersAreCurrent` |
| | `SpansEnd` | `Spec => []SpansEndOnce` |
| | `AcceptedFilesStart` | `Spec => []ConfigurationHolds` |
| | `BatchesHandedOver` | `Spec => []HandedOverOnce` |
| | `RecordsAccountedFor` | `Spec => []RecordsAccounted` |
| | `LevelsWereInForce` | `Spec => []LevelsInForce` |
| | `ServerEndsOrderly` | `Spec => []OrderlyEnd` |
| | `SamplingKept` | `Spec => []SamplingAccounted` |
| | `RotationKeepsTheNewest` | `Spec => []RotationForgetsTheOldest` |
| | `RateCorrect` | `Spec => []RateMatchesErrors` |
| | `TypeCorrect` | `Spec => []ComponentsTypeOK` |

Each is the usual three facts (the initial states, every step, the
consequence), with one step of the proof per action. `SequenceLemmas` has what
they share about sequences: what Append and Tail make of the rows, the first and the last
position of a kind (`FirstAndLast`: the naturals are well-founded), a
sequence without its i-th row. What makes each invariant inductive:

*MemoryBackend* (any finite set of identifiers, any calls, readers and
batches). `Locked`: the call that validates, writes or returns has `mu`, so
that one at most does (`OneWriter`). `Looping`: the write loop is within its batch, which
Validate has looked through. `Written`: in the loop the map is what the committed
store becomes by the rows written so far. From that, a step of the loop is a
stutter of EntityStore, the last one its Apply (`PutAllAppend`: a batch put row
by row is the batch put at once), and readers, who need `mu` free, see no
call in its loop. Of an identifier the loop replaces, `FirstWriterWins` needs
to know that the committed store did not have it: Validate saw that under the same lock.

*SqliteBackend* (any finite identifiers, any calls, and any old files that are
stores). `Running`: nothing is in progress unless the database is open, so that
`rows` has every `updated_at` filled (`RowsTyped`; before the
migration it is a store only after the mapping, `StoreIsFilled`).
`Transactions`: a call past its first row has the write lock, and only that
one. `ImageIs`: what it will commit is the committed rows with the batch's rows so
far put in, so that Commit is Apply (`CommitStores`), and every other end of it leaves `rows`
alone. An upsert keeps `created`, and no step but Commit and the
migration changes a row (`CommittedStep`). `CountedEarlier`: the first query's total
is not above the present one, because the rows only grow (`TotalGrows`).

*KnowledgeManager*, over any backend that keeps EntityStore, upserting or
not, durable or not (among its assumptions: the identifiers made for different
calls are no client's). `PutAllStores` says what a batch makes of a store: it stays a
store, has what it had and the batch's entities, and nothing else. `Progress`
ties the manager's program counter to the
backend's stage: what the backend has of a call is what was decoded, and its
audit loop is through. `Covered` says that the loop has entries for all it is
past, so whatever Apply adds to the store has one. For the answers,
`Untouched`: as long as a call has stored nothing, nothing is stored under the
identifiers made for it, because no other call uses them (`OwnIdsOnly`,
`OthersAreForeign`); and `Kept`: what a call has stored in a durable store
stays, because no batch removes anything.

*AsyncHandler* (any finite producers, any handlers, capacity and number of calls). `Typed` adds
to TypeOK that a producer about to send has a call
left, without which its next entry need not be an entry at all. `Conserved`
adds that the hand holds at most one entry and the channel at most its
capacity; then a send appends to the concatenation of written, hand and
channel (`AppendToLast`), and receiving and processing only move its borders
(`MoveToHand`, `MoveToWritten`). `Delivering` adds that processLoop leaves its
select only after `closeCh` is closed and that `due` never exceeds what is
accepted: when the loop finishes, hand and channel are empty, so everything
accepted by then is written, and what follows only adds to both. `Queued` adds
`Numbered`: no accepted entry has a number above its producer's count of calls,
so the next one is new (LogQueue accepts an entry once). `Counted` counts
the producers between their send and their count as a finite set.

*SseTransport* (any streams, requests, sessions and length of queue). `Typed` adds to
TypeOK that who is on the way in a session has one, and `QueueThere`: a session
whose stream is past OpenQueue has a queue. That nobody takes it away is `QueueOutlivesStreams`.
`Ordered`: what a session was sent is what its streams took and then what its
queue holds. So a session whose queue is full was sent at least a queue's
length (`FullQueue`), and keeps that, which is what `DroppedFromFull` needs at the moment
a response is dropped. `Registration`: a registered client is one of that session which is between
Register and Deregister, and a closed one has ended. `QueueIsOwn` and
`WriterIsOwn` follow a response from its request to the stream that wrote it;
they need that a stream's session, once it has one, is fixed (`SessionFixed`).

*OTLPHandler* (any producers, queue and batch size and number of records). `Line` is what is
exported, in the batch and in the queue, as one sequence: only Enqueue appends to it,
and the steps of exportLoop move its borders (`LoopKeepsLine`). `Accounted`
counts the positions of a producer's records in it, which an append changes by
one (`OfAppend`). That the numbers of a producer grow along the line
(`Ordered`) is inductive only with `Recent`: no record in the line has a
higher number than its producer's last, and none has that one while it is on
its way. `Tried` bounds the records by the attempts and is kept by `TriedAgain`.

*Components*. A step of the composition is a step of one component and a
stutter of the others (`StepOfOne`), so each invariant is one component's; that
of the OTLP handler is the module's own, instantiated.
The assumption (`ComponentsAssumption`) is the conjunction of the components'.

- Factory: what the property says, with the types, is inductive as it stands.
- Spans: a span in the table has status OK, so a second end, by
  timeout or by request, finds it gone. The spans created, expired and in the table are finite sets, counted by
  `OneSpan`.
- Configuration: by stage. `Loaded` is what normalisation leaves of a file
  (a lower-case known output, a path for output file), `Settled` what conversion
  and overrides make of it: an output that exists, a path unless
  the environment asked for a file and gave none, stdout under stdio only
  if the environment names it.
- Batching: `BatchingLocked` says who may be in which step while another has `batchMu`, and that
  the channel closes only after the batch is handed over for the last time; `BatchingOrdered` is the
  order of what was handed over and of what the batch still holds, one after
  the other, with `Numbered`: none has a number above its producer's count.
- Levels: `Passed`, what a record about to be handled has passed in Ask,
  at the configuration `past[since]`, which stays where it is (`PassedStays`).
  What GetConfig copied first is still in force when it copies the rest, because it
  holds the read lock.
- Server: `ProcessQueues` and `ProcessAccounts`: every request read (`Owed`, all but blank
  lines) is answered, in a tool, or the line that was read to find the context cancelled; each has one
  place, and the answers are as many as the requests answered. `ProcessPhases` ties the phases of main to
  the backend: it is open in every phase in which a tool may run.
- Sampling: records let through in bursts are those of the window that runs,
  no more than its counter says (`Since`), and those of the minute before, no
  more than a burst (`MinuteBefore`), because earlier windows ended
  earlier. In AdvancedSampler what a caller has still to do holds each step once,
  and the adaptive strategy right after the rate it has read (`PairedOn`); the total lags
  behind the calls by those still in them.
- Audit: `AuditLocked` is what the step of the mutex's holder says of the
  files. `FilesOrdered`: the events of a file rise, and are older than those
  of a file with a lower number. `FilesKept`: unless a rename failed, what is kept is
  the newest of what was written, and nothing is lost before some file is full;
  `Hole` is the place that is free while the files move up, and without a gap
  all others are taken by the time anything is lost.
- Errors: a sum is the size of the set of its units, so the sum over a set
  parted in finite ones is theirs added (`PartsAddUp`). Windows begin at
  multiples of the interval, at least an interval apart (`Spaced`), and each
  holds the number of errors that began in it (`Counting`); every error that
  is recent has its window (`Covered`). A recent window is never dropped for want of room: when
  `Size` windows, an interval apart, all began before the present one, the first
  of them is too far back to be recent (`RoomForOne`). The windows a duration reaches then part the errors
  it reaches (`RateIsExact`).
- Types: those of the batching handlers, the samplers, the factory, the spans, the audit log and
  the errors are part of their invariants. Levels need that `past` has room
  for the change that is announced (`LevelTypes`); the stage of the
  configuration and the phase of the server give theirs.

*Only model-checked.* Every safety property of a passing run, invariant,
action property or refinement, is a theorem. The liveness properties
(`CallsReturn` of both backends, `CallsAnswered`, `AcceptedAreWritten`,
`CloseReturns`, `FlusherEnds`, `StopReturns`, `ShutdownCompletes`) are not:
fairness and ENABLED are beyond the prover.

## 6. What is not modelled, and why

The error mapper, the errors package, masking, request context and the
middleware's wording are tables and formatting: no behaviour in time. The
HealthChecker is constructed by nobody and its checks of other components are disabled in
comments. MetricsCollector passes values on to Prometheus. Of the admin server
there is only the change of a level it makes; that its goroutine and the one of
the metrics server are never stopped has no effect on the others. Test helpers
(`testing.go`, the mock backend), the legacy logger and the examples are not
part of the server.

Within modelled components: search is in the memory backend only, as the
reader that could see part of a batch; SQLite's journal modes and the pool of
database/sql are taken at their word; the event channel of SSE carries events
only for BroadcastEvent, which nothing calls, and the model has only its
closing; the adjusters of levels by time and by pattern, the strategies'
UpdateConfig and Reset, and SetErrorHandler, ResizeBuffer and the health getters of the
asynchronous handler, all without callers, are left out; so are the content of
audit events (masking, severity, checksum) and the compression of rotated
files, which is a stub; tags, events and baggage of spans; the replacement of
sensitive values in configuration errors.

## 7. Plan

1. *Compositions*: sessions that expire in use under the HTTP transport (SessionManager's two
   phases with Server); AuditLog under KnowledgeManager, so that an audit
   entry is in one of the files or reported; AsyncHandler's Close, with its
   timeout, as the end of Server's `ShutdownLog`.
2. *Proofs*: the safety properties of the compositions of item 1. Of those of
   the liveness properties that rest on a measure that decreases
   (`CallsReturn`: rows still to write; `StopReturns`: streams still there),
   the action properties that say so: no step but the call's own raises
   it, and the call's next step lowers it.
