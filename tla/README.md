# TLA+ models of gomisc's Kafka producer, consumers and helpers

These modules model the durable-buffering producer of `src/kafka/producer.go`,
its leveldb overflow store `src/drivers/local_store.go`, the functional
options of `src/kafka/options.go`, the redis and aerospike store drivers of
`src/drivers/` with their options, the three consumer implementations of
`src/kafka/consumer*.go`, the producer's use of the KafkaVec counters of
`src/monitor/kafka.go`, the map pool of `src/pool/map.go`, and the letter
sampling of `src/random/random.go`.
TLC checks them.

## The system

| Part | Code | State | Operations |
|---|---|---|---|
| Producer | `producer.go` `Producer` | `queue` (a buffered channel of capacity `queueSize`), `works`, `wg`, `localCache` | `Start`, `Send`/`SendUseKey`, `Retry` (the store's process callback), `Close` |
| Worker | `producer.go` `producerWorker` | a sarama `AsyncProducer` with `Input()`, `Successes()` and `Errors()` | three goroutines: `doMessage` (queue → Input; `close()` when the queue is closed), `doSuccess`, `doError` (oversized messages are dropped, any other error is written to the store) |
| Overflow store | `local_store.go` `LocalStore` | the leveldb records keyed by an 8-byte big-endian sequence number plus topic, and `index` | `NewLocalStore` (recovers `index` from the last key), `Put` (`atomic.AddUint64`, then `db.Put`), `ProcessAll` (iterate a snapshot: decode, process, delete), `Start`, `Loop` (ticker), `Stop`, `Close` |
| Options | `options.go` | `Options` | `With*` setters, `FillProducerOption`, `ValidProducerOption`, `ValidConsumerOption`, applied by `NewProducerV2` and `NewConsumerV2` |
| Consumers | `consumer.go`, `consumer2.go`, `consumer11.go`, `consumer08.go`, `version.go` | a client (sarama consumer group, bsm cluster consumer, or wvanbergen consumergroup), `exit`, `wg` | `NewConsumer` picks an implementation by `kafkaVersion`; `Start` spawns the goroutines; `Close` |
| random | `random/random.go` | a 63-bit cache read 6 bits at a time | `VisibleBytes`, `ceil8`, `Bytes` |
| Store drivers | `redis.go`, `redis_option.go`, `aerospike.go`, `aerospike_option.go` | `Redis` / `AsStore` with an optional error counter; the server's key or record | `NewRedisV2`, `NewAsV2` with `RedisOpt` / `AsOpt` setters; `Set`, `Get`, `Incr`, `Expire`, `Del`, `TTL`, `GetIncr`, `Setnx`; `Sets`, `SetHasPolicy`, `Get`, `Delete`, `Exists`, `PutMap`, `GetMapValue`, `AppendUniq`, `RemoveList`, `GetList`, `GetListLen`; `MetricsError` |
| Metrics | `monitor/kafka.go` `KafkaVec` | a counter per status label | `Inc`, called by `Send`, `SendUseKey`, `Retry`, `doSuccess` and `doError` |
| pool | `pool/map.go` `MapPool` | a `sync.Pool` of maps | `NewMapPool`, `Get` (take or allocate, then delete every key), `Put` |
| Others | the other `monitor/` vectors, `logger/`, `pool/stringmap.go`, the sql driver | | not modelled (see PROJECT.json for the reason for each) |

### How the parts interact

- Callers `Send` without blocking. If the queue is full, the message goes to the store.
- Workers take messages from the queue and pass them to sarama. sarama answers asynchronously.
- A transient error goes back to the store, via `doError`.
- The replay loop's `ProcessAll` passes each stored record to `Producer.Retry`. `Retry` re-enqueues the record, or stores it again under a new number, and `ProcessAll` then deletes the old record.
- `Close` does the following, in order:
  1. Stops the loop, waiting for it (`LocalStore.Stop`).
  2. Closes the queue.
  3. Waits for every worker goroutine (`p.wg.Wait`).
  4. Closes the db.

### What is hard to test

- The race between sarama's own `Close` and `doError` for `Errors()`.
- The order of the steps in `Close`.
- Concurrent `Put`s, which number a record before they write it.
- Replay reading a snapshot while new records are written.
- Crash and reopen, which recovers the index from the last *live* key.
- Failed leveldb writes and deletes.
- Whether `Close` terminates.

PROJECT.json lists each hazard at its line.

## Modules

### `LocalStore.tla`: the store on its own

- **State:**
  - `db` is a set of `[seq, msg]` records. The topic bytes and the base64 encoding do not change which key names which record, so they are abstracted away.
  - `index` is the sequence counter.
  - `pending[w]` is the record writer `w` has numbered but not yet written.
  - `scanning` and `snap` are the ProcessAll iterator and its snapshot.
  - `restarts` counts crashes.
  - The history variables `used`, `written` and `handed` record what has happened so far.
- **Actions:**
  - `PutNumber` is the `AddUint64`.
  - `PutWrite` is the `db.Put`, which may fail. A failed write still consumes its number.
  - `ScanBegin`, `ScanVisit` and `ScanEnd` are one ProcessAll. `ScanVisit` takes the smallest key of the snapshot. A corrupt value is skipped. Any other record is handed to the callback and then deleted; the delete may fail.
  - `Restart` is a crash followed by `NewLocalStore`.
- **Initial state:** the store is empty, or holds one record that does not decode.
- **Shared operators:** the record operators (`PutRecord`, `DeleteKey`, `Recover`, `StoredInSomeOrder`) are used by `Producer` through `INSTANCE`.

### `Producer.tla`: the producer composed with its store and replay loop

- **Goroutines** (one program counter each):
  - `main` (Start/Close)
  - the replay `loop`
  - `wpc[w]` for each worker's `doMessage`
- `doSuccess`/`doError` are the actions `HandleSuccess(w)`/`HandleError(w)`.
- The AsyncProducer of worker `w` is `inflight[w]`, `succ[w]` and `errs[w]`. The broker's answer is `Resolve(w, m)`: a success, `ErrMessageSizeTooLarge` for a message in `Big`, or a transient error (at most `MaxFailures` of them).
- `pw.close()` is `WorkerClose`, followed by `CloseDrain` (sarama's `Close` reading `Successes()` and `Errors()` itself) and `WorkerDone`.
- `Send` also stands for `SendUseKey`: it has the same control, and the key is data.
- `WriteToLocal` is `producerWriteToLocal` with its outcomes:
  - without a cache, `ErrLocalStoreNil`;
  - after `Close`, a write to a closed db;
  - a failed `Put`;
  - a stored record.
- **History variables:** `sent`, `delivered`, `dropped` and `lost` say where each message went. `lost` carries the reason.
- `panicked` records a send on the closed queue from `Retry`.
- **Metrics:** `obs` is the KafkaVec: one count per status (`sent`, `queuefull`, `retry`, `ok`, `error`, `errorcache`), incremented by `Observe` where the code calls `Inc`. `dequeued` counts the messages `doMessage` took from the queue, `uncounted` the answers `CloseDrain` read. The producer is taken to have a monitor (`p.monitor != nil`).

### `Options.tla`: NewProducerV2 / NewConsumerV2 option handling

- `o` is the `Options` value. Strings and slices are reduced to "empty or not", which is all the validators read. The integer fields keep their value.
- One action per `With*` call that a validation can tell apart.
- `Validate` is `FillProducerOption` followed by `ValidProducerOption` for a producer, and `ValidConsumerOption` alone for a consumer.
- `kind` also ranges over `redis` and `aerospike`. `Init` then starts from `newRedisOption` or `newAsOption`, and `RedisOpt` / `AsOpt` are every driver setter. `WithGuarded(f, v, floor)` is the common shape "assign when the argument is above a floor" (the floors are the tables `RedisIntFloor`, `RedisDurFloor`, `AsIntFloor`, `AsDurFloor`). Durations are in microseconds, so they fit TLC's integers.

### `Drivers.tla`: the redis and aerospike handles

- EXTENDS `Options`. `NewRedisV2` and `NewAsV2` consume the option record built there (`o` is dropped afterwards, as the Go local is).
- `NewAsV2` walks one host: a `host:port` whose port is not numeric returns before the deferred `MetricsError` is registered (`ErrAtoi`). A failed connect returns a counted error. Otherwise the read and write policies are installed (`AsPolicy`: a policy only when its timeout is positive, carrying `maxRetries`).
- The server is one key (`val`, `ttl`) for redis and one record (`rec`: bin kind and elements) for aerospike. Every call may fail (`Failed`). `RedisExpiry` is the server expiring a key set with a lifetime.
- `Return(err)` is the deferred `MetricsError`: it counts a non-nil error when the handle is monitored, except redis's `redis.Nil`, which the methods map to nil first.
- `GetMapValue` on a bin that is not a map sets `panicked` (an unchecked type assertion).

### `OverflowStore.tla`: what the store promises

`stored` and `delivered` are sets of messages. `Write(m)` adds to `stored`.
`Replay(m)` hands a stored message to the callback, and may remove it or leave it.
`LocalStore` instantiates it with `stored` as the decodable messages of `db` and
`delivered` as those in `handed`. `ImplementsOverflowStore` checks it as a property.

### `Consumer.tla`: the three consumers' Start/Close protocol

- **State:**
  - `impl` is what `NewConsumer` chose from the version string.
  - `user` is the caller's progress: new, started, closing or closed.
  - `exitClosed` is `close(k.exit)`.
  - `lib` is the client, open or closed. `avail`, `fetched`, `errq` and `errs` are what it delivers on `Messages()` and `Errors()`.
  - `pc[g]` and `cur` are the goroutines `msg`, `err` and `notice` and the message in hand.
  - `processed`, `marked` and `committed` are history.
- **Actions:**
  - `Fetch` and `LibError` are the client delivering.
  - `Start` spawns the goroutines.
  - `CloseExit`, `ClientCloseBegin`, `ClientClose` and `Close11Return` are the steps of `Close`. Consumer11's return waits for every goroutine (`wg.Wait`) and then commits. Consumer2's client `Close` first ends the session (`ClientCloseBegin`), then waits for the lock `Consume` holds until `ConsumeClaim` returns. Consumer08's `cg.Close` waits for the last delivered message to be processed, or for the processing timeout, a nondeterministic choice.
  - `Take` and `Process` are the message loop of each implementation: process, then the mark.
  - `Select2`, `Consume2` and `SessionEnd2` are Consumer2's Consume loop and its sessions.
  - `HandleError`, `ErrorsRangeEnd`, `RangeEnd08` and `Exit11` are the other goroutines and how they end.
- **Initial state:** each of four version strings. One does not parse, so it gives Consumer08.

### `Pool.tla`: MapPool

- `pooled` is what the `sync.Pool` holds, `content[m]` the keys of map `m`, `held[c]` the map goroutine `c` holds.
- `Get(c)` takes any pooled map, or allocates one from `Free` (maps nobody refers to), whatever the pool holds: `sync.Pool` gives no order and its per-P caches may miss. Then it clears the map. `Put(c)` returns the map, keys and all. `Collect(m)` is the garbage collector dropping a pooled map. `Write(c, k)` is the caller's own use of the map. No property is stated of the pool: `Get` deletes every key whatever map it returns, and an invariant that held maps are empty of other goroutines' keys would restate that loop.
- `StringMapPool` is the same code for `map[string]string`.

### `Random.tla`: VisibleBytes and ceil8

- `Iterate` is one turn of `VisibleBytes`' loop: refill the cache after 10 chunks, draw a chunk from `Chunks`, accept it when below 62.
- `LetterByte` maps an index to its ASCII code.
- `Ceil8` uses `GoDiv`/`GoMod`, which truncate as Go does.
- `Visible` is a RECURSIVE reference for the result, and `RefCeil8` one for `ceil8`.

`MC_Helpers` checks `Random` and `Pool` in one run: they share no state, and the run is the interleaving of both. The other MC modules (`MC_Producer`, `MC_LocalStore`, `MC_Options`) declare the model values. They also declare the symmetry of workers and writers, and the integer set `MCInts` (a cfg file cannot hold negative numbers).

## Runs

| Run | Checks | Result |
|---|---|---|
| `producer` (Producer.cfg) | `TypeOK`, `AtLeastOnce`, `NoSendOnClosedQueue`, `ShutdownDrained`, `StoreNotUsedAfterClose`, `MetricsAccountForDequeued`, `Termination`, with and without a cache path | pass |
| `producer_store_errors` | `TypeOK`, `AtLeastOnce`, `ShutdownDrained` with failing leveldb writes and deletes | pass |
| `producer_drain_loss` | `NoSilentLoss` | **violated** |
| `local_store` | `TypeOK`, `WrittenKept`, `ImplementsOverflowStore` | pass |
| `local_store_seq_reuse` | `SeqNeverReused` | **violated** |
| `local_store_corrupt` | `CorruptDiscarded` | **violated** |
| `local_store_replay_order` | `ReplayInSeqOrder` | **violated** |
| `options` | `QueueSizeAsRequested`, `AsPoliciesAsRequested` | pass |
| `options_num_workers` | `NumWorkersAsRequested` | **violated** |
| `consumer` | `CommitCoversProcessed`, `ShutdownCompletes` | pass |
| `consumer_close_wait` | `NoProcessAfterClose` | **violated** |
| `helpers` | `VisibleBytesCorrect`, `BytesCeil8Correct` (and the pool's actions) | pass |

### What the passing runs show

- **`AtLeastOnce`:** every message sent is, in every state, somewhere: in memory, in the store, delivered, dropped as oversized, or in `lost` with its reason. The reasons `noCache`, `putError` and `storeClosed` are logged; `drained`, the error `_ = pw.close()` discards unlogged, is also accepted here, because it is the finding of `producer_drain_loss`. The property is about every other hand-off.
- **`NoSendOnClosedQueue`:** `Close` stops the loop before it closes the queue.
- **`ShutdownDrained` and `StoreNotUsedAfterClose`:** `wg.Wait` covers every worker goroutine, so nothing is in flight and no `doError` writes to a closed db.
- **`MetricsAccountForDequeued`:** once `Close` has returned, the `ok` and `error` counts plus the answers sarama's `Close` read itself equal the number of messages the workers dequeued, across replays that dequeue a message again. This is the identity the code keeps. Spec §8 states `ok + error + errorcache = dequeued` instead, which a transient error (counted both `error` and `errorcache`) and a drained answer (counted by neither) both break; PROJECT.json lists this under hazards.
- **`Termination`:** `Close` always returns.
- **`WrittenKept`:** in the store alone, with crashes, concurrent writers and failing writes, no successful write is ever overwritten.
- **`ImplementsOverflowStore`:** every step of the store is a write, a replay or invisible. A message leaves the store only by being handed to the callback.
- **`QueueSizeAsRequested`:** the option chain gives the queue size the caller asked for.
- **`AsPoliciesAsRequested`:** the client `NewAsV2` builds carries, for reads and for writes, the last timeout above 5 ms and the last `WithMaxRetries` above -1 (or the defaults), and no policy when that timeout is not positive.
- **`CommitCoversProcessed`:** Consumer11's `Close` commits every message process has seen, because it commits after `wg.Wait`.
- **`ShutdownCompletes`:** once `Close` begins, it returns and every goroutine exits. This includes Consumer2's loop when `Close` closes the group between its `select` and `Consume`, and it holds while messages and errors keep arriving.
- **`VisibleBytesCorrect`:** the result is exactly the accepted draws, each an ASCII letter or digit. Each `Int63` serves at most 10 chunks.
- **`BytesCeil8Correct`:** `ceil8` rounds up to a multiple of 8, and `Bytes` reads enough words.

### What the violations show (the findings in PROJECT.json)

1. **`producer_drain_loss`:** `doMessage` calls `pw.close()`. sarama's `Close` reads `Errors()` itself, and the errors it returns are discarded (`producer.go:181`). A transient error still unread at shutdown is neither persisted nor counted, against spec §4.2 and the metric identity of spec §8.
2. **`local_store_seq_reuse`:** the index is recovered from the greatest *live* key (`local_store.go:36`). After replay has deleted records, or after a crash with numbered but unwritten `Put`s, old numbers are issued again. Spec §2 says they never repeat across restarts.
3. **`local_store_corrupt`:** an undecodable record is skipped but never deleted (`local_store.go:93`), while spec §4.1 says it is discarded.
4. **`local_store_replay_order`:** the number is taken before the write (`local_store.go:58`). Two concurrent writers can commit out of order, and a scan in between replays the higher number first.
5. **`options_num_workers`:** `WithNumWorkers` tests `o.numWorkers > 0` instead of its argument (`options.go:94`), so through `NewProducerV2` it never takes effect and the producer always has one worker.
6. **`consumer_close_wait`:** `Consumer08.Close` (`consumer08.go:61`) is `cg.Close`, which waits for the last offset delivered on `Messages()` to be `CommitUpto`'d but gives up after `Offsets.ProcessingTimeout` (60 s by default). When `process` is slower than that, `Close` returns while `process` is still running or a buffered message is still to be processed, and its `CommitUpto` acts on a closed group. The trace takes that timeout. Consumer2 cannot do this, because sarama's `ConsumerGroup.Close` takes the lock `Consume` holds until `ConsumeClaim` returns. Consumer11 waits with `k.wg`. The `Consumer` interface does not say whether `Close` waits for `process`.

### Mutants

Every property of a passing run has a mutant in PROJECT.json. A mutant is a fault variant defined just before the definition it replaces, such as:

- `Send` ignoring the queue capacity;
- `doError` never persisting;
- `Recover` not reading the last key;
- `Stop` not waiting for the loop;
- `Close` not waiting for the workers;
- `doMessage` not returning on a closed queue;
- `ProcessAll` ignoring decode errors;
- the delete hitting the next key;
- Consumer11 committing without waiting, and Consumer2's loop ignoring `exit`;
- the random cache refilled one chunk late, and `ceil8` rounding down;
- `WithQueueSize` without its guard;
- `doError` counting `error` only after the size check;
- the aerospike policy losing `maxRetries`.

TLC finds each one.

## Bounds

- **Producer:**
  - two workers (symmetric) and three messages;
  - a queue of one slot and a sarama buffer of one;
  - one message in `Big`, and one record left by a prior run;
  - `MaxFailures` ≤ 2 transient errors and `MaxTicks` ≤ 2 ticker firings.
- **Why that is enough:** with one slot, a second `Send`, a `Retry` and a re-enqueue each hit the overflow branch. Two workers let the worker goroutines interleave with each other and with the loop. Two failures make the same message go through the store twice.
- **Store-error runs:** StoreErrors turns on failing leveldb calls with two messages. Failing calls multiply the states, so this run is smaller than the main one.
- **LocalStore:** two writers, three messages and one restart. That is enough for two `Put`s to commit out of order, and for a restart after a replay or after an unwritten number.
- **Producer, cache:** the producer run starts with and without a cache path, so the `ErrLocalStoreNil` paths and the store paths are in the same state space.
- **Consumer:** two messages, one client error and one rebalance. That is enough for a message to be in `process` when `Close` runs, and for a Consumer2 session to end and restart.
- **Pool:** two goroutines, two live maps and one key: enough for a map written by one goroutine to be put back and taken by the other, and for a new map to reuse collected memory; every pool action fires.
- **Random:** `n` ≤ 2, chunks {9, 35, 61, 62}, 12 draws. That covers each letter range, a rejection, and a cache refill after 10 chunks. `ceil8` is checked for every n in 0..17.
- **Options and drivers:** integer arguments {-1, 0, 2, 3}, durations {-1 µs, 3 ms, 20 ms}, and up to three option calls. These cover a non-positive argument after a positive one, a value on each side of the 1 ms, 5 ms and 10 ms floors, and two different positive values. Three hosts (`h`, `h:1`, `h:x`), two values for bins and lists, and three calls on a handle: enough to write, read back and fail, and to write a list and read it as a map.

## Fairness

`FairSpec` assumes weak fairness for:

- every goroutine the library starts (the replay loop, each worker's `doMessage`, `doSuccess`, `doError`, and sarama's `Close`);
- the broker answering every message sarama has accepted;
- the ticker.

For the consumers, `FairSpec` gives weak fairness to the wrapper's goroutines and to the steps of a `Close` already called. The broker (`Fetch`, `LibError`, rebalances) and the caller (`Start`, `CloseExit`) get none.

The caller's `Send`, `Start` and `Close` get no fairness: a program may never call them. The broker must answer for sarama to flush, since `AsyncProducer.Close` waits for it. Transient failures are bounded by `MaxFailures`, so the broker cannot keep failing the same message for ever.

## Not modelled

- **Consumer misuse:** `Start` with a nil process, `Close` before `Start`, and a second `Close`. These close a nil or closed channel and panic.
- **The client libraries' internals:** these are reduced to an open/closed flag and the channels the wrapper reads, with one partition claim.
- **`random`'s init goroutines:** the model draws the chunks directly instead of modelling the goroutines that feed random words.
- **Construction-time errors:** `NewAsyncProducer` and `leveldb.OpenFile` failing.
- **Other `ProcessAll` branches:** the nil-value `break` and the short-key `continue`. `Put` writes neither a nil value nor a short key.
- **Metrics and logging:** these only observe. The producer's KafkaVec counts and the drivers' error counters are modelled, because properties are about them. The consumers' `ok`/`error`/`notice` counts, the latency histograms (`Monitor`, `MetricsTime`), the other vectors of `monitor/`, its HTTP handler and the logger are left out.
- **pool beyond `MapPool`:** `StringMapPool` is the same code for another map type. A zero `MapPool{}` without `New`, whose `Get` returns nil, and a caller that keeps a map after `Put`, are misuse the package cannot prevent; they are listed under hazards.
- **The sql driver and the V1 constructors:** `sql.go` only forwards to `database/sql`. `NewRedis` and `NewAs` are `NewRedisV2` and `NewAsV2` without options.
- **`errClientNil`:** the constructors never return a `Redis` with a nil client.

### Divergences recorded as hazards (no run of their own)

- `WithRedisReadTimeout` and `WithRedisIdleTimeout` say -1 disables the timeout, but their guard (`> 1ms`) drops -1 (`redis_option.go:151`, `:214`).
- `NewAsV2` returns a port parse error before its deferred `MetricsError` is set up, so that error is never counted (`aerospike.go:73`, `:100`).
- Spec §8's `ok + error + errorcache = dequeued` does not hold for the code: a transient error is counted `error` and `errorcache` (`producer.go:209`, `:230`), and an answer sarama's `Close` reads is counted by neither. `MetricsAccountForDequeued` checks the identity the code keeps.
- `GetMapValue` panics on a bin written by `Sets` with a scalar or by `AppendUniq` (`aerospike.go:258`); the model reaches it.

## Further work

1. A producer crash between hand-off and persistence (the window spec §9 accepts), in a separate run.
2. `Producer` shown to refine `OverflowStore` as well, or an abstract producer (a bag of pending messages).
3. The divergences above as violation runs of their own. The project keeps twelve runs, and each of them already asks a different question.
