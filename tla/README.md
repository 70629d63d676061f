# TLA+ models of the Grapl SQS executor and graph-fragment merge

This directory holds TLA+ models of the event-processing pipeline in
`src/src/rust`: the generic SQS executor (`sqs-executor/src/lib.rs`), the Sysmon
subgraph generator it drives (`generators/sysmon-subgraph-generator/src/generator.rs`),
and the per-node merge rules of the graph-fragment model (`graph-descriptions/src/*.rs`).
TLC checks each model; `PROJECT.json` lists the runs, the mutants, the
source lines each definition models, and the hazards.

## 1. Inventory

### Components and their state

| Component | Source | State it keeps | Operations |
|---|---|---|---|
| Executor loop | `sqs-executor/src/lib.rs` | ten slots, each holding one copy of every stage (`make_ten`); the batch in flight | `process_loop` (catch a panic, sleep, restart), `_process_loop` (receive, zip with slots, `join_all`), `process_message` (retrieve, handle, serialize, emit, store identities, ack / dead-letter) |
| Sysmon handler | `generator.rs` | per call: `last_failure`, `identities`, the running subgraph; a cache handle | `handle_event` (split lines, keep EventID 1/3/11, `process_events`, fill `CompletedEvents`, return Ok or partial) |
| Dedup cache | not under `src/` | set of identities (Redis, or none for `NopCache`) | `get` (Hit/Miss/error), `store` |
| Payload retriever | not under `src/` | none per message | `retrieve_event` -> `Ok(Some(batch))`, `Ok(None)` (object missing), `Err(Transient|Persistent)` |
| Serializer, S3 emitter | not under `src/` (except `time_based_key_fn`, lib.rs 394-403) | none | serialize; emit under a time-based key |
| Queue driver (rusoto_helpers) and SQS | not under `src/` | each message visible, in flight (visibility timeout running) or deleted; the dead-letter queue | `get_message`, `delete_message`, `move_to_dead_letter` (send, then delete) |
| Graph-fragment merge | `graph-descriptions/src/{ip_connection,process_inbound_connection,file,dynamic_node}.rs` | the fields of one node | `merge`/`merge_into` (refuse differing node_key, fill, min/max timestamps, overwrite for dynamic properties), predicate attachment, predicate cache identities |
| OSQuery generator start-up | `osquery-subgraph-generator/src/main.rs` | configuration | builds the stages and calls `process_loop` |
| Router deploy route | `grapl-router-api/.../deploy.rs` | none | forwards a request, maps its error to an HTTP status |
| Immutable uint upsert | `graph-mutation-service/.../immutable_uint_mutation.rs` | a query buffer | builds a DGraph upsert |

### How they interact

`_process_loop` receives a batch of messages and zips it with the ten slots.
Each slot runs `process_message` as a future; all of them are joined by
`join_all` before the next receive, so one executor never holds more than ten
messages and never receives while a slot is busy. A slot's `process_message`
calls the retriever, then the handler (which reads the shared cache), then the
serializer and emitter, then stores the handler's identities in the cache, then
deletes the message (Ok) or moves it to the dead-letter queue (Persistent
failure). The cache and SQS are the only state shared between slots. The
`expect` calls on serialize and emit panic; the panic unwinds out of `join_all`,
drops every sibling future at whatever await it was, and `process_loop`
restarts the inner loop after 100 ms. Messages the dropped futures held come
back when their SQS visibility timeout runs out.

### What is hard

* Interleaving of the slots at their awaits with a panic of any one of them:
  one slot can be dropped between its emit and its cache stores, midway
  through the stores, or between the dead-letter send and the delete.
* Publish-before-cache ordering: a cached identity makes every later delivery
  skip the event, so an identity cached before its subgraph reached S3 loses
  the event.
* Cache errors read as misses; cache reads racing other slots' stores.
* The visibility timeout, the only recovery for abandoned and Transient
  messages; the `Ok(None)` delete that is not awaited.
* Merge rules at the zero value (unset timestamps), at the all-ones value
  (`!other.file_inode != 0`), and their dependence on batch order.

### What makes each component correct

* Executor: no event is lost (an acknowledged message had all its events
  published); nothing is cached before it is published; every message
  eventually leaves the source queue once faults stop; a Transient failure
  never deletes a message.
* Handler: a batch with any bad line returns a partial result; cache hits are
  skipped; cache errors never drop an event.
* Merge: refuses differing node keys; scalar fields are filled only when empty;
  created-family timestamps are the minimum of the non-zero values and
  upper-bound timestamps the maximum (spec section 3); the result does not
  depend on the order of the batch (spec 4.H).

## 2. Plan

Modules, in the order they are (to be) written:

1. **`Executor`** (done) — the executor loop with the Sysmon handler,
   cache, retriever outcomes, SQS visibility and dead-letter queue; panics and
   Transient faults. `MCExecutor` instantiates it.
2. **`IpConnectionMerge`**, **`ProcessInboundMerge`**, **`FileMerge`**,
   **`DynamicNodeMerge`** (done) — each node variant's `merge` as an operator, and a
   small state machine that folds it over a batch of nodes (the left fold of
   `process_events`), checked against a reference definition written from the
   spec's field-policy table (fill-if-empty, min-nonzero, max, overwrite).
   `FileMerge` keeps the u64 width of `file_inode` at a small width w
   (`% 2^w`) so that the all-ones value is reachable.
3. **`KeyFn`** (done) — `time_based_key_fn`'s bucket arithmetic over a bounded range
   of milliseconds, against the spec's day bucket.
4. **`AbstractQueue`** (done) — an abstract at-least-once consumer (each message is
   eventually removed, and only after its events are published or it is
   dead-lettered); `Executor` shown to implement it with `INSTANCE ... WITH`
   and the abstract `Spec` as a PROPERTY.
5. **Two executor instances** (done) on one queue (the service scaled out): the
   visibility timeout then lets two slots of different executors hold the
   same message, which the barrier rules out inside one executor.
6. **`NodePredicates`** (done) — predicate attachment and predicate cache
   identities of every node variant, with the identities as character
   strings, checked against the spec's (node key, attribute, value) tuples.

## 3. Modules and runs

### `Executor` / `MCExecutor`

State (variables) and the code they stand for:

| Variable | Code |
|---|---|
| `queue[m]` | the message in SQS: visible, in flight (received, timeout running), deleted |
| `dlq` | copies sent to the dead-letter queue |
| `published` | identities merged into a subgraph emitted to S3 |
| `cache` | identities in the dedup cache |
| `pc[s]`, `held[s]` | the await slot `s`'s `process_message` is at, and its message |
| `graph[s]`, `completed[s]` | the handler's output, and `completed.identities` not yet drained |
| `onDone[s]` | Ok (delete) or partial with a Persistent error (dead-letter) |
| `detached` | the `Ok(None)` delete, issued without `.await` |
| `transients`, `panics` | fault counters, bounded by `MaxTransient`, `MaxPanics` |

Actions: `Poll` (receive up to `MaxBatch`, zip with the slots; only when all
slots are idle, i.e. after `join_all`), `EmptyPoll` (empty receive, loop
continues), `Retrieve` (the four outcomes of `retrieve_event`), `Handle`
(`handle_event`/`process_events` as a fold over the batch, with any subset of
`cache.get` calls erring), `HandleFails` (the `Err(Err(e))` branch of a generic
handler), `Emit` (serialize + emit), `Panic` (serialize/emit fails: every slot
dropped), `StoreIdentity` (one iteration of the drain loop; a failed store is
only logged), `Ack`, `DeadLetterSend`, `DeadLetterDelete` (which may fail),
and the environment's `VisibilityTimeout` and `DetachedDelete`.

Run **`executor`** (`MCExecutor.cfg`): 2 slots, `MaxBatch = 3` (more than the
slots, which SQS never returns to ten slots: an over-approximation that lets
`TypeOK` show the zip keeps at most one message per slot), identities `e1`, `e2`; messages `m1 = <<e1, Ignored, e2>>`
(clean), `m2 = <<e2, BadXml, BadGraph>>` (partial, sharing `e2` with `m1`),
`m3` (object missing), `m4` (malformed body); one Transient fault, one panic.
Checks:

* `TypeOK` — every variable has its type; `held` is defined only on the
  slots, so a poll never gives a process more messages than slots.
* `PublishBeforeCache` — `cache \subseteq published`.
* `NoEventLost` — a message deleted without a dead-letter copy had all its
  events published.
* `AllMessagesDeleted` — every message eventually leaves the source queue.
* `ImplementsAbstractQueue` — the executor refines `AbstractQueue` (below).

About 790 000 distinct states; all hold. Mutants: storing identities while
still at the emit step breaks `PublishBeforeCache`; reading a cache error as a
hit breaks `NoEventLost`; dropping the Ok-path delete future breaks
`AllMessagesDeleted`; zipping more messages than slots breaks `TypeOK`; sending
a malformed body (a Persistent retrieve error) down the detached-delete path
of `Ok(None)` breaks `ImplementsAbstractQueue`, because it removes a message
that was neither published nor dead-lettered.

**Several executor processes.** The constant `Execs` is the set of executor
processes (replicas of one generator service) and `N` the slots of each:
`Slots == Execs \X (1..N)`. `Poll(x)` and `EmptyPoll(x)` are per process, and
`AllIdle(x)` is the `join_all` barrier of process `x` only. A `Panic` drops the
slots of the panicking process (`SlotsOf`) and no others. The `executor` run
has one process. Run **`executor_scaled`** (`MCExecutor_scaled.cfg`) has two
processes of one slot each, `MaxBatch = 2`, and messages `m1`, `m2`, `m4`. An
expired visibility timeout there hands a message to the second process while
the first still holds it, so two copies of one message run at once. They read
and fill the shared cache, and one copy may publish, dead-letter or delete
after the other has removed the message. The same properties hold (`TypeOK`
is checked once, in `executor`), with the
whole of `AbstractQueue` checked in place of its safety part
(`ImplementsAbstractQueueSpec`, see below). That is about 330 000 states in
about a minute, and the same four mutants break them.

A failed `get_message` panics too (`.expect`). That happens only while every
slot of the process is idle, so the restart changes no state and is the same as
an `EmptyPoll`.

### `AbstractQueue` and the refinement

`AbstractQueue` is what the executor promises its source queue, with no slots,
polls, timeouts or cache. Its state is `done` (messages removed from the
source queue), `dlq` and `published`. It has three actions:

* `Publish(m)` adds some of `m`'s own events to `published`.
* `DeadLetter(m)` copies `m` to the dead-letter queue.
* `Consume(m)` removes `m`, only when that is safe. It is safe when `m` was
  dead-lettered, its payload is missing, or its payload decoded and every
  event of `m` was published.

`Executor` instantiates it with `done <- {m \in Msgs : queue[m] = "deleted"}`
and checks `ImplementsAbstractQueue == Abstract!SafetySpec` as a PROPERTY:
every executor step is an abstract step or a stutter.

`Publish` and `DeadLetter` have no guard on `done`. The two-process run showed
why: a copy still in flight may publish or dead-letter after the other copy has
deleted the message. That is the at-least-once delivery the code intends, and
not a defect.

The abstract `Spec` adds weak fairness on `Consume(m)`: a message that stays
safe to remove is eventually removed. The `executor_scaled` run checks
`ImplementsAbstractQueueSpec == Abstract!Spec`, fairness included. There, two
processes, panics and expired visibility timeouts interleave around every
message. The one-process `executor` run checks only the safety part
(`ImplementsAbstractQueue`). With the fairness its liveness check took more
than three minutes.

Bounds: two slots suffice for a panic of one slot to drop the other at any of
its awaits; two identities shared by two messages give the cache-hit path and
the duplicate-publication path; one panic and one Transient fault are enough
to reach every crash point (deeper fault sequences repeat the same shapes).
Two processes of two slots each (`N = 2`) do not finish within five minutes,
even without the temporal property, so `executor_scaled` keeps one slot per
process; the two-slot interleavings inside one process are covered by
`executor`.

### Merge modules

Each of `IpConnectionMerge`, `ProcessInboundMerge`, `FileMerge` and
`DynamicNodeMerge` translates one node variant's `merge` into an operator
`Merge(self, other)`, with one operator per field rule (`LowerCreated`,
`RaiseTimestamp`, `FillOptional`, `FillInode`, `InsertAll`, ...). The state
machine is the left fold a generator performs over a batch:

| Variable | Meaning |
|---|---|
| `agg` | the running aggregate node (`self`) |
| `inputs` | the nodes `merge` accepted so far, the first node of the batch first |
| `steps` | nodes of the batch consumed, bounded by `MaxBatch` |

`Init` picks any node as the first of the batch; `MergeNext` merges any next
node, and a node with a differing key is refused (for `ProcessInbound`, a
differing `ip_address` too). Each module then states the spec's field-policy
table (sections 3, 4.H, 8, 9) as a reference definition over `inputs`
(`MinNonZero`, `Max`, `FirstSet`, `Last`) and compares the aggregate with it.
Deadlock checking is off: a batch is finite and the fold stops.

Bounds: two node keys (so refusals happen), two values per identifying or text
field, timestamps `0..2` (unset, and two ordered set values), batches of three
nodes (so a set value can be followed by a zero and then another set value).
`FileMerge` keeps `Width = 2` bits with inodes `{0, 1, 3}`, so the all-ones
value the complement maps to zero is reachable.

The passing properties are checked together by run **`merges`**
(`MCMerges`). That module instantiates the four merge modules and picks one
variant in `Init` (the variable `variant`), so its state space is the disjoint
union of the four folds (about 3.4 million states in 20 s). Each property is
the variant's own, guarded by `variant = ...`. The violations run on each
variant's own MC module.

| Run | Expect | Property | What it shows |
|---|---|---|---|
| `merges` | pass | `IpUpperBoundsAreMax` | IpConnection's terminated/last_seen are the maximum whatever the order |
| `merges` | pass | `InboundOptionalIsFirstPresent` | asset_id/hostname keep the first present value |
| `merges` | pass | `FileNameIsFirstNonEmpty` | File's text fields keep the first non-empty value |
| `merges` | pass | `DynamicLastWriteWins` | every property is the last value the batch gave it |
| `merges` | pass | `RemergeIsIdempotent` | ProcessInboundConnection and File: merging once more a node the batch already merged in changes nothing |
| `ipconn_created` | violation | `CreatedIsMinNonZero` | `o < s` with `o = 0` lets an unset created_timestamp overwrite a set one (ip_connection.rs:93) |
| `ipconn_attrs` | violation | `IdentifyingAttributesAgree` | merge compares only node_key, so nodes with different addresses merge (ip_connection.rs:86) |
| `inbound_timestamps` | violation | `TimestampsAreMinMax` | the `s != 0` guards mean a zero timestamp is never filled (process_inbound_connection.rs:116-130) |
| `file_inode` | violation | `InodeIsFirstNonZero` | `!other.file_inode != 0` is the bitwise complement: an all-ones inode is never copied, a zero one is (file.rs:199) |
| `file_timestamps` | violation | `TimestampsAreMinMax` | timestamps keep the first non-zero value, not min/max (file.rs:224-235) |
| `dynamic_asset` | violation | `AssetIdFilled` | `DynamicNode::merge` never fills asset_id (dynamic_node.rs:66-82) |

Mutants: an upper-bound timestamp only filled when unset breaks
`IpUpperBoundsAreMax`; an optional or text field overwritten by a later value
breaks `InboundOptionalIsFirstPresent` and `FileNameIsFirstNonEmpty`; inserting
a property only when missing breaks `DynamicLastWriteWins`; a File timestamp
that takes every later non-zero value breaks `RemergeIsIdempotent`.

`RemergeIsIdempotent` is the spec's "merge is idempotent" (section 3), which
at-least-once delivery relies on. A node is merged a second time when an
event repeats within one payload: the cache is read before the batch and
written only after the emit. It is also merged again when a fragment is
delivered again. The property is checked for the two variants that have it.
IpConnection and DynamicNode do not have it. For IpConnection, a duplicate of
a node with `created_timestamp = 0` resets the created timestamp to 0; that is
the line behind `ipconn_created`. For DynamicNode, a duplicate of an older
node rolls its properties back to the older values; that is the overwrite
rule `DynamicLastWriteWins` states. `DynamicNode::merge` also never raises
`seen_at`, as it never fills `asset_id` (`dynamic_asset`).

### `KeyFn` / `MCKeyFn`

`time_based_key_fn` (lib.rs 394-403) as `Key(ms)`, with `Bucket(ms) ==
ms - ms % 86400`. State: the wall-clock reading `now` and the set of `keys`
emitted (bucket and timestamp; the uuid only makes keys distinct).
`EmitKey` is one call; `ClockMoves` reads the clock again, in either
direction, since `SystemTime` is not monotonic. Clock readings
`{0, 86399, 86400, 86400000 - 1, 86400000}` sit on both edges of an 86 400 ms
bucket and of the first UTC day; three keys.

* `keyfn_day` (violation): `SameDaySamePrefix` — keys at 86 399 ms and
  86 400 ms, the same UTC day, get prefixes 0 and 86 400. The code divides
  milliseconds by a count of seconds: the bucket is 86.4 s, though the
  variable is `cur_day` and the spec calls it a day bucket.

### `NodePredicates` / `MCNodePredicates`

Two `NodeT` operations of every node variant, as operators:

* `Predicates(n)` is `attach_predicates_to_mutation_unit`: the (node key,
  predicate name, value) triples written to DGraph.
* `CacheIdentities(n)` is `get_cache_identities_for_predicates`: the strings
  `format!("{}:{}:{}", node_key, predicate, value)` that key the predicate
  cache.

Strings are sequences of characters, so that `:` inside a name or a value is
visible. Numbers are written as `x as i64` (`AsI64`, at `Width` bits) and shown
in decimal (`Decimal`, RECURSIVE). For the fixed-schema variants the tables
`IpAttach`/`IpIdentities`, `InboundAttach`/`InboundIdentities` and
`FileAttach`/`FileIdentities` have a row for every field the code handles,
with its predicate name and its guard. The guard is one of: written always,
when non-empty, or when non-zero. `DynamicAttach` and
`DynamicIdentities` are translated in full. The state is the `mutation` and the
`cache` of identities for up to `MaxNodes` materialised nodes. Each
`Materialise(n)` step calls both operations on one node, as the merger does for
each node of a fragment. That caller is not under `src/`; it is modelled from
the spec.

Bounds: one node key, two nodes, numbers `{0, 1}` at 2 bits, and property names
and values with and without `:`. The constant `Varied` names the fields that
take every value; the others keep their default (empty or 0). Every field of
IpConnection and ProcessInboundConnection is varied. Of File's twenty fields
four are varied: `file_name`, `file_inode`, `created_timestamp` and
`last_seen_timestamp`. That is one field per (guard, name) shape, and all
twenty vary at once would be 2^20 structs. Deadlock checking is off because the model
stops after `MaxNodes` nodes.

| Run | Expect | Property | What it shows |
|---|---|---|---|
| `predicates_name` | violation | `IdentityDenotesWrittenPredicate` | `File` writes `created_timestamp` as the predicate `created_time` (file.rs:451), but its identity says `created_timestamp`, so the cache names a predicate that was never written |
| `predicates_collision` | violation | `IdentitiesDistinguishPredicates` | the unescaped `:` lets two DynamicNode properties share one identity (`p` = `q:1` and `p:q` = `1`); `Intprop 1` and `Strprop "1"` collide as well (dynamic_node.rs:144) |

Fixing the name at file.rs:451 makes `IdentityDenotesWrittenPredicate` hold
(about 8 500 states). No other field of the three variants has a name or guard
that differs between the two operations.

IpConnection always writes `src_ip_address`, `dst_ip_address` and `protocol`.
ProcessInboundConnection always writes `protocol` and `port`. They are written
even when empty or 0, although spec 4.H says zero and empty fields are
omitted. The tables model this, but no property checks it. The Int/Str collision is found even with names and
values free of `:`.

### Fairness

Weak fairness on each process's `Poll`, on each slot's steps, on the visibility timeout and
on the detached delete: the tokio runtime polls every future of `join_all` to
completion, SQS always expires a visibility timeout, and a spawned task runs.
Faults (`Panic` and the Transient branches) carry no fairness and are bounded,
which is the assumption `AllMessagesDeleted` needs: with Transient failures
forever a message is redelivered for ever, as the code intends.

## 4. Not modelled, and why

* The retriever, decoders, serializer, emitter, cache and queue helpers are
  not under `src/`; their observable outcomes are modelled from the spec.
* Subgraph content inside the executor is abstracted to the set of
  identities it merges; merge rules are modelled separately by the four merge modules.
* Partial results with a Transient error (`Err(Ok((partial, e)))` where `e`
  is Transient: publish, cache, then leave the message for redelivery). The
  Sysmon handler never returns one: both of its failure kinds are Persistent,
  and its Transient `Unexpected` error is never built.
* `File::merge_into` is `File::merge` field for field, taking ownership
  instead of cloning. `IpConnection` and `ProcessInboundConnection` call
  `merge` from `merge_into`. `DynamicNode::merge_into` is the same loop over
  an owned map.
* `DynamicNode::requires_asset_identification`, `File::timestamp` and the
  getters and setters have no caller under `src/`.
* The OSQuery generator's `main` only builds the stages and calls
  `process_loop`, which `Executor` models.
* The model-plugin deploy route is out of scope per the spec. It forwards one
  request and maps its error to a status, with no state. The upsert query
  builder only builds a string.
* `File.merge` has sixteen scalar fields; one of each rule is kept (see
  `FileMerge`). `ProcessInboundConnection`'s `hostname` is merged exactly like
  its `asset_id` and is represented by it.
* The `SystemTime before UNIX EPOCH` panic of `time_based_key_fn`: every
  clock reading of `KeyFn` is after the epoch.
