# A TLA+ model of Nimbus

Nimbus is a two-tier cache for services that run as many short-lived
instances. Each instance has an in-process L1; all share an L2 in Redis that
is the source of truth and the only place versions are minted; an invalidation
bus carries evictions, never values, between instances. The correctness idea of
the library is the *fill invariant*: nothing enters an L1 unless L2 has
accepted it under a version it minted, decided atomically against concurrent
invalidations.

This directory models that protocol, model-checks it on small instances with
TLC, and proves every safety property that the passing runs check for all
instances with TLAPS. No theorem has a hypothesis beyond the assumptions on the
constants; where the code leaves a case open, the property names it.

## Parts of the system

| part | source | module |
|---|---|---|
| L2 contract | `store/store.go` | `VersionedStore` |
| Redis L2 | `redisstore/redis.go` | `RedisStore` (refines `VersionedStore`) |
| cache core | `cache.go` | `Nimbus` with an L2, `LocalCache` without; `InvalidateTag` with an L2 in `TagIndex`; `Close` in `Lifecycle` |
| entries, clock, loader | `store/entry.go`, `internal/clock`, `loader.go` | in `Nimbus` |
| L1 store | `store/memory/` | `MemoryLRU` (refines `LRU`); abstracted elsewhere |
| singleflight | `internal/singleflight` | in `LocalCache`; abstracted in `Nimbus` |
| refreshers | `refresh/` | `RequestBound`, `Background` (refine `Refresher`); `Lifecycle` uses `Refresher` |
| dedupe | `invalidation/dedupe.go` | `Dedupe` (refines `RecentIDs`), extended by `PullBus` |
| tags | `redisstore/redis.go`, `cache.go` | `TagIndex`, `LocalCache` |
| in-process bus, no-op bus | `invalidation/` | transports of `Lifecycle` |
| Redis pub/sub bus | `invalidation/redispubsub/` | transport of `Lifecycle` |
| GCP bus, pull | `invalidation/gcppubsub/pubsub.go` | `PullBus` |
| GCP bus, push | `invalidation/gcppubsub/push.go` | transport of `Lifecycle` |
| builder | `builder.go` | the subscriber it starts in `Lifecycle`; its settings are constants of `Nimbus` |
| codec, metrics, OIDC check, examples | | not modelled |

How they fit: `Nimbus` composes the cache core with the L2 contract and a bus
that loses, repeats and reorders; `RedisStore` shows that Redis keeps the
contract; `PullBus` and `Lifecycle` show what the transports and the handler do
with an event; `Lifecycle` composes the cache with the contract of the refresher,
which `RequestBound` and `Background` are shown to keep.

## Modules

### VersionedStore

The contract `store.VersionedStore` as an abstract state machine: `log[k]` is
the history of the writes accepted for a key. Only the last can be observed,
until it expires. `SetCAS` and `CompareAndDelete` accept a write when the
expected version allows it and mint a version greater than every earlier one.
A refused operation changes nothing.

### RedisStore

The two Lua scripts over one hash per key. `mint` is `versionSeedLua` (current
version plus one, or a seed from the server clock when the hash is absent, with
`Span` versions per millisecond in place of 1024), `Store` is the tail of both
scripts, `redisTTL` the retention with its floor. A hash whose `PEXPIRE` has
passed is invisible. `held` is what a client's last `Load` reported, with the
number of writes at that time as history, so that ABA can be stated: `NoABA` covers
the 0 that a miss reports as well, which setCAS accepts again once the key has
been written and has expired meanwhile, and says exactly when that is.

The model assumes what the version layout states: fewer than `Span` mints of a
key per millisecond (`Headroom`) and a server clock that does not go back. The
bounds `MaxClock` and `MaxWrites` are only there for TLC.

### Nimbus

Several instances over one L2 (an instance of `VersionedStore`). Every
operation is a sequence of steps, one for each L2 command, loader call, L1
access or broadcast, and the steps of all operations interleave:

| state | code |
|---|---|
| `log`, `now` | Redis, through the contract |
| `origin[k]` | the system of record; values are revision numbers |
| `l1[i][k]` | the entry of a key in an L1 |
| `op[<<i, k, r>>]` | a fill led by a reader (`miss`), a revalidation (`refresh`), or a writer's call |
| `bus[i]`, `seen[i]` | events on their way to an instance, IDs in its Dedupe |
| `late[i][k]` | history: `<<u, v>>` if version `u` was between L2 and L1 when the newer write `v` took effect in the L1 of `i` |
| `missed[i]` | history: the Sets and Invalidates whose broadcast does not reach `i` |

| action | code |
|---|---|
| `Get`, `GetOrLoadMiss`, `GetOrLoadStale` | `Get`, `GetOrLoad`, `scheduleRefresh` |
| `FillLoadFresh/Miss/Error`, `FillLoader`, `FillSetCAS`, `FillDelete`, `FillConflict`, `FillReload`, `FillDegraded`, `FillInstall` | `fill`, one action per branch |
| `SetBegin`, `SetL2`, `SetInstall`, `Publish` | `Set` |
| `InvalidateL2`, `InvalidateL1`, `Publish` | `Invalidate` |
| `onEvent` | `onEvent` |
| `EvictLRU`, `Restart`, `OriginWrite`, `Tick` | L1 pressure, a replaced instance, the application, time |

`Faults` selects what goes wrong: L2 commands that fail, or take effect and
lose their reply, loader errors, lost and redelivered broadcasts, restarts,
evictions. Clocks have a constant skew per instance. Versions are consecutive
here; `RedisStore` is where the real ones are shown to keep the contract. A context
that ends, that of a reader or the timeout of a revalidation, makes the command or
the loader under it fail, before or after it took effect, and is covered by these
faults; no operation has to end in time.

`GetOrLoadMiss` is the moment at which a miss leads the singleflight of its key. Its
lookup in L1 may have been at any earlier time, so it does not look at L1 again.
`Conditional` is the set of instances whose L1 offers `SetIfNewer`; the others have
the unconditional `Set` that `installL1` falls back to.

A write *takes effect* in an L1 when its own instance installs or deletes it
there, or when another instance applies its event; what is in hand at that moment
goes into `late` (`Overtake`). A broadcast is missed if the bus loses it, if the
reply of the L2 write was lost, or if the writer's instance dies before it
(`Miss`, `Unsent`). A restarted instance begins with an empty L1 and has missed
nothing.

### Refresher, RequestBound, Background

`Refresher` is the contract of the interface: at most one revalidation of a key
at a time, none launched after Close, a Close that returns when all are over.
`RequestBound` has one goroutine per revalidation: a critical section of
`Schedule` or `Close` is a step, and the deferred calls of a goroutine (unmark
the key, release the token, `wg.Done`) are steps in the order they run.
`Background` has a queue and workers; `worker` is split into receiving a job,
running it and unmarking its key. A suppressed `Schedule` changes nothing and
has no action. Both refine `Refresher` with the set of marked keys as `active`.
`Keyspace` declares the keys, which `RequestBound` shares with `LocalCache`.

### Lifecycle

One cache from Build to Close, over one of four transports chosen in `Init`:

| state | code |
|---|---|
| `task["sub"]` | the goroutine of `Build` that runs `Subscribe`, and its handler `onEvent` |
| `task[r]` | a push request, which calls the same handler |
| `joined`, `inbox`, `busClosed` | the registered channel of the subscriber or the push handler, its buffer, `Mem.closed` |
| `call[x]` | a GetOrLoad, Set or Invalidate past its check of `closed` |
| `active`, `phase` | the refresher, through its contract |
| `closed`, `cancelled`, `once`, `closer[c]` | the fields and the steps of `Close` |

`onEvent` is split where it may be overtaken: its checks (`Check`) and the
eviction (`Evict`). `Subscribe` may fail or find the bus closed; a full buffer,
a Redis client without a connection, a poison message and a client closed by its
owner are there. `Close` is split at every wait: `closeOnce`, the cancellation,
the wait for the subscriber, the drain of the refresher. Of L1 only the presence
of an entry is kept, since freshness is the subject of `Nimbus`.

### LocalCache

The cache without an L2: `fill` stores what the loader returns, `Set` writes L1
and then takes the mutex of the local tag index (`indexTags`), `InvalidateTag`
takes the tag's set under the mutex (`InvalidateTag`) and deletes its keys after
the unlock (`Sweep`). `flight[k]` is singleflight: a call that missed
(`GetOrLoadMiss`) leads the flight of its key or joins it in a later step (`Do`),
whatever L1 has by then, and all return with the leader (`Land`). `due` is history: what a
sweep owes, the entries that could be reached by the tag when it began.

### RecentIDs, Dedupe

`Dedupe` is the ring (`order`, `idx`, `filled`) with its map; `RecentIDs` the
sequence of the last IDs that were new. The empty string is one of the IDs, as
it is also what an unused slot holds.

### PullBus

The pull subscriber of `gcppubsub`, with the cache's handler and the Dedupe its
concurrent callbacks share. The service is external and modelled by its promise:
a message published while the subscription exists is delivered until it is
acknowledged, to several callbacks if ack deadlines pass. The subscription may be
our own, left over by a killed instance, or shared with a live one that uses the
same ID. `Create` has the three outcomes of `CreateSubscription`, with a failure
that may hide a success; `Teardown` is the deferred delete. `owed` is history: the
events whose key has an older entry in L1. `clampAckSeconds` has the sizes of its
integers as constants (`Wide` and `Narrow`, the numbers of their values), and wraps
and truncates as Go does.

### LRU, MemoryLRU

`MemoryLRU` has the maps and the intrusive lists of the shards (`head`, `tail`,
`prev`, `next`); an operation holds the shard's mutex and is a step.
`roundUpPow2`, the mask and the division of the capacity are those of `New`.
`roundUpPow2` is stated as the power of two from `n` to below `2 * n`, and
`MCMemoryLRU` compares it with the loop of the code. `older` is history: for each
key the keys of its shard that were used before it was. A lookup that hits, a
write and a removal change it as they change the list (`Use`), so that
`ListMatchesMap` can say in which order the list is. `LRU` has the map and `older`
alone: an insert into a full shard drops the key that no other was used before.

### TagIndex

One tag: its Redis set, tagged writes (`SetCAS`, then `addTags`), readers that load a
value (`Load`) and install it in L1 later (`installL1`), and any number of calls of
`InvalidateTag` at once, each on the instance `Home[c]`: `Sscan`, batches of
tombstones, `Srem`, local evictions, chunks of a broadcast. Every Redis command is a
step, and those of the writers and callers in `Faulty` may fail with or without
effect. `SSCAN` is modelled by its guarantee: it returns any members, and all that
stayed in the set from its first call to its last. What tells the properties apart is
kept of a key: whether it is live, and whether a copy of it, in L1 or in the hands of
a reader, is `dead`: killed by a sweep, with its eviction still to come.

Calls that overlap weaken what each promises, and the properties name how:

- a key written and tagged again after one sweep has tombstoned it and before that
  sweep's `SREM` drops out of the set (`tags_race`). Another call that begins in
  between is not held to reach it (`due` in `Begin`);
- a copy that is in hand when its eviction arrives is installed after it, as in
  `stomp`; it is `held` again from then on;
- "the tag set still holds the un-SREM'd members, so a retry resumes"
  (redisstore/redis.go:256-257) does not hold for a member that another call has
  removed: if this call's tombstone for it then takes effect and loses its reply,
  nobody evicts the copies (`told` in `Tombstone`).

## What is checked

Passing runs:

| run | question | bounds |
|---|---|---|
| `redis` | versions grow across expiries, no ABA, every live entry expires, the contract is implemented | 1 key, 1 client, 6 ms, 4 writes, 2 mints per ms, entries of 1 and 2 ms |
| `fill` | a fill, a revalidation and a writer race over a changing origin, under every fault: L2, loader, broadcasts, restarts, evictions | 1 instance, 2 versions, 2 revisions (the second has no row), jitter of 1, retentions of 1 that fills outlive, 4 instants |
| `bus` | invalidations, some of them lost, and restarts against installs in two L1s, with a clock that runs ahead: staleness, evictions that stick, convergence | 2 instances, one without `SetIfNewer`, 2 versions, 3 instants |
| `request_bound` | tokens, deduplication, Close, progress, the contract | 3 keys, 3 goroutines, cap 2, 2 closers |
| `background` | marks, queue, workers, Close, progress, the contract | 4 keys, 2 workers, queue of 2, 2 closers |
| `pull` | no event is acknowledged into the void, ring against map, the last IDs, the ack deadline | 3 IDs, ring of 2, 2 callbacks, durations of 256 values (8 bits) and seconds of 32 (5 bits) |
| `close` | Close is complete and returns, L1 gets inert, buffered events are applied, over the in-process, Redis, push and no-op transports (the pull bus is in `pull`) | 1 key, 2 callers, 2 closers, 1 push request, buffer of 2 |
| `local` | tagged entries stay in reach, sweeps are complete, flights are led | 2 keys, 3 callers, 1 tag |
| `lru` | list against map, shares, capacity, an LRU | 5 keys in 2 shards (3 and 2), capacity 3, 2 versions, 2 deadlines, 2 evictions |
| `tags` | complete sweeps, copies in reach of a retry, under overlapping calls and failing commands | 2 keys, 1 writer, 2 callers on two instances with 1 call each, 1 copy of 1 key, batches and chunks of 1 |

A type invariant that is proved is not model-checked as well, except that of
`TagIndex`. It is where the limits are: tokens within the
cap of `RequestBound`, the queue of `Background` and the buffer of `Lifecycle` within
their sizes, batches and chunks of `TagIndex` within theirs.

The bounds are chosen so that each race fits. In `fill` a write or a tombstone
expires under a fill, which then wins with the version it still holds, within four
instants. `Room` starts an
operation only if every mint it may lead to fits, so the bound never blocks an
operation half way. Larger instances, such as three versions on two
instances, exceed what TLC can enumerate here and are covered by the theorems,
which hold for every bound and every set of faults. Redelivery is in
`fill`, where a restarted instance takes the events of its predecessor, and in
`pull`.

In `request_bound` there is one goroutine more than the cap and one key more
than fit; in `background` one round fills the queue and the workers. In `pull`
the ring wraps with more IDs than slots, both callbacks may have the same
message, and every duration of the width is tried, those that overflow
included. In `close` the buffer overflows, two calls of Close meet in the Once, a
call is in flight while another one is, and a push request outlives the
subscriber; one key is enough because no two keys share any state except the
buffer and the refresher (two keys with one caller pass as well: 569,780
states). In `local` three callers are a writer and two sweeps, or a leader and two
that wait. In `lru` three keys meet in a shard that holds two, and the
other shard fills up, so that the store is one entry over its capacity. In `tags` a page
needs more than one batch, and a broadcast more than one chunk; one caller's commands
and the writer's may fail, and the call of the other is the retry, or runs at the
same time. One copy is enough, since copies of different keys or instances never
meet: the run follows that of `a` on the instance of one of the callers, so that it
is evicted both locally and by an event. `tagged` is left out of the VIEW because only
`TaggedIsMember` of `tags_race` reads it.

What is closed may come to rest, so `request_bound`, `background`, `pull` and `close`
do not check for deadlock; the liveness properties of the refreshers and of
`Lifecycle` say what must still happen.

Liveness is claimed of the refreshers and of `Lifecycle`: a marked key is freed
(`KeysAreFreed`), every Close that waits returns (`CloseReturns`, in both), and an
event that reached the subscriber's buffer is applied (`EventsAreApplied`). The
fairness is

- weak fairness of each goroutine or worker, of the subscriber, and of a Close
  that can proceed: the Go scheduler runs what can run;
- weak fairness of the end of a revalidation, which the code ensures by the
  timeout of its context, if one is configured and the loader respects it;
- strong fairness of the subscriber's exit (`Leave`): its `select` chooses at
  random between a done context and a waiting event, so that a stream of events
  cannot keep it from seeing the context for ever;
- that the process has CPU, which `Background` requires in its documentation.

No fairness is assumed of the callers, of publishers, of the loader of a miss or
of Pub/Sub. `Nimbus`, `LocalCache` and `PullBus` are safety specifications: for the
cache, refreshes and broadcasts are best effort.

### Disagreements

Two runs state what the documentation says and TLC refutes it:

| run | what happens | what is written |
|---|---|---|
| `stomp` | a fill past its L2 write installs after the invalidation was applied; L1 is empty, so the version gate lets it in | DESIGN.md:84-85 |
| `tags_race` | a member tagged again between its tombstone and the SREM drops out of the tag | redisstore/redis.go:257-259 |

Eleven smaller ones are stated as properties without a run of their own. To see a
counterexample, check the property alone in the configuration named, changed
as said (`NotFoundIsEarned` and `WinnerIsServable` as PROPERTY):

| property | configuration | what happens | what is written |
|---|---|---|---|
| `StaleFillsAreDiscarded` | `NimbusFill` | a write that a fill has not seen expires in L2 while the fill runs, and the fill stores an older revision | DESIGN.md:88-90, "the CAS fails and the loaded value is thrown away" |
| `StaleWithinFresh` | `NimbusStomp`, `MaxTime = 1` | a superseded entry is served through its stale window, beyond the fresh TTL | DESIGN.md:248-249, "bounded staleness, capped by the fresh TTL (and MaxTTL)" |
| `NegativesAreCapped` | `NimbusFill`, `MaxTTL = 1`, `NegTTL = 2` | a negative entry lives longer than `MaxTTL` | builder.go:79-80 |
| `AckDeadlineIsClamped` | `PullBus` | a duration whose seconds overflow the 32 bits gets a wrapped deadline, within the valid range and not the nearest | gcppubsub/pubsub.go:152-153 |
| `NotFoundIsEarned` | `NimbusFill`, `Faults = {}`, `MaxRev = 0` | the winner of a lost race expires before it is re-read: ErrNotFound for a row that exists | errors.go:10-12 |
| `WinnerIsServable` | `NimbusFill`, `Faults = {}`, `MaxRev = 0`, `StaleWindow = 0`, `TTLFloor` and `TombstoneTTL` 3 | the winner of a lost race is served although it is expired | store/entry.go:32 |
| `EveryCloseWaits` | `Background` | a Close that finds another one waiting returns at once | refresh/background.go:96 |
| `CloseStopsPending` | `Background` | queued revalidations run after Close was called | refresh/refresh.go:27 |
| `WithinCapacity` | `MemoryLRU`, `Capacity = 1` | the rounded-up shares of the shards exceed the capacity | store/memory/options.go:21 |
| `LenIsLive` | `MemoryLRU` | `Len` counts expired entries | store/store.go:71 |
| `SweepLeavesNothing` | `LocalCache` | an InvalidateTag that finds the tag taken by another returns while that one is still deleting | cache.go:58 |

`FillsAreCurrent` is what is left of `StaleFillsAreDiscarded`: the only fill that
overwrites something newer is one that took longer than L2 retained the write before
it (`Overstayed`). That is at least `TTLFloor`, one second, for a live entry, and
`TombstoneTTL` for a tombstone; `Build` refuses a tombstone TTL that does not
exceed the timeout of a revalidation; a fill led by a reader is bounded only by the
reader's context, as builder.go:156-158 says, and for live entries nothing is checked.

The effect of `stomp` is bounded. By `BoundedStaleness` the outdated entry is served
at most for its lifetime after it was superseded: the fresh TTL with its jitter, the
stale window and the skew, capped by `MaxTTL`, or the negative TTL. And
`ConvergedUpToLate` is what is left of `ConvergedWhenQuiet`: at rest an L1 is behind
a write only if it missed the broadcast or the entry was in hand, between L2 and
L1, when that very write took effect. These are the only two reasons.

## What is proved

`RedisStoreProofs`: type correctness, `VersionsIncrease`, `NoABA`,
`LiveEntriesExpire` and the refinement of `VersionedStore`, for every number of
keys, clients, `Span`, TTLs and histories. The inductive invariant ties the
hash to the end of the log, bounds every version by the seed of its
millisecond plus the mints in it, ties what a client holds to the log, and says that
the last write is there until its retention is over.

`NimbusProofs` (the inductive invariant, and one lemma per action that says that it
is kept): for every set of instances, keys and writers, every TTL, retention,
skew and fault, and whichever L1s offer `SetIfNewer`,

- `TypeCorrect`, `MintedEntries` (`EntryIsMinted`), `FillCurrency`
  (`FillsAreCurrent`), `EvictionSoundness` (`EvictionSticks`), `StalenessBound`
  (`BoundedStaleness`), `Delivery`, `Convergence` (`ConvergedUpToLate`).

The argument has two layers. The inductive invariant `IInv` adds to the type
invariant and `EntryIsMinted`: the log's versions are consecutive and its times and
revisions are in the past; an operation that holds an entry holds one from the log;
an operation that holds a version read it from the log, all that was written since is
younger than that read, and its loader's answer is at least as recent as all that was
written before; events stand for accepted writes. A fill that L2 accepts has then
either read the last write, or found it gone after its retention.

The second layer is about delivery. A write is `Covered` at an instance if nothing
older than it is in L1 or in hand there, except what `late` spares. Every step
keeps a covered write covered (`Covers`): an older entry could only come from L2,
which has the newer one by then. Relative to `IInv` and `Covers`, `DInv` is
inductive: what an instance has seen, broadcasts or finds on the bus as its own is
covered there; and every Set and Invalidate in the log is, for every instance,
covered, missed, on the bus to it, or in the hands of a writer who has still to
broadcast it (`SettledOK`). At rest the last two are impossible, which is
`ConvergedUpToLate`. Most steps deliver nothing (`Calm`); only `Publish`, `onEvent`
and `Restart` need an argument of their own.

`LocalProofs` has the theorems of two parts that live in one process:

- of `RequestBound`, type correctness, `TokensBalance`, `OneRunPerKey`,
  `CloseIsFinal`, `NoAddDuringWait` and the refinement of `Refresher`, for every cap
  and any finite set of goroutines. The invariant adds that a key is marked exactly
  while one goroutine is to unmark it, that the WaitGroup counts the goroutines,
  and that a Close past its first step has set `closed`;
- of `LocalCache`, type correctness, `TaggedIsReachable`, `SweepIsComplete` and
  `FlightsAreLed`, for any keys and callers, thus for any number of concurrent
  sweeps. The properties are inductive together, given that a call in flight has
  a key: a sweep takes the index as a whole, so what it owes is either on its
  list or was on another's before.

`BackgroundProofs`: type correctness, `MarkedIsOneJob`, `CloseDrains` and the
refinement of `Refresher`, for every queue and any finite pool. The invariant adds
that no key is in two places (two slots of the queue, two workers, or both), that
the WaitGroup counts the workers, and that a worker leaves only a closed and
empty queue. A worker that receives moves its key from the queue to itself, so
the count of marks is kept.

`PullBusProofs`: type correctness, `MapMatchesRing`, `NothingForgotten`,
`AckDeadlineIsValid` and the refinement of `RecentIDs` by the Dedupe inside
`PullBus`, for every capacity and any number of callbacks. The ring's invariant
adds that slots fill in order and hold different IDs, so that the count of the map
is that of the slots. For `NothingForgotten` it adds that an ID that Seen knows and
whose event is still owed is with a callback that is about to evict: a redelivery
that Seen answers may be acknowledged, because the first delivery is past the
point of no return. `AckDeadline` needs no invariant: it is a fact about
`clampAckSeconds` for every duration, under the assumption that the largest
deadline itself fits both integers with a second to spare. The clamp comes after
both conversions, so that whatever they wrap to ends up in the range; and for a
duration whose seconds fit the narrow integer neither wraps, so that it is rounded up
to whole seconds and clamped at the nearer end.

`LifecycleProofs`: type correctness, `CloseIsComplete` and `InertAfterClose`, for
any number of callers, closers and push requests and every transport. The
invariant `LifeInv` says that one caller at most is in the body of `Close`, what
has stopped at each of its steps, and when the channel is on the bus.

`MemoryLRUProofs`: type correctness, `ListMatchesMap`, `WithinShare`, `NearCapacity` and the
refinement of `LRU`, for every set of keys and hash, every capacity and every
number of shards asked for. The argument has three layers:

- `roundUpPow2` and the shares: there is a power of two in `n..(2 * n - 1)` (`NextPow2`),
  so that there is at least one shard, every hash has one, and a share is a
  natural number;
- the list: what `unlinkLocked`, `pushFrontLocked` and `moveToFrontLocked` make of a
  list that is in the order of a relation (`UnlinkLists`, `PushLists`,
  `MoveToFront`), and that they leave the nodes of other lists alone
  (`SameLinks`), since the shards share `prev` and `next`;
- the steps: the inductive invariant `LRUInv` adds to the properties that `older` is
  a strict order of the keys stored in a shard and that a shard is finite. The tail
  of a full list is then the only key that no other was used before, which is
  what `LRU` evicts.

`CapacityIsKept` is what remains of `WithinCapacity` (below *Disagreements*): the
store holds less than `Capacity + ShardCount` entries (`NearCapacity`). The shares
are added up shard by shard.

`TagIndexProofs`: type correctness, `TagIsSwept` and `TaggedCopiesGone`, for any
number of keys, writers, instances, readers, callers, pages and failures, however the
calls overlap. The invariants are

- `TypeInv`: which fields of a call are in use where it is;
- `IDInv`: an ID of an event is used once, so that no instance takes an event for one
  it has seen;
- `SweepInv`: what is due to a call is a member, no call has tombstoned it and not
  yet removed it, and it is ahead of the call's sweep (owed by the scan, on
  the page or in the batch) unless the sweep has failed. The middle part is what lets
  sweeps overlap: the `SREM` of one call removes only what it has tombstoned, so it
  never takes a key that another still has to reach;
- `DeadInv`: a dead copy, in L1 or in hand, is of a key that is still a member, or
  that some call is about to remove, evict and broadcast, or an event that evicts it
  is on its way to that instance.

The assumptions on constants are the named ones of the modules: capacities and
caps are positive, pools are finite, names for "none" are not values. The
refinement theorems are about safety; the contracts have no fairness.

There is no induction over data in the provers at hand. Where a fact about all
numbers was needed (`NextPow2`, and the sum of the shares in `SharesAddUp`), it is
proved from the least number that would violate it (`LeastNumber`).

## Only model-checked

- Liveness, which is out of the prover's reach: `KeysAreFreed` and `CloseReturns` of
  both refreshers, `CloseReturns` and `EventsAreApplied` of `Lifecycle`.
- The disagreements above.
- That the loop of `roundUpPow2` computes its definition, for `n` up to 70.

## Not modelled

- The OIDC check of the push handler (`push_oidc.go`): what a valid token is
  belongs to a library; a refused request changes nothing.
- `ensureTopic` and the other set-up calls of the GCP client: they run before
  there is a cache.
- The JSON codec and the formats of events: an undecodable value is an L2 error
  in `Nimbus`, an undecodable event a `poison` message in `Lifecycle` and one of
  `Other` in `PullBus`.
- Metrics and `Stats`: counters that no decision reads.
- The options of the builder, except the check of the tombstone TTL.
- Examples, demo and benchmarks.
- That Pub/Sub delivers at all: `PullBus` says what cannot happen, not that an
  event arrives. A lost event is bounded by `BoundedStaleness` alone.
- The expiry of tag sets in Redis, and more than one tag: tags share no state
  except the entries that carry them.
