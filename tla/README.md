# rsdis: a TLA+ development

rsdis is a Redis-compatible server in Rust. The keyspace is cut into shards, each behind
one mutex; a command computes the shards of its keys, locks them in ascending order, runs
its handler, and releases them. Background tasks expire and evict keys. This directory
models the parts of that design in which something can go wrong that a unit test hardly
reaches, checks them with TLC on small instances, and proves the central ones with TLAPS
for every size.

Every operator that models code keeps the name of the function it stands for where TLA+
allows it; `PROJECT.json` maps each one to its source lines.

## 1. The system

| part | state | operations | interacts with |
|---|---|---|---|
| shard map (`shard/mod.rs`) | one mutex, one `Shard` and four lock-free mirrors per shard | `lock_set`, `lock_all`, `db_size`, `release`, `sync_stats` | everything that touches keys |
| dispatch (`engine.rs`) | none of its own | lookup, OOM gate, clock, lock, run, propagate, release, reply | connections call it; it calls handlers |
| database slice (`Db`) | `dict`, `expires`, `watch`, `watch_seq` | `set_entry`, `remove_entry`, `set_expire`, `clear`, `signal_watch`, `watch_key`, `unwatch_key` | owned by a shard |
| command context (`ctx.rs`) | dirty count, propagation mode and buffer of one command | `lookup_read/write` with lazy expiry, `insert`, `remove`, `set_expire`, `signal_modified`, `propagate` | handlers work through it |
| handlers (`command/*.rs`) | none | SET, MSET, DEL, EXPIRE family, PERSIST, RENAME(NX), COPY, MOVE, RESTORE, SORT, SCAN, FLUSHDB, FLUSHALL, reads | context, and SCAN and INFO also the shard map |
| active expiry (`shard/expire.rs`) | cursor over databases | `cycle_shard`, `sample_round` | locks one shard at a time |
| eviction (`shard/evict.rs`) | estimate per shard (`ShardHandle.mem`) | `refresh_all`, `evict_cycle`, `evict_batch`, `check_oom` | locks one shard at a time; the gate reads atomics |
| propagation | one buffer per shard | `Shard::propagate`, `drain_propagation` | fed by dispatch, lazy expiry and the tasks; the AOF aggregator and loader are placeholders |
| connections (`net/conn.rs`, `net/listener.rs`) | read buffer, out-of-band channel, the task's position | accept, admit, register, read, execute a batch, flush, receive a frame or a kill, leave, `shutdown` | dispatch, both registries |
| client registries (`ctx.rs`, `net/registry.rs`) | the handles of live connections; what each shows of itself | insert, remove, register, unregister, snapshot, `publish`, kill | connections, CLIENT LIST and KILL, shutdown |
| connection commands (`command/connection.rs`) | `ClientState`: database, protocol, name, authentication, flags | PING, ECHO, SELECT, QUIT, AUTH, HELLO, RESET, CLIENT | dispatch, registry, configuration |
| output buffer (`net/output.rs`) | staging buffer, queue of frames, offset into its head, soft-limit clock | `seal`, `push_bytes`, `flush`, `advance`, `check_limit`, `discard` | the connection's flush |
| request parser (`resp/parser.rs`) | state with offsets into the read buffer, argument ranges | `parse` | the batch loop |
| configuration (`config.rs`) | one immutable `Config` behind an atomic pointer | `apply`, `load_str`, `apply_overrides`, `validate`, `load`, `update` | every command reads it; CONFIG SET replaces it |
| encodings (`encoding/*.rs`) | bytes of an intset or listpack, nodes of a quicklist, arenas of a skiplist or radix tree | their insertions, removals, searches and iterators | value types |
| replies, notifications, value types, utilities | see `PROJECT.json` | | |

What is hard here: several shard locks held at once, next to tasks and handlers that lock on
their own; a clock that is read before the locks are taken; two maps (keyspace and TTL
index) that must agree on every path; three dirty counters kept by hand; a stream of
commands that must replay to the same keyspace although it is collected per shard; an
estimate of memory that only a task refreshes while a gate decides by it; a SCAN cursor that
must survive changes of the table under it; connections that are admitted, killed and shut
down while they are in the middle of something; replies dropped by position; a parser that
resumes in the middle of a frame; and data structures whose redundant parts (back lengths,
spans, counts, free lists) every operation must keep in step. `PROJECT.json` lists these
hazards by source line, with the properties aimed at each.

## 2. Modules

| module | stands for | run by |
|---|---|---|
| `ShardLocks` | the shard mutexes: commands, visitors, tasks, mirrors | `MCShardLocks` |
| `ShardLocksProofs` | its theorems | |
| `Keyspace` | databases, context, handlers, dispatch's propagate block, expiry, eviction batches | `MCKeyspace` |
| `KeyspaceProofs` | its theorems, and those of `Watch` and `Propagation` | |
| `Propagation` | `Keyspace` with the aggregator and a loader | `MCPropagation` |
| `Watch` | `Keyspace` with clients that WATCH | `MCWatch` |
| `Evict` | the memory estimate, the OOM gate and the eviction cycle | `MCEvict` |
| `CommandProofs` | its theorems, and those of `Session` | |
| `Scan` | the SCAN cursor against writers | `MCParts` (with `MCScan`) |
| `ScanProofs` | its theorems, the refinement of `Sweep` among them | |
| `Sweep`, `SweepProofs` | the abstract specification `Scan` implements, and its theorems | through `Scan` |
| `Conn` | connections from accept to their end, both registries, kills, shutdown | `MCConn` |
| `PartsProofs` | its theorems, and those of `OutputBuffer`, `IntSet`, `Config` and `RespParser` | |
| `Session` | one client's commands, its state, and the replies they earn | `MCParts` (with `MCSession`); `MCSession` |
| `RespParser` | the resumable request parser | `MCParts` (with `MCParser`) |
| `OutputBuffer` | staging, queue, partial writes, the output limit | `MCParts` |
| `Config` | directives, startup, CONFIG SET and its readers | `MCParts` (with `MCConfig`) |
| `IntSet`, `ListPack`, `QuickList`, `SkipList`, `Rax` | the encodings | `MCParts` (with `MCListPack`) |
| `QuickListProofs` | the theorems of `QuickList` | |
| `StrNum` | integers as text, used by `ListPack` and `RespParser` | with these |
| `Option` | the value `Nil` for Rust's `None`, and the library of sequences by name | with these |
| `DataLemmas` | induction and recursion over the naturals, and sequences cut and flattened, for the proofs | |

### ShardLocks

One action per mutex operation. A client thread goes `idle -> lock -> run -> release ->
idle`: `Dispatch` computes the sorted set of shards (`ShardSetFor`, `Finish`), `LockNext`
takes one mutex, `StartHandler` and `Modify` are the handler, `PublishStats` and
`DropGuard` are one turn of `ShardGuards::release`, `Return` is the rest of dispatch.
Handlers without keys (SCAN, INFO) and the tasks visit shards one by one (`VisitLock`,
`SweepRemove`, `VisitUnlock`). A shard is reduced to its `dirty` counter and the mirror
of it.

### Keyspace

ShardLocks justifies that the locked part of a command is one step; what remains
concurrent is the clock, read before the locks (`ReadClock`, then `Execute` at any later
time). A handler is an operator on a record `x`, which holds what a `Ctx` gives access to;
each method of `Db` and of `Ctx` is an operator on that record, so that handlers read like
the Rust. `SampleRound` is one round of active expiry on one slice and `EvictBatch` one
batch of eviction; which keys a random window holds is left open. A value is a model
value, a time a small number. `DirtyWrap` keeps the unbounded dirty counters modulo a
number far above what one step adds; since no step depends on them, the run's VIEW does
not tell states apart by them. Time only moves forward, although `Clock::refresh` reads the
system's wall clock, which an administrator may set back.

### Propagation, Watch

Both extend `Keyspace`. The aggregator, the loader, WATCH and EXEC are placeholders in
the repository; their models follow the interface they are given (`drain_propagation`,
`watch_key`, `watch_version`, `unwatch_key`) and the comments on it, and are marked
external. The loader runs the same handlers with a clock before every deadline, as
Redis's loader does not expire keys. `Replay` is what it makes of a stream, a recursion
over the length. `ReplaySafe` says which commands the stream can carry at all, given what
the code propagates: none that spans shards (its argv goes to the buffer of the first
key's shard only), no FLUSH, and RENAMENX, COPY without REPLACE and MOVE only onto slots
that no command gives a deadline. It is the hypothesis of the theorem; `MCPropagation`
assumes, and TLC evaluates, that among the instances of the three runs it holds of exactly
the one that passes.

### Evict

A shard is how many keys with and without TTL it holds. A step of the task is one lock
acquisition or one update of an atomic: the estimate is published after the lock is given
up, so clients act in between. Slices are within `ESTIMATE_SAMPLE`, where an estimate is
exact when it is taken; larger slices only add an error to it.

`used_memory` and `volatile_keys` take no snapshot: they load the atomics of the shards one
after the other. A client's `check_oom` is therefore one step per load (`LoadMem`,
`LoadExpires`), with stores of the task and writes of others in between, and a sum may mix
estimates that were never there together. The task's own `volatile_keys` is one step per load
too (`Count`); its `used_memory` is one step, because nobody else stores estimates. The loads
are relaxed in the code; the model takes them in the order of the loop.

### Scan and Sweep

`Scan` has the cursor (`shard | intra << shard_bits`), the virtual buckets, the
reverse-binary increment on words of `MaxBits` bits, expired keys that still count for the
size of the table, and one turn of the loop of `cmd_scan` per step, with writers between
turns. `Sweep` says what that is for: keys have fixed places on a line, and an iteration
walks the line in blocks without a gap. `ScanSweeps` is the refinement: the place of a key
is its shard and the reversed bits of its hash, the position of the walker the same
function of the cursor.

### Conn

One task per connection, at the grain of what other threads can see: the admission check,
the insertion into each registry, one turn of the loop, one command, the flush, and the two
removals. `InFlight` is what a worker thread has between the check and the insertion: no
await lies between them, so there are at most `Workers` such connections, which is why the
overshoot is bounded at all. The select is biased as in the code: a message goes before
input. `shutdown` is four steps (flag, snapshot, one Kill per handle, abort), and the end of
the process drops every task where it stands. What a command does is reduced to whether it
replies, closes, or kills another connection. `maxclients` is constant here. A second Kill is
not sent by CLIENT KILL while one waits in the channel (`KillWaits`): it would be dropped with
the channel.

### Session

The commands of `connection.rs` with the parts of dispatch and of `execute_batch` that decide
which reply is written, in which protocol, and whether it is dropped again. Replies are kinds
(`<<"PONG">>`, `<<"error">>`, `<<"info", ...>>`), numbered by the request that earned them.
`SessionOthers` changes `requirepass` and lets killed clients go. What a request is owed is
stated over the history of requests alone (`AuthedBefore`, `IsOff`, `IsSkipped`,
`ProtoAfter`, ...), without the flags the code keeps.

### RespParser, OutputBuffer, Config

`RespParser` has the parser's states with their offsets; `ParserRead` appends any number of
bytes and then parses until nothing complete is left, as the batch loop does. The reference,
`OneShot`, says what a buffer stands for that was never parsed before, without any state to
resume from; `Meaning` chains it over the frames of a stream. What each stream of the run
should give is written out by hand, and `StreamsAssumption` has TLC compare that with
`Meaning`. `OutputBuffer` numbers the bytes a
connection produces, so that order, loss and repetition show; a write takes any part of what
it is offered. In `Config` one directive stands for each kind of value; a CONFIG SET is one
step per directive on its own copy and one step that stores it, so that two of them and
readers interleave in every way.

### The encodings

Each is a sequential structure with its abstract value beside it (a set, a list, a map from
members to scores, a map): every operation of the code works on the structure, its abstract
counterpart on the abstract value, and the invariants compare the two through every search
and iterator the code offers. `ListPack` works on the bytes themselves; `QuickList` takes a
node's listpack as the list it holds, which is what `ListpackHoldsTheList` allows.
`SkipList` and `Rax` keep the arenas, with freed slots used again.

`MCParts` explores all of these, and `Scan`, in one run: they share no state, so a behaviour
works on one part and leaves the others at their start.

## 3. What the runs show

| run | result | states |
|---|---|---|
| `locks` | mutual exclusion, invariant (I) of `engine.rs`, no deadlock, no leaked lock, exact and monotone mirrors; every command and sweep ends | 107 248 |
| `keyspace` | TTL index in step with the keyspace; reads and expiry remove only dead keys; a change of a shard moves its dirty counter (all commands but FLUSHDB); eviction under a volatile policy takes no key without a deadline | 70 695 |
| `propagation` | the stream of one shard rebuilds the keyspace, with lazy and active expiry, eviction and targets in another database | 226 882 |
| `propagation_cross`, `propagation_flush` | **violated**: MSET over two shards, FLUSHALL | |
| `watch` | every change of a watched key is seen; reads of live keys abort nobody | 382 527 |
| `watch_shared` | **violated**: `unwatch_key` drops the registration of the other watchers | |
| `evict` | the estimate is exact between rounds, at most one late write per client among those whose check overlapped at most one store of the task, memory comes back under an allkeys policy, the gate reopens | 502 718 |
| `evict_starved` | **violated**: under a volatile policy the fattest shard is tried again and again | |
| `session_muted` | **violated**: after CLIENT REPLY OFF, QUIT is answered | |
| `conn` | at most `Workers - 1` clients too many; a connection that ends flushed what it owed, unless a write failed or a limit was passed; whoever is killed, or alive at shutdown, ends | 342 747 |
| `parts` | the encodings hold their abstract values, exactly and with nothing leaked; the parser gives the same commands at every split; bytes leave in order; replies are what the history of requests promises; readers see whole, valid configurations; SCAN is complete, ends, and implements `Sweep` | 201 466 |

The violated runs state what a comment or document of the repository says; the findings in
`PROJECT.json` quote it and describe the behaviour TLC finds. `LastOnly = TRUE` in `watch`
means that the future UNWATCH calls `unwatch_key` only for the last watcher of a key.

More disagreements met while modelling have no run of their own. The passing runs
leave them out where they would break a property:

- `engine.rs:25-27` says that handlers cannot lock a shard themselves. SCAN and INFO do,
  through the shard map; `ShardLocks` models them as visitors, which hold nothing else
  while they lock, and the lock order is safe with them.
- FLUSHDB clears the slices of a database without moving `Shard.dirty`, although every
  other write moves it. `DirtyCounts` exempts steps in which FLUSHDB runs (`Flushing`).
- RENAMENX, and COPY without REPLACE or MOVE, onto a target that has expired but is still
  present runs as if the target were absent, and is propagated verbatim without a DEL of
  the target (`generic.rs:123`). A loader that does not expire keys finds the target there
  and does nothing. In the instance of `propagation`, no such command has a target that
  can have a deadline.
- `listener.rs:51-53` promises that every connection flushes what it has staged at
  shutdown, and `listener.rs:70` that `main` waits for them (`shutdown_graceful`). `main`
  calls `shutdown` and returns, which drops the runtime and every task with it;
  `OwedRepliesSent` exempts tasks dropped by the end of the process.
- Two CONFIG SETs at once: the one that stores last wins with the copy it made, and the other
  one's directives are lost although both were answered OK (`config.rs:646`).
  `ReadersSeeWholeChanges` is stated so that each stored configuration is one request on
  *some* earlier one.
- `config.rs:431` says that a CONFIG SET of `save` replaces the points. CONFIG SET passes one
  argument, so it can only clear them; anything else is an error.
- CLIENT REPLY OFF or SKIP does not silence a command that closes the connection (QUIT, a kill
  of oneself): the close path returns before the reply is dropped. `session_muted` shows it.
  `RepliesAsPromised` leaves open whether such a command is answered.
- The soft output limit: the comment of `check_limit` says that it fires when the limit was
  "continuously exceeded" (`output.rs:316-319`). A flush that drains the buffer does not stop
  the clock, only a later check that finds the backlog within the limit does (`output.rs:320`):
  a push over the limit, a full drain, a pause, and another push drop the client. The model does
  that as the code does; no property speaks of the soft limit. What waits in the
  unbounded out-of-band channel is not counted at all, although the header of `conn.rs`
  speaks of a bound on a slow subscriber.
- A kill waits for a flush in progress, that is, for the peer to read. `AskedToCloseCloses`
  assumes that it reads or the write fails.
- The limit on a header line is checked only when the line is incomplete, so whether an
  overlong header is refused depends on how the reads fall (`parser.rs:226`, `271`). The `Long`
  streams of the run pass it, and `Meaning` admits both outcomes for them.
- `Node::allows_merge` of the quicklist subtracts 11 bytes for the header and terminator it
  saves, where 7 are saved: a merged node may exceed its size limit by four bytes.
  `QuicklistRespectsFill` is about the limit on the number of elements and says nothing of
  bytes.
- `Listpack::clear` keeps the count in the header (`listpack.rs:654`). Nothing in the server
  calls it; it is not an action of the model.

### Bounds

- Locks: four shards, keys on three of them, two of which share one; two threads and a
  task, and commands of every locking shape that overlap in reversed order. `MaxDirty = 1`
  is one modification per shard, enough for a stale mirror. Longer cycles of waiting
  actors are covered by the proof, which is for any number of actors and shards.
- Keyspace: two keys on two shards, so that every two-key command meets every combination
  of present, absent, live and expired; three times, so that a command can run with a
  clock that is older than a deadline another command has passed; two databases.
- Propagation: three keys on one shard and two times, so that a deadline can pass between
  a command's clock and its turn. `MaxBuf` bounds a propagation buffer, and the aggregator
  drains one buffer at a time: the shortest reordering, in `propagation_cross`, needs two
  buffers with one command each.
- Watch: `MaxSeq` bounds the counter of a database; a counter that repeats would do so
  after one unwatch and one watch.
- Evict: two shards, a limit of one, costs of one and two, up to four writes: enough for a
  check to overlap stores of both shards, to go over the limit, be refused, delete and go over
  again. Three rounds of a cycle (`MaxRounds`) are one more than there are shards, so that a
  cycle gives up either way. `MaxKeys` bounds the keys of a shard. The policy is chosen once,
  among the three families.
- Scan: up to two bits of buckets, so that the table grows and shrinks by both steps within
  one iteration, and two shards.
- Conn: three connections against `maxclients` 1 and two workers, so that the limit is passed
  by one and a third is refused; two of them send commands (`Talkers`) and can kill each other,
  and one of these is pushed frames (`Pushed`), of which one may wait in its channel
  (`MaxOob`; Kills come on top). So a kill finds its target idle, in a batch of its own, in a
  flush, behind a frame, leaving or not yet registered, with and without a shutdown.
- Session: up to three commands in a batch or over several, of a choice that has every
  command, subcommand and failure first and the ones that interact (REPLY, HELLO, AUTH,
  RESET, KILL) after it; `requirepass` changes once.
- Parser: streams of complete, half and malformed frames, multibulk and inline, at every
  split; the limits are scaled down (`INLINE_MAX_SIZE` 20, three bulks, four bytes) so that
  each is met from both sides.
- OutputBuffer: five bytes, a hard limit of three and a soft one of one, three ticks against
  a soft period of two.
- Config: two writers, each request of up to two directives, of which one may fail; one store
  before the last (`CfgMaxStores`), so that a stale copy is stored over a newer one.
- IntSet: cells of 3, 4 and 5 bits in place of 16, 32 and 64 (`ISHalf`, half of a width's
  range, is 4, 8 and 16), and the values at each border.
- ListPack: buffers that start empty or with one element and grow to three; strings on both
  sides of each encoding's border, integers of every width; back lengths of one and two
  bytes; the count in the header gives up at three (`LPUnknown`) in place of 65535.
- QuickList: five elements, a fill of three elements and one of 25 bytes, an element too
  large to share a node. SkipList: three members, two scores, three levels. Rax: five keys
  that are prefixes of each other or part in the middle of a label, and probes between them;
  a single value, so that an exchange of two keys' values would not show.

### Fairness

- `locks`: every thread and task that can take a step does so (the operating system
  and the tokio workers schedule them), and a mutex that is free again and again is taken
  in the end (strong fairness of the lock steps: parking_lot hands a mutex over after at
  most half a millisecond of barging). No fairness for clients sending commands or tasks
  waking up.
- `evict`: the task's interval ticks for ever and its steps do not block for ever, which
  is what `locks` shows. `Leave` also stands for the time budget; strong fairness of
  `Pick` says that the budget (ten milliseconds from the head of the loop) is not always
  over before the first round.
- `parts`, for SCAN only: a call that runs goes on, and the client goes on asking with the
  cursor it was given. Nothing is assumed of the writers.
- `conn`: a task that can go on is polled again (tokio wakes it); for a flush this says that
  the peer reads or the write fails; a batch ends, because the read buffer is finite; the
  thread in `shutdown` finishes. Nobody has to connect, send, hang up or shut down.

## 4. What is proved

For every value of the constants that satisfies the named assumptions:

- `ShardLocksProofs`: type correctness, mutual exclusion, invariant (I), absence of
  deadlock, no leaked locks, exact and monotone mirrors. Assumption: `ShardOf` maps keys
  to shards, commands name keys, visitors name shards. The inductive invariant has four
  parts: types; `ShapeInv`, which says for every phase of an actor what its set and its
  position are (sorted without duplicates, because `Finish` sorts; a visitor holds nothing
  else); `OwnerInv`, which identifies the owner of a mutex with the actor that has it in
  its hands; and `MirrorInv`, which says how far behind a mirror may be in each phase. None
  of the four safety properties is inductive alone: mutual exclusion needs the owner to be
  determined by the phase, and (I) needs the set to be sorted. Deadlock freedom follows
  from (I) by taking, in a finite set of blocked actors, the one that waits for the
  largest shard (`LargestShard`): its owner is in the set and waits for a larger one.
- `KeyspaceProofs`: type correctness, `IndexInSync` and `OnlyDeadKeysReaped`, with any
  number of databases, keys, shards, actors and commands. Each operator on the record has
  a lemma that it keeps a well-typed record well-typed and in sync; the handlers compose
  them. `OnlyDeadKeysReaped` needs `AtInv`, that the clock an actor has read is not ahead
  of the clock, and `IndexInSync`, because active expiry decides by the index and not by
  the entry. `PlainKeysSurvive` needs it for the same reason: under a volatile policy a batch
  draws its candidates from the TTL index, and only agreement with the keyspace makes these
  keys with a deadline.
  Its second part is about what a change leaves behind. For every method of `Db` and `Ctx`
  and every handler a lemma says which entries it may change, which watched slots it
  signals and on which shards it counts (`Acts`). From these follow `DirtyCounts`,
  `WatchDetects` and `ReadsNeverAbort`. `DirtyCounts` assumes that a counter does not come
  round within one step (`Wide`: the counters are `u64`). `WatchDetects` assumes
  `LastOnly`, the reading under which UNWATCH is right; `watch_shared` shows that without
  it the property fails. Its invariant adds that the registration of a watched slot is
  there, that its counter is not behind the version a client was given, and that it is
  ahead of it once the entry has changed (`SeenInv`), and that counters in use are not
  ahead of the database's (`OrderedNow`): otherwise a later WATCH could hand out a version
  twice.
  Its third part is about the stream: `ReplayRebuilds`, for any keys, databases, shards,
  actors and any order of draining, with propagation on and commands that satisfy
  `ReplaySafe`. That the drained stream rebuilds the keyspace is not inductive: the buffers
  are almost never all empty. The invariant `PInv` says of every shard that its buffer, as
  it stands, leads the replica to the shard's entries (`Covers`), and of the slots
  conditional commands write to that they carry no deadline (`Steady`). It holds because the
  effect of a replayed command, computed in closed form (`After`), reads and writes one
  shard only (`AfterLocal`), so shards can be drained in any order; and because a handler
  appends to the buffer exactly when it changed something, a command that leads to the same
  entries under the loader's clock (`Ends`), DELs of keys that expired under way first. The
  two violated runs show that the hypothesis on shards and on flushes cannot be dropped.
- `CommandProofs`: type correctness, `EstimateExact` and `OvershootBounded`, for any number
  of shards and clients, any limit, costs and batch. `EstimateExact` speaks of the time
  between rounds; the invariant (`FigureInv`) says what the published figure is at each of
  the task's steps, also while a figure that was sampled or freed is not yet published. The
  bound on late writes has to count the clients that have passed the gate and not written
  yet, and those still adding up whose check will pass with what it has read (`Passing`). A
  check that has seen no store will read the sum of the estimates as they are (`CheckInv`),
  and one store leaves it with the sum before or after it. So while the sum is over the
  limit nobody is added to `Passing`, and each late write takes one client out of it
  (`LateInv`). A check that overlaps two stores is outside the bound: its sum may be below
  the limit although no published sum was.
  Of the session: `RepliesAsPromised` (which leaves a close while muted open), for any
  requests, passwords, names, numbers of databases and other clients. The property speaks of
  the history and the replies; the invariant `SessInv` adds that the state and the flags of
  the client are what the history says they are (`SessMirrors`), until a command closes the
  connection, and keeps the replies flushed and staged as one sequence (`RepliesFit`). Each
  definition over the history is computed for one event more (`ProtoGrows`, `OffGrows`,
  `SilentGrows`, ...); each handler is compared with what its event does there (`Fits`),
  HELLO by induction on its options (`HelloOptionsUpTo`), and `dispatch` and `execute_batch`
  are put on top (`Answers`, `ExecuteKeeps`). The assumption `SessConstants` says that
  requests are texts, that the options of HELLO have the shape the code's syntax gives them,
  that the ids of connections are unique and that None is neither a text nor a number.
- `SweepProofs`: a walk that leaves no gap is complete (`SweepComplete`), whatever writers
  do. The invariant is that what lies behind the walker and has been there since the
  beginning has been returned.
- `ScanProofs`: `Scan` implements `Sweep` (`ScanImplementsSweep`), for any number of bits,
  shards and keys, and hence SCAN is complete (`ScanIsComplete`, through `SweepComplete`);
  and every turn of the loop moves the place of the cursor forward, however the table was
  resized since the last one, or ends the iteration (`ScanVisitsAdvance`).
  The core is arithmetic on words: `Reversed` turns a word around, the masked reverse-binary
  increment of the code adds one to the reversed high bits, and the keys of a bucket are
  exactly those whose reversed hash lies in the block between two cursors, whatever the
  size of the table at that turn.
- `PartsProofs`: type correctness, `AdmissionOvershoot` and `OwedRepliesSent`, for any number
  of connections, worker threads and accept loops, any limit (0 too) and channels of any
  length. The bound on clients alone is not inductive, because the insertion looks at
  nothing: `PlacesInv` counts the connections between check and insertion too, of which
  there are at most as many as worker threads. `OwedRepliesSent` follows from `StagedInv`:
  replies wait only within a batch and its flush, unless a write failed. Of the output
  buffer: `BytesInOrder`, for any limits, number of bytes and
  number of frames in one write. `OutInv` says that the queue from its offset on, followed
  by the staging buffer, is what is owed, and that the counter of queued bytes is the length
  of the queue; the flattening of a queue of frames is taken apart by induction on it.
  Of the integer set: `IntsetHoldsTheSet`, for any three widths in order and any integers
  that fit the widest (`IntsetConstants`; the callers' integers are `i64`). The invariant is
  `Holds`: the cells ascend, fit the width in the header and are the members of the set. An
  upgrade keeps it because a value that does not fit the width lies beyond every value that
  does, on the side of its sign; insertion and removal are both `Spliced`, one sequence being
  the other with one cell more. Binary search is right by induction on its window (`Around`).
  Of the configuration: `ReadersSeeWholeChanges`, for any files, command lines, requests and
  number of writers. The property speaks of stored configurations only; the invariant adds
  that the clone of a writer under way is some stored configuration with the first directives
  of its request applied (`Under`, `UpTo`), which is true of every later store too, so it
  survives the stores of others. Startup is an induction over the lines of the file and of
  the command line (`AfterLines`). The only assumption is that lines and requests are
  sequences of pairs (`CfgConstants`).
  Of the parser: `ParseIgnoresReadBoundaries`, for any streams of bytes, any split into reads
  and any limits. The property speaks of what has been returned; the invariant `ParserInv`
  says where the parser is: the read buffer is the stream from the start of the frame to what
  has arrived; the offsets, ranges and scanned counts of the state are true of the buffer, and
  stay true when it grows (`Resumes`, `LineGrows`); a parser that waits for bytes is one whose
  whole buffer `OneShot` calls unfinished; and what was returned so far, followed by anything
  the rest of the stream may stand for, is something the stream stands for (`Leads`). A step
  from a recorded offset is then the step `OneShot` takes from the start of the frame. The
  only assumption is `StreamsAssumption`, that streams are bytes and are expected to give
  their `Meaning`; how an inline line is split into words plays no part.
- `QuickListProofs`: `QuicklistHoldsTheList` and `QuicklistRespectsFill`, for any elements and
  element sizes, any size limits, fills and lengths of the list. The property speaks of
  answers; the invariant `Holds` says that the nodes, none of them empty and the plain ones of
  one element, hold the list one after the other, and that the cached count is its length.
  Every operation is shown to be a step `Becomes`: the result holds the new list, and every
  node of it is within the fill or no fuller than some node was before. The operations that
  work in the middle take the nodes apart around the place `locate` finds, whichever end it
  walks from (`LocateFinds`, `PlaceSplits`), and put them together again (`TwoRuns`,
  `ThreeRuns`); merging changes no element (`TryMergeHolds`). The loops of `delete_range` and
  `remove_value` are inductions over their turns (`DeleteFromHolds`, `RemoveTurns`). The
  assumption `QuicklistConstants` says that fills are integers and that None is neither an
  integer nor a place. As in the runs, LREM is taken with counts -1, 0 and 1.

The provers have no induction of their own. `DataLemmas` gets it from the library's
well-foundedness of the naturals: every nonempty set of numbers has a least element
(`LeastNumber`), hence induction with the statement given as a set (`Induction`), the
existence of functions defined by recursion on a number (`Recursion`) and of those whose
argument gets smaller by some measure (`MeasuredRecursion`). What `TwoTo`, `Reversed`,
`FlattenSeq`, `Replay`, `isProbe` and the loops of the quicklist compute is proved with it.
It also holds what the proofs share about cutting sequences and flattening sequences of them.

Only model-checked:

- liveness (`CommandsComplete`, `AllkeysComesBack`, `GateReopens`, `ScanEnds`,
  `AskedToCloseCloses`), which is out of the prover's reach;
- `SkipList` and `Rax`, which use RECURSIVE operators: the provers cannot be
  used on a module that reaches one;
- `ListPack`, whose lengths and offsets are computed from powers of two, which the provers
  do not evaluate.

## 5. What is not modelled

- Reply bytes, formatting and logging; the text of INFO and CLIENT LIST; statistics that only
  INFO reads; capacities of buffers and their shrinking; socket options.
- LRU and LFU stamps and scores (which of the allowed keys is evicted is left open); the
  schedule of active expiry (which database is next, its time budget).
- `shutdown_graceful`, which only tests call; `set_proto_max_bulk_len` in the middle of a
  stream; `include` and the splitting of lines in a configuration file.
- Pub/sub, blocking commands, MULTI, keyspace notifications, the slow log, RDB and AOF files,
  lists, hashes, sets, sorted sets and streams as value types: types and hooks without
  operations at this commit. Frames and unblocks in `Conn` come from the interface they will
  use.
- Checksums, compression, geohash, random numbers, floating point and glob patterns: byte
  arithmetic without state, which the repository tests against vectors. LZF compression of
  quicklist nodes is not used by the quicklist at this commit.

`PROJECT.json` lists every component with its status.

## 6. Plan

1. Theorems about the skiplist and the radix tree, which would have to be
   written with recursive functions first, and about the listpack.
2. When they exist in the source: value types over the encodings, MULTI and EXEC over
   `Watch`, blocking and pub/sub over `Conn`, the AOF writer and loader over `Propagation`.
3. The schedule of active expiry (fairness between databases).

## 7. Running

    tlc -workers 2 -config ShardLocks_all.cfg MCShardLocks
    tlapm ShardLocksProofs.tla

`PROJECT.json` gives the module and the configuration of every run.
