# no-db in TLA+

This directory holds TLA+ models of no-db, a transactional key-value store
written in Rust (`src/src/`): a B+tree over multi-versioned pages, a block cache
with undo chains, and a write-ahead log that makes commits durable. The models
are checked with TLC on small instances; the central facts of the log, the threads,
the page file, the LRU cache, the tree, the buffer pool and the engine are proved with TLAPS for
every value of their constants.

Paths below are relative to the repository unless they name a module.

| module | models | checked by |
|---|---|---|
| `WriteAheadLog` | `wal/wal.rs`, `wal/buffer.rs`, `wal/record.rs` | runs `wal_recovery`, `wal_flush`, `wal_answers`; proofs in `WriteAheadLogProofs`, `WriteAheadLogRecoveryProofs` |
| `BackgroundThread` | `thread/thread.rs`, `utils/channel.rs` | runs `thread`, `thread_empty`; proofs in `BackgroundThreadProofs` |
| `PageStore` | what `disk/finder.rs` promises | abstract side of run `finder` |
| `Finder` | `disk/finder.rs`, `utils/timer.rs` | run `finder`; proofs in `FinderProofs` |
| `LRU` | what `buffer/lru.rs` promises | abstract side of run `lru` |
| `LinkedCache` | `buffer/lru.rs`, `buffer/list.rs` | run `lru`; proofs in `LinkedCacheProofs` |
| `BufferPool` | `buffer/buffer_pool.rs`, `cache.rs`, `block.rs`, `undo.rs` | runs `pool`, `pool_layout`; proofs in `BufferPoolProofs` |
| `Tree` | `cursor/*.rs`, `disk/free.rs`, the bootstrap of `engine.rs` | runs `tree`, `tree_fresh`; proofs in `TreeProofs` |
| `Engine` | `engine.rs`: log, pool and allocator over crash, restart and drop | run `engine`; proofs in `EngineProofs` |
| `MC*` | the values of the constants for TLC | |

## 1. The system

```
Engine ──new_transaction──> Cursor ──get/insert──> BufferPool ──> CacheStorage (LRU)
                              │                        │   └────> RollbackStorage (undo ring)
                              └──append/commit──> WriteAheadLog
                                                   │ io thread ──commit_c──> BufferPool
                                                   └ checkpoint thread ──flush_c──> BufferPool
every file: Finder (write, read and flush threads) ; every thread: BackgroundThread
```

**Engine** (`engine.rs`). State: `available`. Opens the log, replays its
records into the buffer pool, creates the allocator and runs a first
transaction that initialises the tree; `new_transaction` hands out cursors;
`Drop` closes the components in turn. Hard: the order of shutdown, what is on
disk after each step of bootstrap. Correct when a reopened engine shows the
committed transactions.

**Write-ahead log** (`wal/`). State: `LogBuffer` (records per transaction, their
size, the last id) behind a mutex; the io thread's `current` entry, `cursor`,
`counter`; `last_index` behind an RwLock; a ring of 16 KiB pages; the
checkpoint thread. Operations: `new_transaction`, `append`, `commit`, replay at
`open`, `before_shutdown`. It calls `commit_c` of the buffer pool for each
commit and `flush_c` for each checkpoint. Hard: everything. Clients drain each
other's records, commits are announced before they are on disk, an entry may
be written several times, the ring wraps over records, a checkpoint crosses
transactions. Correct when an acknowledged commit survives, an unacknowledged
one survives whole or not at all, a snapshot covers the commits acknowledged
before it, and nobody waits for ever.

**Background threads** (`thread/thread.rs`). State: the optional join handle and
sender and the work, under one mutex; a channel; the worker. Operations:
`send`, `send_await`, `close`, `set_work`. Hard: laziness (a thread is spawned
by the first request, and again after a `close`), panics that poison a mutex.
Correct when requests run in order, each is answered or known to be lost, and
`close` drains.

**Page file** (`disk/finder.rs`). State: round-robin counters, per write thread
a channel and the `done` senders of a batch, a flush thread. Operations:
`read`, `write`, `fsync`, `len`, `close`. Hard: group commit by batch size and
timer, failed syncs, close with a batch pending, crashes. Correct when a write
that returned Ok is on disk after any crash.

**LRU cache** (`buffer/lru.rs`, `buffer/list.rs`). State: a hash table of raw
pointers and an intrusive doubly linked list. Sequential. Correct when it is a
map in least-recently-used order and neither leaks nor dangles.

**Buffer pool and block cache** (`buffer/buffer_pool.rs`, `buffer/cache.rs`,
`buffer/block.rs`). State: cached blocks with their writer, commit index and
undo index, the dirty and evicted sets, uncommitted pages by transaction.
Operations: `get` at a snapshot, `insert`, the flush and commit threads. Hard:
reads that race insertions, a flush that races commits, eviction. Correct when a
snapshot sees the newest version committed at or before it.

**Undo storage** (`buffer/undo.rs`). State: a cache of undo logs, a ring file,
a cursor. Operations: `append`, `get`, `commit`. Correct when the chain of a
page reaches every version an open snapshot needs.

**B+tree cursor** (`cursor/`). State: the transaction id, its snapshot, the
pages it reads through the buffer pool. Operations: `get`, `insert`, `delete`,
`commit`. Hard: splits that write several pages in turn, unlatched
interleavings, boundary keys. Correct when the tree is the map that the
insertions built.

**Page allocator** (`disk/free.rs`). State: `last_index` and an ever empty list
of free pages. Correct when no page is handed out twice.

**Not concurrent and not stateful**: page layout and serialisation, helpers,
logging, a bloom filter and a memory pool that nothing calls.

## 2. The write-ahead log

`WriteAheadLog` has one action per stretch of code between two places where
another thread can run: a mutex that is released, a channel operation, a disk
write.

| action | code |
|---|---|
| `Begin`, `Update`, `CommitDrain` | `LogBuffer::new_transaction`, `append`, `commit` under the buffer's mutex |
| `Check`, `Flush` | the test of `buffer.len()` and `buffer.flush()`, each under a lock of its own |
| `Send` ... `await` | `io_c.send_await` |
| `Snapshot` | the read of `last_index` that ends `new_transaction` |
| `Abandon` | a cursor dropped without a commit: there is no abort |
| `IoRecv`, `IoRecord`, `SwitchDone`, `SwitchFail`, `WriteDone`, `WriteFail` | the closure of `start_io`; a page switch in the middle of a batch is a disk write of its own, with `last_index` locked over it |
| `CkWake`, `CkNothing`, `CkDrain`, `CkFlushed`, `CkFailed` | `start_checkpoint`, around the flush of the pool: it takes the dirty pages, writes them, answers |
| `Restart` | a crash at any point, and `WriteAheadLog::open` with `replay` on any file the crash may leave |

State. `lastTx`, `logs`, `size` are the buffer; `pc`, `op`, `tx`, `hand` say where each
client is; `ioq` is the io thread's channel; `wal` is the file, a sequence of
records per page. A request carries the records of several transactions, sorted
by id as the `BTreeMap` gives them (`Batches`). The rest is history used by
properties: `commitAt` (index announced for a commit), `snapOf`, `writes`,
`asked` (inserts made when a commit was first asked for), `ackedNow`, `acked`,
`drained` and `covered` (inserts a flush took, and had taken when it succeeded), `exposed`, `forgotten`.

Abstractions. A page payload is the ordinal of the insert in its transaction. An
insert's size is 3 and a mark's 1 against an entry of 5: a real entry has room for three
inserts and a few marks. A page write is atomic and, once `Finder.write`
returned Ok, durable; while it is under way a crash may keep either
content, and one that failed may or may not be on disk. The buffer pool's flush
is external: it finds nothing, or takes what was inserted so far and either writes it and
answers some index up to a commit that was announced, or fails. After a failed commit the cursor stays open and its user may
retry, which the code allows.

The durability properties have two exceptions, both losses of the code. `exposed`
collects the transactions whose records it reorders, drops or overwrites, or whose pages
it forgets:

  * a commit overtaking records of its transaction that another client's
    `flush` holds but has not sent (`wal.rs:157` against `171`), or a flush doing the
    same: two inserts of one page then reach the log the wrong way round;
  * a failed page switch, which has already drained the entry (`wal.rs:120`);
  * a page of the ring that is written over while it holds records. This
    includes the first write after a restart, which goes to the page where
    replay decided to go on, and a batch with no record that writes an empty
    entry;
  * a flush that fails after it has taken the dirty marks (`buffer_pool.rs:55`,
    `cache.rs:105`): no mark follows, but a later flush leaves those pages out and its
    mark passes their records over.

`Straddling` is about marks. `replay` clears `started` at a mark (`wal.rs:231`), so of a
transaction whose Start is before the mark nothing comes back, its later inserts and
Commit included (219-222). What the flush of that mark took is in `data.db`; what was
inserted after it took the dirty pages is in neither place until a later flush, so a crash
before that loses an acknowledged commit in part or whole. Exactly the transactions with
such an insert are excepted, not all that began before a mark, and after the restart they
are `forgotten`.

For every other transaction `DurableCommits` asks that each insert is replayed or was taken
by a flush that succeeded. Within these two exceptions the code does lose acknowledged
commits. What the run shows is that outside of them, with the flush of the pool as
assumed here, the log loses none; what the pool may do to its pages is section 7.

**What is checked.** `SizeExact` (the buffer's size counter neither drifts nor
underflows under interleaved drains), `IndexOrder` (indexes unique and ordered
whatever a crash leaves), `DurableCommits` (above), `AtomicRecovery` (all
that was inserted before the commit was asked for, or nothing), `RecoverableReads` (no
transaction survives a crash without those its snapshot could read),
`ReplayIsReference` (the replay loop against a declarative definition, on every
file a crash can leave), the action property `SnapshotCoversAcked`, and the
liveness property `RequestsAnswered`.

**Bounds.** Two transactions over a ring of two pages, so that entries split
batches, the ring wraps, and transactions interleave; two clients, one
checkpoint. `wal_recovery` has two inserts per transaction, one failing
write, so that a commit fails and its client retries or goes on, and two
crashes, so that a recovered log is recovered again, with the size trigger out
of reach (`MaxBufferSize = 100`). `wal_flush` has a buffer that an insert
fills, so that a flush can overtake the flush that took the same transaction's Start (with
a limit of 4 it never does), one failing write and one crash. `wal_answers` is
`wal_flush` with a limit of 4, without a crash and without symmetry, for liveness. A third client, or a third
transaction, adds no new kind of neighbour: each hazard of the
list needs one client that is overtaken, one that overtakes, and the io thread.

**Fairness** (`FairSpec`). The io and checkpoint threads are loops that run
whenever they have work, and a client inside a call goes on with it: weak
fairness of `Io`, `Checkpoint` and the internal steps of a call. No client has
to begin, update or commit anything.

### Proofs

`WriteAheadLogProofs` proves, for all clients, ring lengths, sizes and bounds:

  * `TypeCorrect`: `Spec => []TypeOK`. `TypeOK` is not inductive: that the client
    whose request is answered runs a transaction has to be known.
    `TypeInv` adds `Protocol`: `RunsTx` (a client that is not idle has a transaction),
    `Awaited` (whoever has a request under way waits) and `OneRequest` (at most
    one request per client, in the channel or served).
  * `CommitInvariant`: `Spec => []CommitInv`. It follows a Commit record on its way,
    from the client's hands (`HandInv`) through the channel (`ChannelInv`) to
    the io thread's batch (`BatchInv`). A commit that is
    being served is either still in the batch or has an index that was announced
    and given out, `SwitchInv` covers the page switch in between, `IdsUnique`
    keeps ids of clients and of acknowledged transactions apart, and `LogInv` says no
    Commit record waits in the buffer. From these `AckedInv`: the commit index of
    every acknowledged transaction is in `1..lastIndex`.
  * `SnapshotsCoverAcked`: `Spec => SnapshotCoversAcked`, from `AckedInv` before the
    step and the guard of `Snapshot`.

It goes on from there to the contents of the log, with three invariants that together are
inductive (`LogInvariant`):

  * `IdsInv` and `FileInv`: every record is filed under the transaction it belongs to, with
    no id above `lastTx`; pages and the entry under way are in the order of their indexes,
    up to `lastIndex`; two pages share no index, and the entry shares one only with the page
    at the cursor, which it rewrites. A crash image differs from the file in that page, so
    `IndexesOrdered`: `Spec => []IndexOrder`.
  * `ReadInv`: an announced commit is in the file or the entry under its index, unless
    the page is being switched or the transaction is exposed (`Announced`); a transaction's
    commit is above its snapshot (`Above`), and there is none while it is being begun
    (`Young`); what is only in memory has higher indexes than all of the file
    (`Unwritten`), so a crash that takes back a commit takes back all that read it. Hence
    `ReadsSurvive`: `Spec => []RecoverableReads`.
  * `BufferInv`: of a transaction the buffer holds a Start first, if at all, and then
    inserts, no more than it made: a drain takes off `size` what it counts. Hence
    `SizeKept`: `Spec => []SizeExact`.

`WriteAheadLogRecoveryProofs` follows a transaction through a crash:

  * *The replay loop.* `Replayed` is a recursive function over the indexes of an image.
    After the records up to an index its state is `StateOf` of them, a closed form of
    three sets (`Begun`, `Live`, `Kept`), because each kind of record changes the closed
    form as the loop changes its state (`AfterStart` and so on); the least index at which
    they differ would be a contradiction. Hence `ReplayCorrect`:
    `Spec => []ReplayIsReference`.
  * *The pipeline* (`PipelineInvariant`), for every transaction the code itself did not
    expose. `ChainInv`: its Start and inserts stand, in order and without a gap, in the
    file, the entry under way, the batch, the requests, one client's hands, and the buffer,
    in this order of places, and there is a commit only where one was asked for. `AskInv`:
    while a commit is under way nothing of the transaction is behind it. `DoneInv`: what
    was acknowledged is whole in wal.db and nowhere else. `EmptyInv`: a batch
    is empty when the io thread waits, and a client holds records only on its way to the
    channel. The order of indexes, from `LogInvariant`, is what places a new entry behind
    everything in the file.
  * *The crash.* An image holds a prefix of what a transaction has in the file
    (`ImagePrefix`), all of it once the last record is in the file (`ImageWhole`).
  * *The flushes.* Nothing a flush took is left uncovered when the flush is over, unless the
    flush failed and the transaction is exposed (`CoverInv`), and a mark is with the io
    thread only while the checkpoint thread waits for it, its flush done (`MarkAwaited`):
    `FlushedCovered`. So a transaction that a mark passed is `Straddling` only for inserts
    that no flush had a chance to take. With
    these and the closed form: `RecoveryAtomic`, `Spec => []AtomicRecovery`, and `CommitsSurvive`,
    `Spec => []DurableCommits`.

The assumptions are the ASSUMEs of `WriteAheadLog`: the checkpointer is no
client, the ring has a page, sizes and bounds are naturals. One lemma per
actor says that its actions keep the invariant, with one step per action. Of the
properties of the three runs only the liveness property is left to TLC alone.

## 3. Background threads

`BackgroundThread` keeps the mutex (`inner`, `dead` when poisoned), whether a thread
is registered, the works given so far, the OS thread (`worker`) with its
channel, and what became of every request. `checked_send` is
three steps: it takes the handle (`Reuse`) or spawns (`Spawn`), and `Push`es on the
channel, which panics (`PushPanic`) when the receiver is gone. `Close`, `Joined` are
`close`, which holds the mutex over the join. The thread takes requests, answers,
ticks when a timeout runs out, panics, ends.

Run `thread` (three callers, four requests, one panic, a plain work replaced by
one with a timeout) checks that requests run one at a time and in order across
spawns, closes and replacements (`ExecutedInOrder`), that a waiting caller is never
forgotten (`NoCallerForgotten`), that nothing is lost without a panic or an `Empty`
work (`LossNeedsPanic`), and that `close` drains (`CloseDrains`). Under
fairness each wait and each close ends (`CallsReturn`). Fairness: the worker runs, a job returns, and
a caller that is not blocked goes on; a mutex owes nobody the lock and no caller
has to call.

Run `thread_empty` is a finding: a thread whose work is still `Empty`, as
`checkpoint_c` is during replay, panics the caller of `send` or drops its request.

### Proofs

`BackgroundThreadProofs` proves `InOrderAlways`, `NobodyForgotten`, `LossHasReason` and
`CloseLeavesNothing`, the four safety properties of run `thread`, for all callers,
numbers of requests and panics, and sequences of works. None is inductive, for what
became of a request says nothing of where it is. `Inv` (`ThreadInvariant`) adds four parts to
the types. `Mutex`: whoever pushes or joins holds the mutex, nobody pushes to a closed channel,
and when the mutex is free and no thread is registered none runs. `Channel`: the requests of
the channel are the last ones pushed, in order; the one before them is running if a job
runs; those before that are settled. `Losses`: a dropped request, a panicked caller, a
poisoned mutex and a receiver that is gone each need a job that panicked or an `Empty`
work. `Awaiting`: whoever waits, waits for a request that was pushed. There is one lemma
per action. The assumptions are the ASSUMEs of `BackgroundThread`: `Nobody` is no caller, there is a
first work, bounds are naturals. `CallsReturn` is model-checked only.

## 4. Page file

`PageStore` is the promise: writes to a page are numbered, `applied` is the one a
read sees, `safe` one that no crash takes back; a write returns Ok only when
safe, Err only when not applied; a successful fsync made safe what was applied
when it was called; a crash keeps for each page some write between the two.
`Finder` is the code: a round-robin choice of a write thread, `pwrite` at once,
the `done` sender kept in `wait` until the batch is full or the timer runs out,
one flush thread, failures of each call, `close` thread by thread, a crash. The
shared names are shared variables, so the refinement mapping is the identity:
`Implements == Store!Spec` of `Store == INSTANCE PageStore`.

Run `finder` checks the refinement, `NoWriteForgotten` and the liveness property
`WriteAnswered` with two write threads, two callers, batches of two, three writes,
two failed calls, one close and one crash: batches that fill, batches that the
timer ends, a batch that outlives a failed fsync and is acknowledged with a newer
write, both threads at the flush thread. One page is enough: threads and pages meet
only in `applied` and `safe`, and two writes of one page are where an order could go
wrong. The exception `Stranded` is the code's: a write
thread that `close` joined keeps `done` senders in its closure, and only a later
write spawns it again. Fairness: the write threads including their timer, the flush
thread, and the steps of a `close` that has begun; no caller has to call.

A short `pwrite` or `pread` is not modelled; the code ignores the count.

### Proofs

`FinderProofs` proves, for all callers, pages, numbers of write threads, batch sizes
and bounds:

  * `FinderInvariant`: `Spec => []Inv`.
  * `WritesKept`: `Spec => []NoWriteForgotten`.
  * `FinderImplementsPageStore`: `Spec => Implements`.

That a write is acknowledged only when safe depends on the fsync that some thread
asked for some time ago, so neither theorem is inductive. `Inv` has five
parts. `TypeOK`. `NotAhead`: no page is safe, and no write or fsync in progress is
numbered, past what was applied. `Placed`: no caller is in two channels or `wait`s or
twice in one, and where it is says whether `pwrite` has seen its write. `Flushing`:
a write thread in the channel of the flush thread is there once and is
syncing, so it accepts no write meanwhile. `Covered`: all in the `wait` of a thread
that is answering its batch is safe, and so is all that the head of the flush
thread's channel waits for once its fsync is done. There is one lemma per
action; lemmas about a family of sequences without repetition (`FamilyAppend`,
`FamilyTail`) carry `Placed`. For the refinement each step under `Inv` is a step of
`PageStore` or a stutter: `Covered` gives the guard of the acknowledgement.

The assumptions are the ASSUMEs of `Finder`: there is a write thread, the batch size
is a natural, callers are not numbers (as threads are). `WriteAnswered` is
model-checked only.

## 5. LRU cache

`LRU` is a map with an order of use. `LinkedCache` has addresses, boxes, a table of
pointers and the links, and every operation of `LRUCache` on them, with the addresses of
freed boxes handed out again. Run `lru` checks, over all sequences of calls with four keys
and four addresses, `WellLinked` (every field has its type, the list is the same from both ends and
is exactly the set of boxes), `TableMatches`, and `Implements` under the mapping that reads the list from
its head. Four keys give lists with a first, a last and two inner nodes.

### Proofs

`LinkedCacheProofs` proves all three properties, for any keys, values and finite set of
addresses. The inductive invariant `CacheInv` (`CacheInvariant`) is that some sequence of
addresses `s` is all of the cache: its nodes are the allocated ones, each once, every link
and both ends are those of `s` (`Linked`), and the hash table and the boxes name each other.
The operations of the list are operations on `s`: `PushBack` appends, `Unlink` cuts one
place out, `Forget` changes nothing. `Walk` and the loop of `Drop` are recursive functions
over the addresses; each is brought to a closed form that satisfies its equation, and the
least index at which the two differ would be a contradiction (`WalkMeets`, `TurnsFree`). So
`Order` and `Value`, which the refinement reads off the pointers, are the keys of `s` in
order and the values in its boxes (`Seen`), and each call does to them what `LRU` says:
`CacheImplementsLRU`, `Spec => Implements`. `AlwaysWellLinked` and `AlwaysTableMatches`
follow from the invariant. The assumptions are that `Nil` is no address and no box, and
that memory is finite.

## 6. The tree

`Tree` takes one step per page access of a cursor. A cursor descends with copies
of the nodes (`path`), places the value in a page of its own, and writes back
bottom-up: `Settle` decides whether a node splits, `Split` writes the right half,
`Write` the node. After the leaf, split or not, the parent as it was read on the way down
takes a new minimum at the slot of the leaf, which panics when no separator is there
(`PastSeparators`, `cursor.rs:115-117`); without a split it is then dropped unwritten.
`Raise` enters the separator of a split, `NewRoot` and `SetRoot` raise the root. `delete` is modelled up to the
`unimplemented!()` of `release`; its search (`find_family`) may underflow. `Initialize`
is the bootstrap transaction.

No page is latched, so cursors interleave at every access. `read` and `wrote` are the
pages an operation has touched, and `Conflict` says that one operation wrote a page
which another under way had read or written, or read one it had written. Then a key may
be lost (the later write wins), and the model stops: the properties hold of all
other interleavings, those in which the operations meet in the allocator, in the root
or in pages that only one of them changes.

The page store under the tree is ideal: each access sees the newest version, and
`BufferPool::insert` succeeds. With the sizes in the code it does not: a block
with an undo index takes 4098 of 4096 bytes and an undo log with one 4106 of 4104, so the
second update of a page ends in `EOF` (`undo.rs:83`). The tree is
checked for the algorithm it is, on a file that already holds a root (`"tree"`) and on
an empty one.

Run `tree` has two instances, of which an execution takes one (`Budgets`). `Alone` is one
client through every sequence of five insertions with lookups and
deletes between, over five keys in nodes of at most two: leaf, internal and root
splits at odd and even lengths. `Together` is two clients with four insertions and
lookups over four keys. `MapCorrect`, `Balanced`, `PagesOwnedOnce` and `LeafChain`
hold between operations, `InsertedIsFound` while no two operations are in each other's way.
One more thing goes
wrong in the code: a new minimum of the tree whose leaf splits leaves a separator out of
order (`mangled`). What a binary search does then is unspecified, so the model begins no
operation after it, and `MangledByNewMinimum` states that it is the only way there while no
operation is in another's way: with three cursors, a smaller key may have been inserted and then
hidden by the write that lost it. Until
a node is mangled no insertion panics (`InsertNeverPanics`), with or without a split or a conflict; after it, a cursor
already on its way may be led past the separators and index out of them.

`tree_fresh` is a finding: on an empty file nothing makes the header and the root,
and the first insertion fails.

### Proofs

`TreeProofs` proves `NoInsertPanics`, `Spec => []InsertNeverPanics`, for any number of cursors,
any keys and any node size. Since cursors overwrite each other's pages, no invariant can
speak of one tree. `TreeInv` speaks of pages one at a time instead, with two constants of
which some pair always exists: `low` is the separator a page was made with, which never
changes, and `edge` the pages that were ever on the way from a root to the leftmost leaf,
which only grows. Every copy of a page, in the store, on a path or under change, fits them
(`FitsAt`): the children after the first are off the edge, each with its `low` as the separator
before it; a leaf off the edge begins with its `low`; the only leaf on the edge is page 1.
`FitsGrown` and the lemmas after it show that handing out a page disturbs none of this;
`LeafSplits`, `InternalSplits`, `LeafPlaced` and `ChildRaised` that what an operation makes of a
node that fits, fits. A cursor that turned right at a separator has a key no smaller, so a
key becomes the first of its leaf only in page 1, reached over the first child of a node
with a separator: the slot that takes the new minimum exists. Where a new minimum and a split
meet the raised node is out of order (`Doomed`), and its write mangles.
For what the tree as a whole holds, `MapInv` speaks of one tree, that of the insertions that
have returned. It is a record `t` of which some value always fits: `route[l][k]`, the page a
search for `k` comes to on level `l`, `height`, the level of the leaves, `page`, what the pages hold once
those insertions are through, `own`, the key whose value is in a page, and `live`, the pages in use.
`Mapped` relates it to `ref`: the root of `route` is in the header, the child that
`ChildPos` takes is the next page of the route, the leaf holds the keys routed to it with the
value `ref` says, and a page of one level or key is of no other. Five parts of `Mapped` say the
rest: nodes are neither over-full nor too empty (`Filled`), the keys routed to a node are an interval
(`Convex`), page 1 has the least of them (`Fronted`), a leaf's `next` is the leaf with the following keys (`Chained`), and every page in use
is a node or a value of the tree (`Owned`). Until the first conflict or mangled node every
page that no operation under way has written holds `page` (`Charted`), those handed out are in use or
with the operation that took them (`Claimed`), and each cursor is `Sited`: its
path is a prefix of a route as long as nobody else has changed what it read, and the nodes it
is about to write are those of a tree that has its key, half raised (`Climbed`). What an
operation does to the tree is done in one step, at its last write (`Committed`), and
`LeafAfter`, `NodeAfter`, `RootedAfter`, `NestedAfter`, `LeveledAfter`, `FilledAfter`, `ConvexAfter`,
`FrontedAfter`, `ChainedAfter` and `OwnedAfter` show that the result
is `Mapped` to `ref` with the new key, whatever levels have split. `MapInvariant` is
`Spec => []MapInv`. `MapIsCorrect` and `InsertedStaysFound` follow: a search of the recursive
function in `Lookup` goes down a route, and a get that ends before a conflict has read pages
of the tree of its time. When no operation is under way the store holds `page` and the nodes
reached from the root are those of `route`, level by level (`LevelIs`), so `AlwaysBalanced`,
`LeavesChained` and `OwnedOnce` follow from those parts; of the last the count of pages
takes that the routed nodes, the value pages and the header are disjoint and all of `live`.

`OnlyNewMinimumMangles`, `Spec => MangledByNewMinimum`, takes one more part of `Sited`: a cursor whose
key became the first of its leaf has read page 1, which by `Fronted` has the keys below it, so
that none of them is in the tree, and none can come while nobody writes that page (`Least`). A
node about to be written is half of one that is `Climbed`, and in order (`HalvesOrdered`), or
`Doomed` by such a key (`Undercut`); the right half of a doomed node starts behind the two
separators in question and is in order too (`DoomedRight`).

The assumptions are the ASSUMEs of `Tree`: the keys are finitely many integers and there is one,
a node holds at least two, the bound on insertions is a natural, and a budget names clients,
keys and kinds that exist.

## 7. The buffer pool

`BufferPool` has the block cache, the undo logs with their cache, two or more
cursors, the commit, flush and write threads. A step ends where a lock is
released, a file call is waited for or a channel is used.

| action | code |
|---|---|
| `Get`, `GetRead`, `GetFill`, `Walk` | `BufferPool::get`: the cache, the read of a missing block, its entry into the cache, one turn of the loop of `RollbackStorage::get` |
| `Insert`, `InsertRead`, `InsertUndo`, `InsertNew`, `InsertMark` | `BufferPool::insert`: the old block, its undo log, `insert_new`, the entry in `uncommitted` |
| `CommitTake`, `CommitPage`, `CommitRead`, `CommitFill`, `CommitWalk` | the commit thread, which holds `uncommitted` over a commit |
| `FlushAll`, `FlushNothing`, `FlushFail`, `FlushSync`, `FlushAnswer`, `WriteBlock` | the flush thread with `flush_all`, and the write thread |
| `Begin`, `Commit`, `Abandon` | the cursor and the log around the pool: only the commit indexes are kept of the log |

The content of a page is the number of its version. `cached` and `undoCached` are
the two LRU caches in the order of use; that the pointers below behave so is
section 5. A page file is read and written atomically, which is section 4; a
page of zeros is read where nothing was written.

*Sizes.* `layout` is chosen at the start: the sizes of the code, or sizes that leave
room for the headers. With the first every flush of an inserted block and every
second update fails, and run `pool_layout` is the finding. With the second the
rest of the code can be seen at work: `pool` covers both.

*`exposed`* collects the pages of which the code itself loses a version: a fill
that overwrites a newer block (`buffer_pool.rs:130`), an insertion whose undo log
holds an older block than the one it replaces (148 against 158), the marks drained
by a flush that fails (`cache.rs:105`), a failed write that nobody looks at
(`cache.rs:126`). Over all interleavings, with evictions between, `CleanIsWritten`,
`SnapshotSeesCommitted` and `FlushIsSafe` hold on every other page: the list is
complete. `DirtyIsHeld` and `NoneReadsBack` have no exception. `NoneReadsBack` is about
the flag byte that is not written for a missing undo index and is read as the first byte of
the data: only a page of zeros is ever without one.

`WalkDescends` says that the search of a reader or of the commit thread in a chain of undo logs
goes to an older log in each turn. Its exception is the code's: past the first log of the chain, at one
that is not cached, `undo.rs:190` reads the first one again, and the walk spins.

`SnapshotSeesCommitted` is one-sided. A block that is not committed has commit
index 0 and is visible to everybody, and one flushed before its commit keeps the 0 on
disk: a reader may see more than its snapshot, never less.

*Bounds* (`Budgets`, of which an execution takes one): two pages, two
transactions, two insertions, one failure and one flush, with a cache that holds one block, so
that the second page evicts the first; or one page, three transactions and three
insertions, so that a snapshot of the first is looked for under the third, in undo logs
of which one is cached and one is past the end of the file. The walk that spins
occurs there: `pool` checks safety only, for under no fairness would it end. `MaxTx` bounds
the transactions of every budget.

### Proofs

`BufferPoolProofs` proves all that run `pool` checks (`NoneStaysNone`, `DirtyAlwaysHeld`,
`CleanAlwaysWritten`, `FlushAlwaysSafe`, `SnapshotsSeeCommitted`, and the action property
`WalksDescend`), for all clients, pages, layouts, cache sizes and budgets. What a reader gets depends on a block that some
client replaced, an undo log that went through a cache or past the end of a file, and an index
that the commit thread has yet to enter, so `Inv` (`PoolInvariant`) follows every copy of a
block:

  * `Stored`: in the cache, on disk, on its way there, in an undo log or in the cache of
    undo logs, a block is a page of zeros or a `Version` of its page. The history knows its
    writer, its commit index is 0 or the writer's, and its undo log has the version before
    it, with no other version between unless the page is exposed. Undo logs link to older ones.
  * `InHand`: so is what a client holds between two steps; a client that searches has not passed
    the newest version that its snapshot covers.
  * `Informed`, `Transactions`: what the commit thread is told of a transaction is true; one
    that runs has one client and no index, and no snapshot reaches an index still to be given.
  * `Latest`: the newest version of a page that is not exposed is where a reader looks
    first: in memory, or else in the last write on its way, or else on disk. `Ordered`: blocks reach
    the disk from the older to the newer. `Covered`: what a flush took is on its way
    while it waits and there once it has synced.

`DirtyIsHeld` and `CleanIsWritten` are parts of `Inv` themselves. There is one lemma per action and
one per way a step can leave a part alone (a block entered, a client moved, the commit thread moved,
only the flush moved). The assumptions are the ASSUMEs of `BufferPool`: pages are naturals,
caches and the undo file have room for one entry, budgets are naturals.

## 8. The engine

`Engine` puts log, pool, allocator and threads together over the life of a process. It
is coarser than the modules of its parts and asks what none of them can: what
replay makes of the files after a crash at any point, in which order a drop closes the
threads, and who is left without an answer.

| action | code |
|---|---|
| `Begin`, `Abandon` | `Engine::new_transaction`, a cursor dropped without commit |
| `Read` | `BufferPool::get` |
| `Update`, `Insert`, `Enter` | `CursorWriter::update`, `insert`: the undo log and the page index, then the cache and the log buffer |
| `Commit` | `WriteAheadLog::commit` |
| `IoTake`, `IoWritten`, `IoSignal` | the handler of the io thread: up to the write of the page, after it, the request for a checkpoint |
| `IoOverwrite` | the page it writes held older records: the ring (`wal.rs:118-127`) |
| `CkNothing`, `CkDrain`, `CkFlushed` | the checkpoint thread with `flush_all` |
| `WriteBegin`, `WriteEnd`, `CommitTake` | the write and the commit thread of the pool |
| `DropBegin`, `DropSend`, `DropClose`, `DropJoined`, `DropFile` | `Engine::drop` and `before_shutdown` of each component, call by call (`DropOrder`) |
| `Restart` | a crash, or the end of the process, and `Engine::bootstrap`: `FreeList::new`, replay, and the commit of the first transaction, which goes to the oldest page of the log |

A version of a page is a number, in the order in which versions enter the cache. The
log is the sequence of transactions and checkpoint marks ever written, and `gone` how many
of them, the oldest, have been written over. Replay starts an unwrapped log at page 0 again
(`wal.rs:184`) with an empty entry (105), and the commit of bootstrap
(`engine.rs:111-113`) writes that page at once; how many records a page holds is not
modelled, so each restart and each page write may take any number. A thread is a queue
and a flag whether an OS thread serves it, which any later request sets again. `Threads`
are the four that `before_shutdown` closes (`Closed`), the two that nothing closes
(`Unclosed`: the flush of the pool, which the checkpoint closure owns, and the metadata
thread of `data.db`, left out by `Finder::close`), the write thread of each file, and
`beside`, the read and sync threads of `data.db`. The abstractions: no call fails; the log
buffer stays below its limit (section 2 has both, and where in the ring a write goes); blocks fit their
pages, for with the code's sizes no inserted block ever reaches `data.db` (section 10);
a cursor may outlive the engine, as its own `Arc`s allow.

The exceptions of the properties are the code's, kept as history:

  * `exposed`: a transaction wrote after a flush had drained the dirty pages and
    its commit was logged before the mark of that flush: replay passes it over
    (`wal.rs:232`); or it was `Adrift` at a crash;
  * `Adrift`: its records were written over, by the ring or by the commit of a bootstrap,
    before a mark came after them. The checkpoint that replay asks for (`wal.rs:252`)
    would save it, but that request goes to an `Empty` work;
  * `early`: a page was flushed before its transaction committed; nothing takes it
    back (`wal.rs:248`);
  * `clash`: two open transactions wrote one page, and replay applies them in the
    order of their records, not of their versions;
  * `short`: the allocator started from the length of `data.db` while the log held
    pages past it (`free.rs:36`);
  * `late`: a cursor made a call during or after the drop;
  * `Knot`: `checkpoint_c.close` holds the mutex over a join, the checkpoint thread
    waits for the io thread, and that one for the mutex (`wal.rs:178`, 130). Nobody
    goes on;
  * `Stranded`: the io thread waits for a write to `wal.db`, which was closed before
    it was answered.

Run `engine` checks `RestartIsWhole` (a restart brings back acknowledged and logged
transactions whole and nothing of the others), `AllocatedOnce` (no page is handed out twice,
over restarts too), `DropKeepsPages` (a drop leaves on disk what cursors last saw),
`OnlyUnclosedLeft` (the closes are in an order in which none is undone: after a drop the two
threads that nothing closes run, every time, and no other), and, under fairness,
`ShutdownEnds` and `CommitsAnswered`. What they show is that, at this grain, a violation
needs one of the exceptions; several are losses of acknowledged commits by ordinary
executions, `Adrift` by two crashes with few commits.

*Bounds* (`Budgets`): `Crashing` has two transactions, three writes and a crash at any
point; `Closing` two transactions, one write and a drop with cursors that go on;
`ClosingLone` one transaction with two writes and a drop, so that a write falls between a drain and
its mark before the drop. Of three
pages one is there and two can be allocated; the `CheckpointCount` of 4 is passed by the first
transaction that writes and commits, so the io thread asks for a checkpoint while others wait.

*Fairness*: weak fairness of the io, checkpoint, write and commit threads, of the
steps of the drop, and of a cursor's `Enter`, which only waits for the answer to
its undo write. The interval of the checkpoint is not fair, and no cursor has to call.

### Proofs

`EngineProofs` proves the safety that run `engine` checks (`RestartWhole`, `NeverTwice`,
`DropKeeps`, `UnclosedLeft`) for all clients, pages, transactions, crashes and drops. None of
it is inductive: what a restart finds depends on the flushes, marks and commits that were
under way, so `Inv` (`EngineInvariant`) relates them at every step between.

  * `Coming`, the log as it will be once the requests under way are served, is the order
    replay will follow. `Transactions`: a transaction runs in one client or has one place in it.
    `Order`: unless they overlapped, its transactions wrote each page in that order.
  * A version that the code does not lose (`Tracked`) is in the cache or below a newer one
    (`Cached`); during a checkpoint it is on its way to `data.db` or there, unless it was made
    after the drain (`Flushed`); and it is there before a mark comes after it in the log (`Kept`).
    Hence replay, which begins after the last mark, leaves out only what is `Adrift`:
    `RestartWhole`. When `gone` grows, replay finds for a page what it found before, or
    nothing (`ReplayFades`).
  * `Acknowledged`: an acknowledged transaction is in the log, and `data.db` has versions of
    logged transactions or of `early` ones. `Pool`: a page has at most one write under way.
  * `Allocator`: a page from `last_index` on has no version, unless `short`.
  * `OwnNewest`, `Fresh`: without overlaps replay finds for a page what the cache has, unless the
    page is still to be flushed or a mark still to be logged: `DropKeeps`.
  * `Requests`: whoever has a request in the channel or at the io thread waits for it. `Shut`: what a drop without
    interference has closed and drained at each of its steps: `UnclosedLeft`.

The lemmas say what replay returns for a log and its extension by one record
(`ReplayIs`, `ReplayAppend`), how the log to come moves from one action to the next, and
that the parts of the invariant which speak of disk and log survive a mark (`MarkKeeps`). The
assumptions are the ASSUMEs of `Engine`: the checkpoint thread is no client, the count is a
natural, there is a page.

## 9. Deadlock

TLC checks for deadlock in every run. Where the system may rest, a stuttering
disjunct says exactly when: `Quiescent` (every id used or nothing under way), `Rest` (every call
returned or stranded), `Done` (bound used up). Any other state without a
successor is reported.

## 10. Findings

  * `tree_fresh` / `InsertSucceeds`: `Cursor::initialize` waits for an `Error::NotFound`
    that `TreeHeader::deserialize` never returns.
  * `thread_empty` / `CallersSurvive`: `replay` sends to `checkpoint_c` before it has
    a work.
  * `pool_layout` / `HeadersFit`: `PAGE_SIZE` leaves 24 bytes of a block for a header
    of 26, and of an undo log 32 for 34, so no inserted block can be flushed and no
    page updated twice.

Also met while modelling, each an exception that a property names: the reordering and overwriting behind `exposed` of the log and
of the pool; the lost update between unlatched cursors (`Conflict`) and the separator
of section 6; the walk that spins; the inserts a client makes after a failed commit, which
may survive a crash without a second commit (`AtomicRecovery`); `Straddling` of section 2;
`exposed`, `Adrift`, `early`, `clash`, `short`, `Knot` and `Stranded` of section 8. The README of the repository promises nothing
about them. Its example does: `examples/multi_thread.rs` lets two threads insert a key each into one
tree and then unwraps a `get` of the first (`"1230"`), so it expects that key to be there
whichever way the two interleave. In an empty directory it fails for the reason of
`tree_fresh`; on a file that has a root, two insertions in `Conflict` may lose the key, as `Tree`
shows by reaching `Conflict` (there the model stops, and the tree properties claim nothing).

## 11. Plan

In order of importance, with what is done and what is left.

 1. *Write-ahead log* (done): `WriteAheadLog`, three runs, type correctness and all its
    safety properties proved, durability and atomicity of recovery among them.
 2. *Threads and files* (done): `BackgroundThread`, its safety proved; `Finder` implements `PageStore`, checked and proved.
 3. *Cache and tree algorithms* (done): `LinkedCache` implements `LRU`, checked and proved; `Tree` with two cursors.
 4. *Buffer pool* (done): `BufferPool` with the block cache, the undo chains and
    the sizes of the headers; all its invariants proved.
 5. *Engine* (done): crash, restart and drop over log, pool and allocator; its safety proved.
 6. *Version store* (left): an abstract specification of the pool (per page the versions,
    a read at a snapshot) that `BufferPool` implements on pages that are not exposed, and
    the undo file over a restart (`RollbackStorage::replay`, the wrap of the index).
 7. *Proofs* (done): of the tree all safety and action properties, for any number of cursors.

## 12. Not modelled

  * The restart of the undo storage. `RollbackStorage::replay` finds the page of zeros at
    index 1, which `append` never writes, and so begins at the same place every time: the
    indexes that blocks in `data.db` point to are given out again. While the sizes of
    the code keep every inserted block out of `data.db` (section 10) nothing points
    there; a model would have to replay the log into the pool of section 7, and is
    item 6 of the plan. The wrap of the undo index at the width of a word is out of a
    small instance's reach.
  * The byte layout of nodes, headers and log entries: sequential encoders and decoders,
    each the inverse of the other but for the sizes and the flag byte, which sections 2 and
    7 model.
  * `io.rs`, which is the operating system, external to `Finder`.
  * The rebalancing of `delete`, which no execution reaches; the free list, which is
    never filled; the defragmentation thread, whose work is empty.
  * The bloom filter and the memory pool, which have no caller; logging; helpers.

The liveness properties (`RequestsAnswered`, `CallsReturn`, `WriteAnswered`, `ShutdownEnds`,
`CommitsAnswered`) are model-checked only, since they depend on fairness, outside the prover's
reach. Every other property of a passing run is stated by a theorem of sections 2 to 8.
