----------------------------- MODULE BufferPool ------------------------------
(***************************************************************************)
(* buffer/buffer_pool.rs with its block cache (cache.rs, block.rs) and the *)
(* undo logs (undo.rs): versions of pages, read at a snapshot.  Cursors    *)
(* call get and insert, the log announces commits to the commit thread,    *)
(* the checkpoint thread asks the flush thread for a flush, and one write  *)
(* thread takes the flushed blocks to data.db.                             *)
(*                                                                         *)
(* A lock held, a disk read or write waited for, and a channel operation   *)
(* are each a step.  The content of a page is the number of its version,   *)
(* in the order of insert_new, and 0 for a page of zeros.  A page write is *)
(* atomic (Finder); the log only gives out commit indexes here.            *)
(***************************************************************************)
EXTENDS Integers, FiniteSets, Sequences, SequencesExt

CONSTANTS
  Clients,       \* threads with a cursor
  Pages,         \* page indexes
  Layouts,       \* what PAGE_SIZE, BLOCK_SIZE and UNDO_PAGE_SIZE may be
  MaxCacheSize,  \* max_cache_size / BLOCK_SIZE
  UndoFileSize,  \* max_file_size / UNDO_PAGE_SIZE
  UndoCacheSize, \* its max_cache_size / UNDO_PAGE_SIZE
  MaxTx,         \* bound: transactions in an execution
  Budgets        \* bounds an execution starts with: transactions, the pages they
                 \* use, calls of insert, failed disk calls, calls of flush_all

ASSUME PagesAssumption == Pages \subseteq Nat
ASSUME LayoutsAssumption == Layouts \subseteq [page : Nat, block : Nat, undo : Nat]
ASSUME CacheAssumption == \A n \in {MaxCacheSize, UndoFileSize, UndoCacheSize} : n \in Nat \ {0}
ASSUME BudgetAssumption ==
  /\ MaxTx \in Nat
  /\ Budgets \subseteq [tx : 0..MaxTx, pages : SUBSET Pages, inserts : Nat, errors : Nat,
                       flushes : Nat]

VARIABLES
  layout,                          \* the sizes the code was built with
  cached, evicted, block, dirty,   \* CacheStorageCore: keys of the LRU cache, oldest
                                   \* first; keys of `evicted`; the blocks of both
  undo, undoCached,                \* the undo logs on disk, up to the last index taken,
                                   \* and those in the LRU cache, oldest first
  uncommitted,                     \* per transaction: the pages it inserted
  disk, writes,                    \* data.db, and the channel of the write thread
  cl,                              \* the clients
  commits, cm,                     \* the channel and the state of the commit thread
  fl,                              \* the state of the flush thread
  lastTx, lastIndex,               \* the log: ids and commit indexes given out
  owner, commitAt,                 \* history: page and transaction of each version,
                                   \* commit index of each transaction
  exposed,                         \* history: pages the code lost a version of
  left                             \* what is left of the bounds

pool == <<cached, evicted, block, dirty>>
undoVars == <<undo, undoCached>>
log == <<commits, lastTx, lastIndex, commitAt>>
vars == <<layout, pool, undoVars, uncommitted, disk, writes, cl, cm, fl, log,
          owner, exposed, left>>

Tx == 1..MaxTx

\* commit is 0 and undo 0 for None.
ZeroBlock == [commit |-> 0, tx |-> 0, undo |-> 0, data |-> 0]
Idle == [pc |-> "idle", tx |-> 0, snap |-> 0, page |-> 0, got |-> ZeroBlock,
         cur |-> 0, first |-> 0]
NoCommit == [pc |-> "page", tx |-> 0, at |-> 0, pages |-> <<>>, got |-> ZeroBlock,
             cur |-> 0, first |-> 0]

Init ==
  /\ layout \in Layouts
  /\ cached = <<>> /\ evicted = {} /\ dirty = {}
  /\ block = [p \in Pages |-> ZeroBlock]
  /\ undo = <<ZeroBlock>> /\ undoCached = <<>>
  /\ uncommitted = [t \in Tx |-> <<>>]
  /\ disk = [p \in Pages |-> ZeroBlock] /\ writes = <<>>
  /\ cl = [c \in Clients |-> Idle]
  /\ commits = <<>> /\ cm = NoCommit
  /\ fl = [pc |-> "idle", cover |-> {}]
  /\ lastTx = 0 /\ lastIndex = 0
  /\ owner = <<>> /\ commitAt = [t \in Tx |-> 0]
  /\ exposed = {}
  /\ left \in Budgets

-----------------------------------------------------------------------------
(* Layout: the leading byte of a page, the words of the header, the flag    *)
(* and index of an undo log, the data; PageWriter::write wants one byte    *)
(* more than it fills.                                                      *)

UndoLink(i) == IF i = 0 THEN 0 ELSE 9
BlockFits(b) == 1 + 16 + UndoLink(b.undo) + layout.page < layout.block
UndoFits(b) == 1 + 24 + UndoLink(b.undo) + layout.page < layout.undo

-----------------------------------------------------------------------------
(* CacheStorage, each under its mutex                                      *)

Held == ToSet(cached) \cup evicted

\* An LRU cache, oldest first, after x is used, which was at `old` if anywhere; a
\* cache is full one below its limit, and the oldest entry leaves it.
MoveLast(order, old, x) ==
  Append(IF old = {} THEN order ELSE RemoveAt(order, CHOOSE k \in old : TRUE), x)
Used(order, x) == MoveLast(order, {k \in DOMAIN order : order[k] = x}, x)
Full(order, limit) == Len(order) >= limit
Trim(order, limit) == IF Full(order, limit) THEN Tail(order) ELSE order

\* Mutant: the entry stays in evicted.
PutBeside(p) ==
  LET order == Used(cached, p) IN
    /\ cached' = Trim(order, MaxCacheSize)
    /\ evicted' = evicted \cup {q \in {Head(order)} : Full(order, MaxCacheSize)}

\* cache.get of a key that is held, and cache.insert.
Put(p) ==
  LET order == Used(cached, p) IN
    /\ cached' = Trim(order, MaxCacheSize)
    /\ evicted' = (evicted \ {p}) \cup {q \in {Head(order)} : Full(order, MaxCacheSize)}

\* The last version of a page that reached data.db or is on its way there.
Sent(p) == {i \in DOMAIN writes : writes[i].page = p}
LastWritten(p) == IF Sent(p) = {} THEN disk[p].data ELSE writes[Max(Sent(p))].block.data

Newest(p) == IF p \in Held THEN block[p].data ELSE LastWritten(p)

\* A block read from disk enters the cache, over whatever is there by now.
Fill(p, b) ==
  /\ Put(p)
  /\ block' = [block EXCEPT ![p] = b]
  /\ exposed' = IF b.data # Newest(p) THEN exposed \cup {p} ELSE exposed
  /\ UNCHANGED dirty

Fail == left.errors > 0 /\ left' = [left EXCEPT !.errors = @ - 1]

-----------------------------------------------------------------------------
(* Transactions: what a cursor and the log do around the pool.             *)

Goto(c, w) == cl' = [cl EXCEPT ![c] = w]

Begin(c) ==
  /\ cl[c].pc = "idle" /\ cl[c].tx = 0 /\ left.tx > 0
  /\ lastTx' = lastTx + 1 /\ left' = [left EXCEPT !.tx = @ - 1]
  /\ Goto(c, [cl[c] EXCEPT !.tx = lastTx + 1, !.snap = lastIndex])
  /\ UNCHANGED <<layout, pool, undoVars, uncommitted, disk, writes, commits, lastIndex,
                 commitAt, cm, fl, owner, exposed>>

\* The log gives the commit its index and sends CommitInfo to the commit thread.
Commit(c) ==
  /\ cl[c].pc = "idle" /\ cl[c].tx # 0
  /\ lastIndex' = lastIndex + 1
  /\ commitAt' = [commitAt EXCEPT ![cl[c].tx] = lastIndex + 1]
  /\ commits' = Append(commits, [tx |-> cl[c].tx, at |-> lastIndex + 1])
  /\ cl' = [cl EXCEPT ![c] = Idle]
  /\ UNCHANGED <<layout, pool, undoVars, uncommitted, disk, writes, lastTx, cm, fl,
                 owner, exposed, left>>

\* Without a commit the cursor goes and its versions stay.
Abandon(c) ==
  /\ cl[c].pc = "idle" /\ cl[c].tx # 0
  /\ cl' = [cl EXCEPT ![c] = Idle]
  /\ UNCHANGED <<layout, pool, undoVars, uncommitted, disk, writes, log, cm, fl,
                 owner, exposed, left>>

-----------------------------------------------------------------------------
(* BufferPool::get                                                         *)

Ready(c) == Goto(c, [cl[c] EXCEPT !.pc = "idle", !.page = 0, !.got = ZeroBlock, !.cur = 0,
                                  !.first = 0])

\* Mutant: the snapshot does not cover its own commit index.
ServeStrict(c, p, b) ==
  \/ b.commit < cl[c].snap /\ Goto(c, [cl[c] EXCEPT !.pc = "done", !.page = p, !.got = b])
  \/ /\ b.commit >= cl[c].snap /\ b.undo # 0
     /\ Goto(c, [cl[c] EXCEPT !.pc = "walk", !.page = p, !.got = ZeroBlock, !.cur = b.undo,
                              !.first = b.undo])
  \/ b.commit >= cl[c].snap /\ b.undo = 0 /\ Ready(c)

\* The block is visible, or the search goes on in the undo logs.
Serve(c, p, b) ==
  \/ b.commit <= cl[c].snap /\ Goto(c, [cl[c] EXCEPT !.pc = "done", !.page = p, !.got = b])
  \/ /\ b.commit > cl[c].snap /\ b.undo # 0
     /\ Goto(c, [cl[c] EXCEPT !.pc = "walk", !.page = p, !.got = ZeroBlock, !.cur = b.undo,
                              !.first = b.undo])
  \/ b.commit > cl[c].snap /\ b.undo = 0 /\ Ready(c)

Get(c, p) ==
  /\ cl[c].pc = "idle" /\ cl[c].tx # 0
  /\ \/ p \in Held /\ Put(p) /\ Serve(c, p, block[p])
     \/ /\ p \notin Held /\ UNCHANGED <<cached, evicted>>
        /\ Goto(c, [cl[c] EXCEPT !.pc = "read", !.page = p])
  /\ UNCHANGED <<layout, block, dirty, undoVars, uncommitted, disk, writes, log, cm, fl,
                 owner, exposed, left>>

\* disk.read of a block that is not held.
GetRead(c) ==
  /\ cl[c].pc = "read"
  /\ \/ Goto(c, [cl[c] EXCEPT !.pc = "fill", !.got = disk[cl[c].page]]) /\ UNCHANGED left
     \/ Ready(c) /\ Fail
  /\ UNCHANGED <<layout, pool, undoVars, uncommitted, disk, writes, log, cm, fl, owner,
                 exposed>>

GetFill(c) ==
  /\ cl[c].pc = "fill"
  /\ Fill(cl[c].page, cl[c].got)
  /\ Serve(c, cl[c].page, cl[c].got)
  /\ UNCHANGED <<layout, undoVars, uncommitted, disk, writes, log, cm, fl, owner, left>>

\* One turn of the loop of RollbackStorage, with its cache locked.  A log that
\* is not cached is looked for where the chain begins, not where it goes on, and
\* on the page its index has modulo the size of the file it was written past.
Places(i) == {k \in DOMAIN undoCached : undoCached[k].at = i}
Missing(w) == Places(w.cur) = {} /\ w.first >= UndoFileSize
Reached(w) == IF Places(w.cur) = {} THEN [at |-> w.first, log |-> undo[w.first]]
              ELSE undoCached[CHOOSE k \in Places(w.cur) : TRUE]
Keep(e) == undoCached' = Trim(MoveLast(undoCached, Places(e.at), e), UndoCacheSize)

\* Mutant: the search stays at the log it is at.
WalkStays(c) ==
  LET w == cl[c]  e == Reached(w)  l == e.log IN
  /\ w.pc = "walk" /\ ~Missing(w) /\ l.commit > w.snap /\ l.undo # 0 /\ Keep(e)
  /\ Goto(c, [cl[c] EXCEPT !.cur = e.at]) /\ UNCHANGED left
  /\ UNCHANGED <<layout, pool, undo, uncommitted, disk, writes, log, cm, fl,
                 owner, exposed>>

\* RollbackStorage::get: the log read is visible, or the next one is asked for,
\* or the call fails (a chain ends in a page of zeros, which every snapshot
\* covers).
Walk(c) ==
  LET w == cl[c]  e == Reached(w)  l == e.log IN
  /\ w.pc = "walk"
  /\ \/ /\ Missing(w) \/ (l.commit > w.snap /\ l.undo = 0)
        /\ Ready(c) /\ UNCHANGED <<undoCached, left>>
     \/ Places(w.cur) = {} /\ Ready(c) /\ Fail /\ UNCHANGED undoCached
     \/ /\ ~Missing(w) /\ l.commit <= w.snap /\ Keep(e)
        /\ Goto(c, [cl[c] EXCEPT !.pc = "done", !.got = l, !.cur = 0, !.first = 0])
        /\ UNCHANGED left
     \/ /\ ~Missing(w) /\ l.commit > w.snap /\ l.undo # 0 /\ Keep(e)
        /\ Goto(c, [cl[c] EXCEPT !.cur = l.undo]) /\ UNCHANGED left
  /\ UNCHANGED <<layout, pool, undo, uncommitted, disk, writes, log, cm, fl,
                 owner, exposed>>

\* get returns, or insert does.
End(c) ==
  /\ cl[c].pc = "done"
  /\ Ready(c)
  /\ UNCHANGED <<layout, pool, undoVars, uncommitted, disk, writes, log, cm, fl, owner,
                 exposed, left>>

-----------------------------------------------------------------------------
(* BufferPool::insert                                                      *)

Insert(c, p) ==
  /\ cl[c].pc = "idle" /\ cl[c].tx # 0 /\ left.inserts > 0
  /\ left' = [left EXCEPT !.inserts = @ - 1]
  /\ \/ /\ p \in Held /\ Put(p)
        /\ Goto(c, [cl[c] EXCEPT !.pc = "append", !.page = p, !.got = block[p]])
     \/ /\ p \notin Held /\ UNCHANGED <<cached, evicted>>
        /\ Goto(c, [cl[c] EXCEPT !.pc = "find", !.page = p])
  /\ UNCHANGED <<layout, block, dirty, undoVars, uncommitted, disk, writes, log, cm, fl,
                 owner, exposed>>

\* A page never written reads as a block of zeros: deserialize does not say
\* NotFound of it.
InsertRead(c) ==
  /\ cl[c].pc = "find"
  /\ \/ Goto(c, [cl[c] EXCEPT !.pc = "append", !.got = disk[cl[c].page]]) /\ UNCHANGED left
     \/ Ready(c) /\ Fail
  /\ UNCHANGED <<layout, pool, undoVars, uncommitted, disk, writes, log, cm, fl, owner,
                 exposed>>

\* RollbackStorage::append takes an index, and writes the old block unless it
\* does not fit.
InsertUndo(c) ==
  /\ cl[c].pc = "append"
  /\ \/ /\ UndoFits(cl[c].got)
        /\ undo' = Append(undo, cl[c].got)
        /\ Goto(c, [cl[c] EXCEPT !.pc = "new", !.cur = Len(undo) + 1])
        /\ UNCHANGED left
     \/ ~UndoFits(cl[c].got) /\ Ready(c) /\ undo' = Append(undo, ZeroBlock) /\ UNCHANGED left
     \/ UndoFits(cl[c].got) /\ Ready(c) /\ Fail /\ undo' = Append(undo, ZeroBlock)
  /\ UNCHANGED <<layout, pool, undoCached, uncommitted, disk, writes, log, cm, fl, owner,
                 exposed>>

\* Mutant: the block is not marked dirty.
InsertClean(c) ==
  LET p == cl[c].page IN
  /\ cl[c].pc = "new"
  /\ block' = [block EXCEPT ![p] = [commit |-> 0, tx |-> cl[c].tx, undo |-> cl[c].cur,
                                    data |-> Len(owner) + 1]]
  /\ Put(p)
  /\ owner' = Append(owner, [page |-> p, tx |-> cl[c].tx])
  /\ exposed' = IF cl[c].got.data # Newest(p) THEN exposed \cup {p} ELSE exposed
  /\ Goto(c, [cl[c] EXCEPT !.pc = "mark", !.got = ZeroBlock, !.cur = 0])
  /\ UNCHANGED <<layout, dirty, undoVars, uncommitted, disk, writes, log, cm, fl, left>>

\* Mutant: the new block does not say where the old one is.
InsertUnlinked(c) ==
  LET p == cl[c].page IN
  /\ cl[c].pc = "new"
  /\ block' = [block EXCEPT ![p] = [commit |-> 0, tx |-> cl[c].tx, undo |-> 0,
                                    data |-> Len(owner) + 1]]
  /\ Put(p)
  /\ dirty' = dirty \cup {p}
  /\ owner' = Append(owner, [page |-> p, tx |-> cl[c].tx])
  /\ exposed' = IF cl[c].got.data # Newest(p) THEN exposed \cup {p} ELSE exposed
  /\ Goto(c, [cl[c] EXCEPT !.pc = "mark", !.got = ZeroBlock, !.cur = 0])
  /\ UNCHANGED <<layout, undoVars, uncommitted, disk, writes, log, cm, fl, left>>

\* cache.insert_new: the version it replaces may not be the one in the undo log.
InsertNew(c) ==
  LET p == cl[c].page IN
  /\ cl[c].pc = "new"
  /\ block' = [block EXCEPT ![p] = [commit |-> 0, tx |-> cl[c].tx, undo |-> cl[c].cur,
                                    data |-> Len(owner) + 1]]
  /\ Put(p)
  /\ dirty' = dirty \cup {p}
  /\ owner' = Append(owner, [page |-> p, tx |-> cl[c].tx])
  /\ exposed' = IF cl[c].got.data # Newest(p) THEN exposed \cup {p} ELSE exposed
  /\ Goto(c, [cl[c] EXCEPT !.pc = "mark", !.got = ZeroBlock, !.cur = 0])
  /\ UNCHANGED <<layout, undoVars, uncommitted, disk, writes, log, cm, fl, left>>

\* The commit thread holds the mutex of `uncommitted` over a whole commit.
Committing == cm.pages # <<>>

InsertMark(c) ==
  /\ cl[c].pc = "mark" /\ ~Committing
  /\ uncommitted' = [uncommitted EXCEPT ![cl[c].tx] = Append(@, cl[c].page)]
  /\ Ready(c)
  /\ UNCHANGED <<layout, pool, undoVars, disk, writes, log, cm, fl, owner, exposed, left>>

-----------------------------------------------------------------------------
(* The commit thread                                                       *)

CommitTake ==
  /\ ~Committing /\ commits # <<>>
  /\ LET m == Head(commits) IN
       /\ cm' = [NoCommit EXCEPT !.tx = m.tx, !.at = m.at, !.pages = uncommitted[m.tx]]
       /\ uncommitted' = [uncommitted EXCEPT ![m.tx] = <<>>]
  /\ commits' = Tail(commits)
  /\ UNCHANGED <<layout, pool, undoVars, disk, writes, cl, lastTx, lastIndex, commitAt, fl,
                 owner, exposed, left>>

NextPage == cm' = IF Len(cm.pages) = 1 THEN NoCommit
                  ELSE [cm EXCEPT !.pc = "page", !.pages = Tail(@)]
GiveUp == cm' = NoCommit

\* The block is another transaction's: the version is further down, if at all.
Search(b) ==
  \/ b.undo = 0 /\ NextPage
  \/ b.undo # 0 /\ cm' = [cm EXCEPT !.pc = "walk", !.cur = b.undo, !.first = b.undo]

\* cache.commit
CommitPage ==
  LET p == Head(cm.pages) IN
  /\ Committing /\ cm.pc = "page"
  /\ \/ /\ p \in Held /\ block[p].tx = cm.tx
        /\ block' = [block EXCEPT ![p].commit = cm.at]
        /\ NextPage
     \/ p \in Held /\ block[p].tx # cm.tx /\ Search(block[p]) /\ UNCHANGED block
     \/ p \notin Held /\ cm' = [cm EXCEPT !.pc = "read"] /\ UNCHANGED block
  /\ UNCHANGED <<layout, cached, evicted, dirty, undoVars, uncommitted, disk, writes, cl,
                 log, fl, owner, exposed, left>>

CommitRead ==
  /\ cm.pc = "read"
  /\ \/ cm' = [cm EXCEPT !.pc = "fill", !.got = disk[Head(cm.pages)]] /\ UNCHANGED left
     \/ GiveUp /\ Fail
  /\ UNCHANGED <<layout, pool, undoVars, uncommitted, disk, writes, cl, log, fl, owner,
                 exposed>>

CommitFill ==
  LET p == Head(cm.pages)  b == cm.got IN
  /\ cm.pc = "fill"
  /\ \/ b.tx = cm.tx /\ Fill(p, [b EXCEPT !.commit = cm.at]) /\ NextPage
     \/ b.tx # cm.tx /\ Fill(p, b) /\ Search(b)
  /\ UNCHANGED <<layout, undoVars, uncommitted, disk, writes, cl, log, fl, owner, left>>

\* The log is this transaction's: it is marked in the cache and on disk, or, if
\* the write fails, only in a cache that had it already.
Mark(e) ==
  LET l == [e.log EXCEPT !.commit = cm.at]  here == Places(e.at) IN
  \/ /\ undo' = [undo EXCEPT ![e.at] = l]
     /\ IF here = {} THEN Keep([e EXCEPT !.log = l])
        ELSE undoCached' = [k \in DOMAIN undoCached |->
                              IF k \in here THEN [e EXCEPT !.log = l] ELSE undoCached[k]]
     /\ NextPage /\ UNCHANGED left
  \/ /\ undoCached' = [k \in DOMAIN undoCached |->
                         IF k \in here THEN [e EXCEPT !.log = l] ELSE undoCached[k]]
     /\ GiveUp /\ Fail /\ UNCHANGED undo

\* RollbackStorage::commit: an error ends the commit, the other pages unmarked.
CommitWalk ==
  LET e == Reached(cm)  mine == e.log.tx = cm.tx IN
  /\ cm.pc = "walk"
  /\ \/ /\ Missing(cm) \/ (~mine /\ e.log.undo = 0)
        /\ GiveUp /\ UNCHANGED <<undo, undoCached, left>>
     \/ Places(cm.cur) = {} /\ GiveUp /\ Fail /\ UNCHANGED <<undo, undoCached>>
     \/ /\ ~Missing(cm) /\ ~mine /\ e.log.undo # 0
        /\ cm' = [cm EXCEPT !.cur = e.log.undo]
        /\ UNCHANGED <<undo, undoCached, left>>
     \/ ~Missing(cm) /\ mine /\ Mark(e)
  /\ UNCHANGED <<layout, pool, uncommitted, disk, writes, cl, log, fl, owner,
                 exposed>>

-----------------------------------------------------------------------------
(* The flush thread and the write thread                                   *)

UpTo(pages, p) == Cardinality({q \in pages : q <= p})
Blocks(pages) == [i \in 1..Cardinality(pages) |->
                    LET p == CHOOSE q \in pages : UpTo(pages, q) = i
                    IN [page |-> p, block |-> block[p]]]

\* flush_all with nothing dirty: the evicted blocks go.
FlushNothing ==
  /\ fl.pc = "idle" /\ dirty = {} /\ left.flushes > 0
  /\ left' = [left EXCEPT !.flushes = @ - 1]
  /\ evicted' = {}
  /\ UNCHANGED <<layout, cached, block, dirty, undoVars, uncommitted, disk, writes, cl, log,
                 cm, fl, owner, exposed>>

Unfit == {p \in dirty : ~BlockFits(block[p])}

\* flush_all: every dirty block is sent, in the order of the indexes.
FlushAll ==
  /\ fl.pc = "idle" /\ dirty # {} /\ Unfit = {} /\ left.flushes > 0
  /\ left' = [left EXCEPT !.flushes = @ - 1]
  /\ writes' = writes \o Blocks(dirty)
  /\ fl' = [pc |-> "wait", cover |-> {block[p].data : p \in dirty} \ {0}]
  /\ dirty' = {} /\ evicted' = {}
  /\ UNCHANGED <<layout, cached, block, undoVars, uncommitted, disk, cl, log, cm, owner,
                 exposed>>

\* flush_all that meets a block it cannot serialize: the marks are drained, an
\* evicted block is already out of its map, the blocks before it are sent.
FlushFail ==
  /\ fl.pc = "idle" /\ Unfit # {} /\ left.flushes > 0
  /\ left' = [left EXCEPT !.flushes = @ - 1]
  /\ \E p \in Unfit :
       /\ \A q \in Unfit : p <= q
       /\ writes' = writes \o Blocks({q \in dirty : q < p})
       /\ evicted' = evicted \ {q \in dirty : q <= p}
       /\ exposed' = exposed \cup {q \in dirty : q >= p}
  /\ dirty' = {}
  /\ UNCHANGED <<layout, cached, block, undoVars, uncommitted, disk, cl, log, cm, fl, owner>>

WriteBlock ==
  /\ writes # <<>>
  /\ LET w == Head(writes) IN
       \/ disk' = [disk EXCEPT ![w.page] = w.block] /\ UNCHANGED <<exposed, left>>
       \/ exposed' = exposed \cup {w.page} /\ Fail /\ UNCHANGED disk
  /\ writes' = Tail(writes)
  /\ UNCHANGED <<layout, pool, undoVars, uncommitted, cl, log, cm, fl, owner>>

\* Mutant: the results are not waited for.
FlushHasty ==
  /\ fl.pc = "wait"
  /\ \/ fl' = [fl EXCEPT !.pc = "synced"] /\ UNCHANGED left
     \/ fl' = [pc |-> "idle", cover |-> {}] /\ Fail
  /\ UNCHANGED <<layout, pool, undoVars, uncommitted, disk, writes, cl, log, cm, owner,
                 exposed>>

\* The results of the writes are dropped; the fsync's is looked at.
FlushSync ==
  /\ fl.pc = "wait" /\ writes = <<>>
  /\ \/ fl' = [fl EXCEPT !.pc = "synced"] /\ UNCHANGED left
     \/ fl' = [pc |-> "idle", cover |-> {}] /\ Fail
  /\ UNCHANGED <<layout, pool, undoVars, uncommitted, disk, writes, cl, log, cm, owner,
                 exposed>>

FlushAnswer ==
  /\ fl.pc = "synced"
  /\ fl' = [pc |-> "idle", cover |-> {}]
  /\ UNCHANGED <<layout, pool, undoVars, uncommitted, disk, writes, cl, log, cm, owner,
                 exposed, left>>

-----------------------------------------------------------------------------
Cursor(c) ==
  \/ Begin(c) \/ Commit(c) \/ Abandon(c)
  \/ \E p \in left.pages : Get(c, p) \/ Insert(c, p)
  \/ GetRead(c) \/ GetFill(c) \/ Walk(c) \/ End(c)
  \/ InsertRead(c) \/ InsertUndo(c) \/ InsertNew(c) \/ InsertMark(c)

CommitThread == CommitTake \/ CommitPage \/ CommitRead \/ CommitFill \/ CommitWalk
FlushThread == FlushNothing \/ FlushAll \/ FlushFail \/ FlushSync \/ FlushAnswer

\* Every transaction is over and the threads have nothing to do.
Quiescent ==
  /\ left.tx = 0 /\ \A c \in Clients : cl[c].tx = 0
  /\ commits = <<>> /\ ~Committing /\ writes = <<>> /\ fl.pc = "idle"
  /\ UNCHANGED vars

Next == (\E c \in Clients : Cursor(c)) \/ CommitThread \/ FlushThread \/ WriteBlock
        \/ Quiescent

Spec == Init /\ [][Next]_vars

-----------------------------------------------------------------------------
(* Properties                                                              *)

\* Nothing is written for the None of a block or an undo log, and the byte read
\* back in its place is the first one of the data, 1 in a page that was ever
\* written: only a page of zeros may be without an undo log, whatever was
\* cached, committed, flushed, evicted and read again.
NoneReadsBack ==
  /\ \A p \in Pages : block[p].undo = 0 => block[p].data = 0
  /\ \A p \in Pages : disk[p].undo = 0 => disk[p].data = 0
  /\ \A i \in DOMAIN undo : undo[i].undo = 0 => undo[i].data = 0

\* The cache and the evicted blocks are apart, the cache stays below its
\* limit, and a dirty mark always has its block: none is left for flush_all to
\* skip in silence.
DirtyIsHeld ==
  /\ dirty \subseteq Held /\ ToSet(cached) \cap evicted = {}
  /\ Len(cached) < MaxCacheSize
  /\ \A i, j \in DOMAIN cached : cached[i] = cached[j] => i = j

\* What may be dropped from memory is on disk or on its way, unless the code
\* lost it before: between eviction, flush and reload no version goes missing.
CleanIsWritten ==
  \A p \in Held \ (dirty \cup exposed) : block[p].data = LastWritten(p)

\* The newest version of p that a snapshot must show.
Committed(p, snap) ==
  {v \in DOMAIN owner : owner[v].page = p /\ commitAt[owner[v].tx] \in 1..snap}

\* A get that returns Ok shows the newest version its snapshot covers, or a
\* newer one that is not committed: neither reloads, nor undo chains, nor the
\* late commit thread hide a committed version, but on the pages exposed by a
\* fill or an insertion that overtook another, a failed flush or a failed write.
SnapshotSeesCommitted ==
  \A c \in Clients : cl[c].pc = "done" /\ cl[c].page \notin exposed =>
    \A v \in Committed(cl[c].page, cl[c].snap) : v <= cl[c].got.data

Falls(w, x) ==
  w.pc = "walk" /\ x.pc = "walk" =>
    x.cur < w.cur \/ (w.cur # w.first /\ Places(w.cur) = {})

\* Each turn of a search in the undo logs goes on to an older one, whatever is
\* appended, marked and evicted meanwhile, or the search is over.  The turn that
\* brings it back is the code's: it is past the first log of its chain, at one
\* that is not cached, and reads the first one again.
WalkDescends ==
  [][ /\ CommitWalk => Falls(cm, cm')
      /\ \A c \in Clients : Walk(c) => Falls(cl[c], cl'[c])]_vars

\* When flush_all answers, the checkpoint may forget the log of what was dirty
\* when it began: each of those versions, or a later one, is in data.db.
FlushIsSafe ==
  fl.pc = "synced" =>
    \A v \in fl.cover : owner[v].page \in exposed \/ v <= disk[owner[v].page].data

\* Blocks and undo logs are made to fit the pages they are written to: BLOCK_SIZE
\* and UNDO_PAGE_SIZE leave 24 and 32 bytes for their headers.
HeadersFit ==
  /\ \A p \in dirty : BlockFits(block[p])
  /\ \A c \in Clients : cl[c].pc = "append" => UndoFits(cl[c].got)
=============================================================================
