------------------------------- MODULE Engine -------------------------------
(***************************************************************************)
(* engine.rs: the log, the buffer pool and the page allocator put         *)
(* together, from one start of the engine to the next.  What a crash at    *)
(* any point, or a drop of the engine, leaves on disk and what replay      *)
(* makes of it; and the order in which the drop closes the threads, while  *)
(* cursors, which hold the components themselves, go on.                   *)
(*                                                                         *)
(* Each component has a module of its own, and only what the others need   *)
(* of it is here.  A version of a page is a number, in the order in which  *)
(* versions enter the cache (BufferPool).  The log is the sequence of      *)
(* transactions and checkpoint marks in the order of their records, the    *)
(* oldest of which may have been written over: by the ring, and after a    *)
(* start, which goes on at its oldest page.  The log buffer stays below    *)
(* its limit, so the records of a transaction come in one batch with its   *)
(* commit (WriteAheadLog has more).  A background thread is a queue and a  *)
(* flag that says whether an OS thread serves it (BackgroundThread); the   *)
(* flag of a file is that of the thread that writes it: a write is         *)
(* answered by a batch of a thread that lives (Finder).  No call fails.    *)
(***************************************************************************)
EXTENDS Integers, Sequences, FiniteSets, SequencesExt

CONSTANTS
  Clients,          \* threads with a cursor
  Checkpointer,     \* the checkpoint thread, as a sender to the io thread
  MaxPages,         \* bound: page indexes
  CheckpointCount,  \* records after which the io thread asks for a checkpoint
  Budgets           \* bounds, one of which an execution takes

BootRecords == 2    \* Start and Commit of the transaction of bootstrap

ASSUME CheckpointerAssumption == Checkpointer \notin Clients
ASSUME CountAssumption == CheckpointCount \in Nat /\ CheckpointCount >= BootRecords
ASSUME PagesAssumption == MaxPages \in Nat \ {0}

Pages == 0..(MaxPages - 1)
\* The threads of the log and of the pool that a drop closes, and those that
\* nothing closes: the flush of the pool, which the work of the checkpoint thread
\* owns, and the thread that asked for the length of data.db.  The other threads
\* of data.db, which read and sync it, are beside the one that writes it.
Closed == {"io", "checkpoint", "commit", "write"}
Unclosed == {"flush", "meta"}
Files == {"wal", "undo", "data"}
Threads == Closed \cup Unclosed \cup Files \cup {"beside"}

\* Mutants: a thread is closed before the one that asks it, a file before the
\* thread that writes it.
DropOrderIoFirst ==
  <<"send", "commit", "io", "checkpoint", "wal", "write", "undo", "data">>
DropOrderFileFirst ==
  <<"send", "commit", "checkpoint", "wal", "io", "write", "undo", "data">>

\* Engine::drop, call by call; the defragmentation thread is never spawned.
DropOrder == <<"send", "commit", "checkpoint", "io", "wal", "write", "undo", "data">>

VARIABLES
  cl,          \* per client: pc, its transaction, the page it writes
  lastTx,      \* transactions begun
  owner,       \* per version: its page and its transaction
  cache,       \* per page: the newest version, as a cursor reads it
  dirty,       \* CacheStorageCore::dirty
  last_index,  \* FreeList::last_index
  disk,        \* per page: the version in data.db, 0 for none
  log,         \* wal.db: transactions, 0 for a checkpoint mark
  gone,        \* the first of them, whose records were written over
  ioq, io,     \* the channel of the io thread, and its request
  counter,     \* its `counter`
  ckq, ck,     \* requests to the checkpoint thread, and where it is
  writes,      \* the channel of the write thread of the pool
  writing,     \* it waits for data.db
  commits,     \* the channel of the commit thread
  up,          \* per thread and file: an OS thread serves it
  drop,        \* the call of DropOrder under way, 0 before the drop
  joining,     \* that call is a close that holds the mutex over the join
  acked,       \* history: transactions whose commit returned Ok
  since,       \* history: those that wrote a page since the drain of dirty
  exposed,     \* history: wrote between a drain and the mark after it, or was
               \* written over in wal.db before a mark
  early,       \* history: flushed before their commit was in the log
  clash,       \* history: wrote a page that another open one had written
  late,        \* history: a cursor made a call during or after the drop
  short,       \* history: a restart found data.db shorter than the log
  left         \* what is left of the bounds

cursorVars == <<cl, lastTx, owner, cache, last_index>>
logVars == <<log, gone, ioq, io, counter>>
flushVars == <<disk, writes, writing>>
dropVars == <<drop, joining>>
history == <<acked, since, exposed, early, clash, late, short>>
vars == <<cursorVars, dirty, logVars, ckq, ck, flushVars, commits, up, dropVars, history, left>>

Tx == 1..lastTx
VersionsOf(t) == {v \in DOMAIN owner : owner[v].tx = t}
Newest(S) == CHOOSE v \in S : \A w \in S : w <= v

NoCall == [pc |-> "idle", tx |-> 0, page |-> 0]
NoRequest == [pc |-> "recv", from |-> Checkpointer, tx |-> 0]
Booted == [t \in Threads |-> t \notin {"checkpoint", "write", "flush", "data"}]

Init ==
  /\ cl = [c \in Clients |-> NoCall] /\ lastTx = 0
  /\ owner = <<>> /\ cache = [p \in Pages |-> 0] /\ dirty = {}
  /\ last_index = 1 /\ disk = [p \in Pages |-> 0]
  /\ log = <<>> /\ gone = 0 /\ ioq = <<>> /\ io = NoRequest /\ counter = BootRecords
  /\ ckq = 0 /\ ck = "idle" /\ writes = <<>> /\ writing = FALSE /\ commits = <<>>
  /\ up = Booted /\ drop = 0 /\ joining = FALSE
  /\ acked = {} /\ since = {} /\ exposed = {} /\ early = {} /\ clash = {}
  /\ late = FALSE /\ short = FALSE
  /\ left \in Budgets

\* A request spawns the thread that is not there, unless a close holds the mutex.
Spawned(S) == up' = [t \in DOMAIN up |-> up[t] \/ t \in S]
Locked(t) == joining /\ DropOrder[drop] = t
Ended == Len(DropOrder) + 1

\* The mutex of the cache is held while `write` is closed.
CacheFree == ~Locked("write")

-----------------------------------------------------------------------------
(* Cursors                                                                 *)

Set(c, pc, page) == cl' = [cl EXCEPT ![c] = [@ EXCEPT !.pc = pc, !.page = page]]
Called == late' = (late \/ drop > 0)

\* The engine is dropped by its last owner: nobody asks it for a cursor then.
Begin(c) ==
  /\ cl[c].pc = "idle" /\ drop = 0 /\ left.tx > 0
  /\ left' = [left EXCEPT !.tx = @ - 1]
  /\ lastTx' = lastTx + 1
  /\ cl' = [cl EXCEPT ![c] = [NoCall EXCEPT !.pc = "open", !.tx = lastTx + 1]]
  /\ UNCHANGED <<owner, cache, last_index, dirty, logVars, ckq, ck, flushVars, commits, up,
                 dropVars, history>>

\* A block that is not in the cache is read from data.db, for a write as well.
Read(c) ==
  /\ cl[c].pc = "open" /\ CacheFree
  /\ Spawned({"beside"}) /\ Called
  /\ UNCHANGED <<cursorVars, dirty, logVars, ckq, ck, flushVars, commits, dropVars, acked,
                 since, exposed, early, clash, short, left>>

\* CursorWriter::update, up to the write of the undo log.
Update(c, p) ==
  /\ cl[c].pc = "open" /\ left.writes > 0 /\ (p < last_index \/ cache[p] # 0)
  /\ left' = [left EXCEPT !.writes = @ - 1]
  /\ Set(c, "undo", p) /\ Spawned({"undo"}) /\ Called
  /\ UNCHANGED <<lastTx, owner, cache, last_index, dirty, logVars, ckq, ck, flushVars,
                 commits, dropVars, acked, since, exposed, early, clash, short>>

\* CursorWriter::insert likewise: FreeList::acquire gives the page.
Insert(c) ==
  /\ cl[c].pc = "open" /\ left.writes > 0 /\ last_index < MaxPages
  /\ left' = [left EXCEPT !.writes = @ - 1]
  /\ last_index' = last_index + 1
  /\ Set(c, "undo", last_index) /\ Spawned({"undo"}) /\ Called
  /\ UNCHANGED <<lastTx, owner, cache, dirty, logVars, ckq, ck, flushVars, commits,
                 dropVars, acked, since, exposed, early, clash, short>>

\* The open transactions of others that wrote page p.
Overlapped(c, p) ==
  {cl[d].tx : d \in {e \in Clients \ {c} :
     cl[e].pc \in {"open", "undo"} /\ \E v \in VersionsOf(cl[e].tx) : owner[v].page = p}}

\* cache.insert_new, and LogBuffer::append.
Enter(c) ==
  LET p == cl[c].page  t == cl[c].tx  others == Overlapped(c, p) IN
  /\ cl[c].pc = "undo" /\ up["undo"] /\ CacheFree
  /\ owner' = Append(owner, [page |-> p, tx |-> t])
  /\ cache' = [cache EXCEPT ![p] = Len(owner')]
  /\ dirty' = dirty \cup {p}
  /\ Set(c, "open", 0)
  /\ since' = since \cup {t}
  /\ clash' = IF others = {} THEN clash ELSE clash \cup others \cup {t}
  /\ UNCHANGED <<lastTx, last_index, logVars, ckq, ck, flushVars, commits, up, dropVars,
                 acked, exposed, early, late, short, left>>

\* WriteAheadLog::commit: io_c.send_await.
Commit(c) ==
  /\ cl[c].pc = "open" /\ ~Locked("io")
  /\ ioq' = Append(ioq, [from |-> c, tx |-> cl[c].tx])
  /\ Set(c, "await", 0) /\ Spawned({"io"}) /\ Called
  /\ UNCHANGED <<lastTx, owner, cache, last_index, dirty, log, gone, io, counter, ckq, ck,
                 flushVars, commits, dropVars, acked, since, exposed, early, clash, short,
                 left>>

\* A cursor dropped without a commit: what it wrote stays in the cache.
Abandon(c) ==
  /\ cl[c].pc = "open"
  /\ cl' = [cl EXCEPT ![c] = NoCall]
  /\ UNCHANGED <<lastTx, owner, cache, last_index, dirty, logVars, ckq, ck, flushVars,
                 commits, up, dropVars, history, left>>

-----------------------------------------------------------------------------
(* The io thread                                                           *)

Records(t) == IF t = 0 THEN 1 ELSE 2 + Cardinality(VersionsOf(t))

\* The handler up to the write of its last page: commit_c.send comes before the
\* record is on disk.
IoTake ==
  LET r == Head(ioq) IN
  /\ io.pc = "recv" /\ ioq # <<>>
  /\ r.tx # 0 => ~Locked("commit")
  /\ ioq' = Tail(ioq)
  /\ counter' = counter + Records(r.tx)
  /\ commits' = IF r.tx = 0 THEN commits ELSE Append(commits, r.tx)
  /\ Spawned({"wal"} \cup (IF r.tx = 0 THEN {} ELSE {"commit"}))
  /\ io' = [pc |-> "write", from |-> r.from, tx |-> r.tx]
  /\ UNCHANGED <<cursorVars, dirty, log, gone, ckq, ck, flushVars, dropVars, history, left>>

\* The page that the io thread writes held records of an earlier round, or of
\* before the start: it goes from page to page, the oldest first.
IoOverwrite ==
  /\ io.pc = "write" /\ up["wal"]
  /\ gone' \in gone + 1..Len(log)
  /\ UNCHANGED <<cursorVars, dirty, log, ioq, io, counter, ckq, ck, flushVars, commits, up,
                 dropVars, history, left>>

\* A mark in the log ends the replay of the transactions before it: those that
\* wrote after the drain it stands for are exposed.
Logged(lg) == ToSet(lg) \ {0}
Passed(lg, t) == IF t = 0 THEN since \cap Logged(lg) ELSE {}

\* done.send: the cursor's commit returns, or the checkpoint thread goes on.
Answer ==
  /\ io' = NoRequest
  /\ IF io.from = Checkpointer
     THEN ck' = "idle" /\ UNCHANGED <<cl, acked>>
     ELSE cl' = [cl EXCEPT ![io.from] = NoCall] /\ acked' = acked \cup {io.tx} /\ UNCHANGED ck

IoWritten ==
  /\ io.pc = "write" /\ up["wal"]
  /\ log' = Append(log, io.tx)
  /\ exposed' = exposed \cup Passed(log, io.tx)
  /\ IF counter > CheckpointCount
     THEN io' = [io EXCEPT !.pc = "signal"] /\ UNCHANGED <<cl, ck, acked>>
     ELSE Answer
  /\ UNCHANGED <<lastTx, owner, cache, last_index, dirty, gone, ioq, counter, ckq,
                 flushVars, commits, up, dropVars, since, early, clash, late, short, left>>

\* Mutant: send_await, which returns when the checkpoint is done.
IoSignalAwaits ==
  /\ io.pc = "signal"
  /\ \/ /\ counter > 0 /\ ~Locked("checkpoint")
        /\ ckq' = ckq + 1 /\ counter' = 0 /\ Spawned({"checkpoint"})
        /\ UNCHANGED <<cl, io, ck, acked>>
     \/ /\ counter = 0 /\ ckq = 0 /\ ck = "idle"
        /\ Answer /\ UNCHANGED <<ckq, counter, up>>
  /\ UNCHANGED <<lastTx, owner, cache, last_index, dirty, log, gone, ioq, flushVars,
                 commits, dropVars, since, exposed, early, clash, late, short, left>>

IoSignal ==
  /\ io.pc = "signal" /\ ~Locked("checkpoint")
  /\ ckq' = ckq + 1 /\ counter' = 0
  /\ Answer /\ Spawned({"checkpoint"})
  /\ UNCHANGED <<lastTx, owner, cache, last_index, dirty, log, gone, ioq, flushVars,
                 commits, dropVars, since, exposed, early, clash, late, short, left>>

-----------------------------------------------------------------------------
(* The checkpoint thread, the flush and the write thread of the pool, the  *)
(* commit thread                                                           *)

\* A request, or the interval of a thread that lives and is not being closed.
CkRequest == ckq > 0 /\ ckq' = ckq - 1
CkTimer == ckq = 0 /\ up["checkpoint"] /\ ~Locked("checkpoint") /\ UNCHANGED ckq

\* flush_all finds nothing dirty: data.db is synced, and no mark follows.
CkNothing ==
  /\ ck = "idle" /\ dirty = {} /\ CacheFree /\ CkRequest
  /\ Spawned({"flush", "beside"})
  /\ UNCHANGED <<cursorVars, dirty, logVars, ck, flushVars, commits, dropVars, history,
                 left>>

\* The dirty pages in their order, each with its block.
UpTo(p) == Cardinality({q \in dirty : q <= p})
Blocks == [i \in 1..Cardinality(dirty) |->
             LET p == CHOOSE q \in dirty : UpTo(q) = i IN [page |-> p, version |-> cache[p]]]

\* flush_all: the dirty blocks go to the write thread, committed or not.
CkDrain ==
  /\ ck = "idle" /\ dirty # {} /\ CacheFree
  /\ writes' = writes \o Blocks /\ dirty' = {} /\ ck' = "wait"
  /\ Spawned({"flush", "write"})
  /\ since' = {}
  /\ early' = early \cup ({owner[cache[p]].tx : p \in dirty} \ Logged(log))
  /\ UNCHANGED <<cursorVars, logVars, disk, writing, commits, dropVars, acked, exposed,
                 clash, late, short, left>>

WriteBegin ==
  /\ writes # <<>> /\ ~writing
  /\ writing' = TRUE /\ Spawned({"data"})
  /\ UNCHANGED <<cursorVars, dirty, logVars, ckq, ck, disk, writes, commits, dropVars,
                 history, left>>

WriteEnd ==
  /\ writing /\ up["data"]
  /\ disk' = [disk EXCEPT ![Head(writes).page] = Head(writes).version]
  /\ writes' = Tail(writes) /\ writing' = FALSE /\ Spawned({"beside"})
  /\ UNCHANGED <<cursorVars, dirty, logVars, ckq, ck, commits, dropVars, history, left>>

Mark ==
  /\ ~Locked("io")
  /\ ioq' = Append(ioq, [from |-> Checkpointer, tx |-> 0])
  /\ ck' = "await" /\ Spawned({"beside", "io"})
  /\ UNCHANGED <<cursorVars, dirty, log, gone, io, counter, ckq, flushVars, commits, dropVars,
                 history, left>>

\* Mutant: the checkpoint does not wait for the write thread.
CkHasty == ck = "wait" /\ Mark

\* The results are in and data.db is synced: the mark goes to the io thread.
CkFlushed == ck = "wait" /\ writes = <<>> /\ Mark

\* The commit thread marks blocks in the cache, which it may have to read back, or
\* undo logs of older versions.
CommitTake ==
  LET t == Head(commits) IN
  /\ commits # <<>> /\ CacheFree
  /\ commits' = Tail(commits)
  /\ \E r \in SUBSET {"beside"} :
       Spawned(r \cup IF \E v \in VersionsOf(t) : cache[owner[v].page] > v THEN {"undo"} ELSE {})
  /\ UNCHANGED <<cursorVars, dirty, logVars, ckq, ck, flushVars, dropVars, history, left>>

-----------------------------------------------------------------------------
(* The drop of the engine                                                  *)

Dropping == drop \in DOMAIN DropOrder
Calls(step) == Dropping /\ DropOrder[drop] = step

DropBegin ==
  /\ drop = 0 /\ left.drops > 0
  /\ left' = [left EXCEPT !.drops = @ - 1]
  /\ drop' = 1
  /\ late' = \E c \in Clients : cl[c].pc \in {"undo", "await"}
  /\ UNCHANGED <<cursorVars, dirty, logVars, ckq, ck, flushVars, commits, up, joining, acked,
                 since, exposed, early, clash, short>>

\* Mutant: no checkpoint before the closes.
DropSendNot ==
  /\ Calls("send")
  /\ drop' = drop + 1
  /\ UNCHANGED <<cursorVars, dirty, logVars, ckq, ck, flushVars, commits, up, joining, history,
                 left>>

DropSend ==
  /\ Calls("send")
  /\ ckq' = ckq + 1 /\ Spawned({"checkpoint"})
  /\ drop' = drop + 1
  /\ UNCHANGED <<cursorVars, dirty, logVars, ck, flushVars, commits, joining, history, left>>

\* BackgroundThread::close: the sender is dropped, the mutex held.
DropClose ==
  /\ ~joining /\ \E t \in Closed : Calls(t)
  /\ joining' = TRUE
  /\ UNCHANGED <<cursorVars, dirty, logVars, ckq, ck, flushVars, commits, up, drop, history,
                 left>>

Drained(t) ==
  CASE t = "io" -> io.pc = "recv" /\ ioq = <<>>
    [] t = "checkpoint" -> ck = "idle" /\ ckq = 0
    [] t = "commit" -> commits = <<>>
    [] t = "write" -> writes = <<>>

\* The thread has served its queue and ends; the join returns.
DropJoined ==
  /\ \E t \in Closed : Locked(t) /\ Drained(t) /\ up' = [up EXCEPT ![t] = FALSE]
  /\ joining' = FALSE /\ drop' = drop + 1
  /\ UNCHANGED <<cursorVars, dirty, logVars, ckq, ck, flushVars, commits, history, left>>

\* Finder::close joins threads that do not wait for a batch: a write that is
\* not answered yet stays so until another call spawns the thread again.
DropFile ==
  /\ \E f \in Files :
       /\ Calls(f)
       /\ up' = [t \in Threads |-> up[t] /\ t # f /\ ~(f = "data" /\ t = "beside")]
  /\ drop' = drop + 1
  /\ UNCHANGED <<cursorVars, dirty, logVars, ckq, ck, flushVars, commits, joining, history,
                 left>>

-----------------------------------------------------------------------------
(* A crash, or the end of the process, and the next start                  *)

\* What wal.db may hold: a page write under way is there or not.
Images == {log} \cup (IF io.pc = "write" THEN {Append(log, io.tx)} ELSE {})

\* Transactions after the last mark, by their place in the log: those replay
\* brings back, and those whose records are no longer there for it.
Unmarked(lg) == {i \in DOMAIN lg : lg[i] # 0 /\ \A m \in DOMAIN lg : lg[m] = 0 => m < i}
Live(lg) == {i \in Unmarked(lg) : i > gone}
Adrift(lg) == {lg[i] : i \in Unmarked(lg) \ Live(lg)}

\* WriteAheadLog::replay: the inserts of committed transactions, in the order of
\* the log, whatever order they had in the cache.
Replayed(lg, p) ==
  LET on(t) == {v \in VersionsOf(t) : owner[v].page = p}
      at == {i \in Live(lg) : on(lg[i]) # {}}
  IN  IF at = {} THEN 0 ELSE Newest(on(lg[Newest(at)]))

Recovered(lg) == [p \in Pages |-> IF Replayed(lg, p) = 0 THEN disk[p] ELSE Replayed(lg, p)]

\* Mutant: an index instead of a count.
FileLengthShort == Newest({0} \cup {p \in Pages : disk[p] # 0})

\* Finder::len, read by FreeList::new before the log is replayed.
FileLength == Newest({1} \cup {p + 1 : p \in {q \in Pages : disk[q] # 0}})

\* The commit of bootstrap is written to the oldest page of wal.db at once, over
\* what that page held; the checkpoint that replay asks for is lost.
Restart ==
  /\ left.crashes > 0
  /\ left' = [left EXCEPT !.crashes = @ - 1]
  /\ \E image \in Images :
       /\ log' = image
       /\ cache' = Recovered(image)
       /\ dirty' = {p \in Pages : Replayed(image, p) # 0}
       /\ gone' \in gone..Len(image)
       /\ exposed' = exposed \cup Adrift(image)
                     \cup (IF image = log THEN {} ELSE Passed(log, io.tx))
  /\ last_index' = FileLength
  /\ short' = (short \/ \E p \in dirty' : p >= FileLength)
  /\ cl' = [c \in Clients |-> NoCall]
  /\ ioq' = <<>> /\ io' = NoRequest /\ counter' = BootRecords
  /\ ckq' = 0 /\ ck' = "idle" /\ writes' = <<>> /\ writing' = FALSE /\ commits' = <<>>
  /\ up' = Booted /\ drop' = 0 /\ joining' = FALSE
  /\ since' = {} /\ late' = FALSE
  /\ UNCHANGED <<lastTx, owner, disk, acked, early, clash>>

-----------------------------------------------------------------------------
Cursor(c) ==
  \/ Begin(c) \/ Read(c) \/ (\E p \in Pages : Update(c, p)) \/ Insert(c) \/ Enter(c)
  \/ Commit(c) \/ Abandon(c)

Io == IoTake \/ IoWritten \/ IoSignal
Checkpoint == CkNothing \/ (CkRequest /\ CkDrain) \/ CkFlushed
Write == WriteBegin \/ WriteEnd
Dropper == DropSend \/ DropClose \/ DropJoined \/ DropFile

\* checkpoint_c.close joins a thread that waits for the io thread, which waits
\* for the mutex that close holds.
Knot == Locked("checkpoint") /\ ck = "await" /\ io.pc = "signal"

\* The io thread waits for a write that no thread of wal.db is left to answer.
Stranded == io.pc = "write" /\ ~up["wal"]

\* Everything is done, or can never be.
Rest ==
  /\ left.tx = 0 \/ drop > 0
  /\ drop \in {0, Ended} \/ Knot
  /\ \A c \in Clients : cl[c].pc = "idle" \/ Knot \/ Stranded
                        \/ (cl[c].pc = "undo" /\ ~up["undo"])
  /\ UNCHANGED vars

Next ==
  \/ \E c \in Clients : Cursor(c)
  \/ Io \/ IoOverwrite \/ Checkpoint \/ (CkTimer /\ CkDrain) \/ Write \/ CommitTake
  \/ DropBegin \/ Dropper \/ Restart \/ Rest

Spec == Init /\ [][Next]_vars

\* The threads run, and so does the one that drops the engine; a cursor that has
\* its undo log written goes on.  Nobody has to call, and no timer to run out.
FairSpec ==
  /\ Spec
  /\ WF_vars(Io) /\ WF_vars(Checkpoint) /\ WF_vars(Write) /\ WF_vars(CommitTake)
  /\ WF_vars(Dropper) /\ \A c \in Clients : WF_vars(Enter(c))

-----------------------------------------------------------------------------
(* Properties                                                              *)

\* Whatever wal.db and data.db hold at a crash, a restart brings a transaction
\* back whole if its commit was ever written to the log, as it was for every
\* acknowledged one, and brings back nothing of the others.  The exceptions are
\* the code's: one that wrote between a flush and the mark that follows it
\* (exposed), whose records were written over before a mark followed them, by the
\* ring or by the commit of a bootstrap (Adrift, exposed after a restart), that
\* overlapped another on a page (clash), or was flushed before it committed
\* (early).
RestartIsWhole ==
  \A image \in Images :
    LET found == Recovered(image)
        passed == exposed \cup clash \cup Adrift(image)
                  \cup (IF image = log THEN {} ELSE Passed(log, io.tx))
    IN  \A t \in Tx \ passed :
          /\ t \in acked => t \in Logged(image)
          /\ \A v \in VersionsOf(t) :
               IF t \in Logged(image) THEN found[owner[v].page] >= v
               ELSE t \in early \/ found[owner[v].page] # v

\* The allocator never hands out a page that has a version, over restarts too,
\* unless a restart found pages in the log that data.db does not reach.
AllocatedOnce ==
  [][last_index' = last_index + 1 => short \/ cache[last_index] = 0]_vars

\* A drop that no cursor interferes with loses nothing: the next start finds the
\* pages as the last cursor saw them, also those an earlier crash would have
\* lost, unless transactions overlapped on a page.
DropKeepsPages ==
  drop = Ended /\ ~late /\ clash = {} => Recovered(log) = cache

\* The closes are in an order in which no thread that is closed is asked for
\* again, unless by a cursor that outlived the engine: when the drop has ended the
\* threads that nothing closes run, these two after every drop, and no other.
OnlyUnclosedLeft ==
  drop = Ended /\ ~late => {t \in Threads : up[t]} = Unclosed /\ ioq = <<>> /\ ckq = 0

\* A drop ends, whatever cursors do meanwhile, but for the one knot.
ShutdownEnds == drop > 0 ~> drop \in {0, Ended} \/ Knot

\* Every commit is answered, across the mutual calls of the io and checkpoint
\* threads and across a drop, but for the knot and a write stranded by a close.
CommitsAnswered ==
  \A c \in Clients : cl[c].pc = "await" ~> cl[c].pc # "await" \/ Knot \/ Stranded
=============================================================================
