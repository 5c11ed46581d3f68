---------------------------- MODULE WriteAheadLog ----------------------------
(***************************************************************************)
(* The write-ahead log: the log buffer shared by the transactions          *)
(* (wal/buffer.rs), the "wal io" thread that gives records their index and *)
(* writes 16 KiB entries into a ring of pages, the "wal checkpoint" thread *)
(* and the replay that rebuilds the committed work after a restart         *)
(* (wal/wal.rs, wal/record.rs).                                            *)
(*                                                                         *)
(* Clients are threads that each run one transaction at a time.  A lock,   *)
(* a channel send and a disk write are separate steps wherever the code    *)
(* releases one before it takes the next.  Page contents are abstracted to *)
(* the ordinal of the insert in its transaction.                           *)
(***************************************************************************)
EXTENDS Integers, FiniteSets, Sequences, SequencesExt

CONSTANTS
    Clients,          \* threads that run transactions
    Checkpointer,     \* the checkpoint thread, as the sender of a request
    MaxFileSize,      \* pages of the ring: config.max_file_size / WAL_PAGE_SIZE
    EntryLimit,       \* WAL_PAGE_SIZE - 30, in units of record size
    RecordSize,       \* LogRecord::size by kind of operation
    MaxBufferSize,    \* config.max_buffer_size, in units of record size
    CheckpointCount,  \* config.checkpoint_count
    MaxTx,            \* bound: transaction ids given out
    MaxWrites,        \* bound: inserts of one transaction
    MaxCheckpoints,   \* bound: checkpoints whose flush found dirty blocks
    MaxCrashes,       \* bound: restarts
    MaxFailures       \* bound: disk writes that return an error

Operations == {"start", "insert", "commit", "checkpoint"}

ASSUME SendersDiffer == Checkpointer \notin Clients
ASSUME RingNotEmpty == MaxFileSize \in Nat \ {0}
ASSUME SizesNatural == RecordSize \in [Operations -> Nat]
ASSUME BoundsNatural ==
    /\ EntryLimit \in Nat /\ MaxBufferSize \in Nat /\ CheckpointCount \in Nat
    /\ MaxTx \in Nat /\ MaxWrites \in Nat /\ MaxCheckpoints \in Nat
    /\ MaxCrashes \in Nat /\ MaxFailures \in Nat

Tx == 1..MaxTx
Pages == 0..MaxFileSize - 1

\* A log record.  n is the ordinal of an insert, the applied index of a
\* checkpoint.  A record has index 0 until the io thread assigns one.
Record == [index : Nat, tx : 0..MaxTx, op : Operations, n : Nat]
Rec(t, o, k) == [index |-> 0, tx |-> t, op |-> o, n |-> k]

\* The records a request carries, by transaction: the vector the code sends is
\* this map flattened in the order of the ids, 0 being a checkpoint's id.
Batches == [0..MaxTx -> Seq(Record)]
NoBatch == [t \in 0..MaxTx |-> <<>>]

VARIABLES
    lastTx, logs, size,             \* LogBufferCore
    pc, op, tx, hand,               \* the clients: where they are, what they do
    ioq,                            \* the channel of the io thread
    ioPc, ioFrom, batch, current, cursor, counter, lastIndex,  \* the io thread
    ckPc, ckq, ckIndex, checkpoints,  \* the checkpoint thread, its channel, and
                                    \* the index its flush will answer
    wal,                            \* the file: one sequence of records a page
    commitAt,   \* index announced for a commit in this lifetime, 0 for none
    snapOf,     \* snapshot a transaction of this lifetime reads at, or -1
    writes,     \* inserts made by a transaction
    asked,      \* inserts it had made when its commit was first asked for, or -1
    ackedNow,   \* transactions whose commit returned Ok in this lifetime
    acked,      \* the same, over every lifetime
    exposed,    \* transactions whose records were reordered, lost or recycled, or
                \* whose pages a failed flush forgot
    drained,    \* inserts made when the last flush took the dirty pages
    covered,    \* inserts made when the last flush that succeeded took them
    forgotten,  \* transactions a restart did not bring back (Straddling)
    crashes, failures

bufferVars == <<lastTx, logs, size>>
clientVars == <<pc, op, tx, hand>>
ioVars == <<ioPc, ioFrom, batch, current, cursor, counter, lastIndex>>
ckVars == <<ckPc, ckq, ckIndex, checkpoints>>
coverage == <<drained, covered, forgotten>>
history == <<commitAt, snapOf, writes, asked, ackedNow, acked, exposed, coverage>>
vars == <<bufferVars, clientVars, ioq, ioVars, ckVars, wal, history,
          crashes, failures>>

------------------------------------------------------------------------------
(* Sizes and contents.                                                     *)

\* Sum of LogRecord::size over a sequence of records, kind by kind.
KindSize(s, o) == RecordSize[o] * Cardinality({i \in DOMAIN s : s[i].op = o})
SizeOf(s) == KindSize(s, "start") + KindSize(s, "insert")
             + KindSize(s, "commit") + KindSize(s, "checkpoint")

\* LogEntry::is_available
IsAvailable(entry, r) == SizeOf(entry) + RecordSize[r.op] <= EntryLimit

RecordCount(b) == Cardinality({e \in (0..MaxTx) \X (1..MaxWrites + 2) :
                                   e[2] <= Len(b[e[1]])})
IsEmpty(b) == \A t \in 0..MaxTx : b[t] = <<>>
IsFirst(b, t) == b[t] # <<>> /\ \A u \in 0..MaxTx : b[u] # <<>> => t <= u

RecordsOn(disk) == UNION {ToSet(disk[p]) : p \in Pages}
TxsIn(records) == {r.tx : r \in records} \ {0}

------------------------------------------------------------------------------
(* Replay.                                                                 *)

\* A page whose record has a lower index than the record read before it.
Drops(disk) ==
    {p \in Pages : \E q \in 0..p : \E i \in DOMAIN disk[p], j \in DOMAIN disk[q] :
        /\ disk[p][i].index < disk[q][j].index
        /\ IF q = p THEN j = i - 1
           ELSE /\ i = 1 /\ j = Len(disk[q])
                /\ \A m \in q + 1..p - 1 : disk[m] = <<>>}

IsReplayCursor(disk, p) ==
    IF Drops(disk) = {} THEN p = 0
    ELSE p \in Drops(disk) /\ \A q \in Drops(disk) : q <= p

\* Mutant: the checkpoint forgets to clear committed.
ReplayRecordKeepsCommitted(s, r) ==
    CASE r.op = "start" -> [s EXCEPT !.started = @ \cup {r.tx}]
      [] r.op = "commit" ->
           [s EXCEPT !.started = @ \ {r.tx},
                     !.committed = IF r.tx \in s.started THEN @ \cup {r.tx} ELSE @]
      [] r.op = "checkpoint" ->
           [s EXCEPT !.started = {}, !.inserts = {e \in @ : e.index >= r.n}]
      [] r.op = "insert" -> [s EXCEPT !.inserts = @ \cup {r}]

\* One record of the replay loop.  A transaction counts as committed only when
\* its Start was seen, and a checkpoint forgets everything but later inserts.
ReplayRecord(s, r) ==
    CASE r.op = "start" -> [s EXCEPT !.started = @ \cup {r.tx}]
      [] r.op = "commit" ->
           [s EXCEPT !.started = @ \ {r.tx},
                     !.committed = IF r.tx \in s.started THEN @ \cup {r.tx} ELSE @]
      [] r.op = "checkpoint" ->
           [started |-> {}, committed |-> {},
            inserts |-> {e \in s.inserts : e.index >= r.n}]
      [] r.op = "insert" -> [s EXCEPT !.inserts = @ \cup {r}]

\* Mutant: inserts are replayed whether their transaction committed or not.
ReplayedUnfiltered(disk) ==
    {r \in RecordsOn(disk) :
        /\ r.op = "insert"
        /\ \A k \in RecordsOn(disk) : k.op = "checkpoint" => k.index < r.index}

\* The loop over the records of every page, in the order of their indexes.
Replayed(disk) ==
    LET indexes == {r.index : r \in RecordsOn(disk)}
        upTo[i \in {0} \cup indexes] ==
          IF i = 0 THEN [started |-> {}, committed |-> {}, inserts |-> {}]
          ELSE LET before == {j \in {0} \cup indexes : j < i}
               IN  ReplayRecord(upTo[CHOOSE j \in before : \A k \in before : k <= j],
                                CHOOSE r \in RecordsOn(disk) : r.index = i)
        last == CHOOSE j \in {0} \cup indexes : \A k \in indexes : k <= j
    IN  {r \in upTo[last].inserts : r.tx \in upTo[last].committed}

------------------------------------------------------------------------------
(* Clients.                                                                *)

Init ==
    /\ lastTx = 0 /\ logs = NoBatch /\ size = 0
    /\ pc = [c \in Clients |-> "idle"]
    /\ op = [c \in Clients |-> "none"]
    /\ tx = [c \in Clients |-> 0]
    /\ hand = [c \in Clients |-> NoBatch]
    /\ ioq = <<>>
    /\ ioPc = "recv" /\ ioFrom = Checkpointer /\ batch = NoBatch
    /\ current = <<>> /\ cursor = 0 /\ counter = 0 /\ lastIndex = 0
    /\ ckPc = "off" /\ ckq = 0 /\ ckIndex = 0 /\ checkpoints = 0
    /\ wal = [p \in Pages |-> <<>>]
    /\ commitAt = [t \in Tx |-> 0]
    /\ snapOf = [t \in Tx |-> -1]
    /\ writes = [t \in Tx |-> 0] /\ asked = [t \in Tx |-> -1]
    /\ ackedNow = {} /\ acked = {} /\ exposed = {}
    /\ drained = [t \in Tx |-> 0] /\ covered = [t \in Tx |-> 0] /\ forgotten = {}
    /\ crashes = 0 /\ failures = 0

\* WriteAheadLog::new_transaction up to the buffer's unlock.
Begin(c) ==
    /\ pc[c] = "idle" /\ lastTx < MaxTx
    /\ LET t == lastTx + 1 IN
        /\ lastTx' = t
        /\ logs' = [logs EXCEPT ![t] = <<Rec(t, "start", 0)>>]
        /\ size' = size + RecordSize["start"]
        /\ tx' = [tx EXCEPT ![c] = t]
        /\ writes' = [writes EXCEPT ![t] = 0]
        /\ asked' = [asked EXCEPT ![t] = -1]
        /\ acked' = acked \ {t} /\ forgotten' = forgotten \ {t}
        /\ drained' = [drained EXCEPT ![t] = 0] /\ covered' = [covered EXCEPT ![t] = 0]
    /\ pc' = [pc EXCEPT ![c] = "check"]
    /\ op' = [op EXCEPT ![c] = "begin"]
    /\ UNCHANGED <<hand, ioq, ioVars, ckVars, wal, commitAt, snapOf, ackedNow,
                   exposed, crashes, failures>>

\* WriteAheadLog::append up to the buffer's unlock.
Update(c) ==
    LET t == tx[c] IN
    /\ pc[c] = "open" /\ writes[t] < MaxWrites
    /\ logs' = [logs EXCEPT ![t] = Append(@, Rec(t, "insert", writes[t] + 1))]
    /\ size' = size + RecordSize["insert"]
    /\ writes' = [writes EXCEPT ![t] = @ + 1]
    /\ pc' = [pc EXCEPT ![c] = "check"]
    /\ op' = [op EXCEPT ![c] = "insert"]
    /\ UNCHANGED <<lastTx, tx, hand, ioq, ioVars, ckVars, wal, commitAt, snapOf,
                   asked, ackedNow, acked, exposed, coverage, crashes, failures>>

Resume(o) == IF o = "begin" THEN "snapshot" ELSE "open"

\* buffer.len() against max_buffer_size, under a lock of its own.
Check(c) ==
    /\ pc[c] = "check"
    /\ pc' = [pc EXCEPT ![c] = IF size >= MaxBufferSize THEN "flush"
                               ELSE Resume(op[c])]
    /\ UNCHANGED <<bufferVars, op, tx, hand, ioq, ioVars, ckVars, wal, history,
                   crashes, failures>>

\* Another client has taken records of t from the buffer and not sent them yet.
Unsent(c, t) == \E d \in Clients \ {c} : pc[d] = "send" /\ hand[d][t] # <<>>

\* Mutant: the flush does not reset the size.
FlushKeepsSize(c) ==
    /\ pc[c] = "flush"
    /\ hand' = [hand EXCEPT ![c] = logs]
    /\ logs' = NoBatch
    /\ exposed' = exposed \cup {t \in Tx : logs[t] # <<>> /\ Unsent(c, t)}
    /\ pc' = [pc EXCEPT ![c] = "send"]
    /\ UNCHANGED <<lastTx, size, op, tx, ioq, ioVars, ckVars, wal, commitAt, snapOf,
                   writes, asked, ackedNow, acked, coverage, crashes, failures>>

\* buffer.flush(): takes every transaction's records, maybe none.  This client
\* may send them before the one that took earlier records of a transaction.
Flush(c) ==
    /\ pc[c] = "flush"
    /\ hand' = [hand EXCEPT ![c] = logs]
    /\ logs' = NoBatch
    /\ size' = 0
    /\ exposed' = exposed \cup {t \in Tx : logs[t] # <<>> /\ Unsent(c, t)}
    /\ pc' = [pc EXCEPT ![c] = "send"]
    /\ UNCHANGED <<lastTx, op, tx, ioq, ioVars, ckVars, wal, commitAt, snapOf, writes,
                   asked, ackedNow, acked, coverage, crashes, failures>>

\* What buffer.commit takes out: the buffered records, then the commit record.
CommitBatch(t) == [NoBatch EXCEPT ![t] = Append(logs[t], Rec(t, "commit", 0))]

\* buffer.commit(tx_id).  Records of the transaction that another client has
\* flushed but not yet sent will reach the log behind the commit record.
CommitDrain(c) ==
    LET t == tx[c] IN
    /\ pc[c] = "open"
    /\ hand' = [hand EXCEPT ![c] = CommitBatch(t)]
    /\ logs' = [logs EXCEPT ![t] = <<>>]
    /\ size' = size - SizeOf(logs[t])
    /\ exposed' = IF Unsent(c, t) THEN exposed \cup {t} ELSE exposed
    /\ asked' = [asked EXCEPT ![t] = IF @ = -1 THEN writes[t] ELSE @]
    /\ pc' = [pc EXCEPT ![c] = "send"]
    /\ op' = [op EXCEPT ![c] = "commit"]
    /\ UNCHANGED <<lastTx, tx, ioq, ioVars, ckVars, wal, commitAt, snapOf, writes,
                   ackedNow, acked, coverage, crashes, failures>>

\* io_c.send_await(records): the channel send, then the wait for the answer.
Send(c) ==
    /\ pc[c] = "send"
    /\ ioq' = Append(ioq, [from |-> c, records |-> hand[c]])
    /\ hand' = [hand EXCEPT ![c] = NoBatch]
    /\ pc' = [pc EXCEPT ![c] = "await"]
    /\ UNCHANGED <<bufferVars, op, tx, ioVars, ckVars, wal, history, crashes,
                   failures>>

\* new_transaction's read of last_index: waits for the io thread's write lock.
Snapshot(c) ==
    /\ pc[c] = "snapshot" /\ ioPc # "switch"
    /\ snapOf' = [snapOf EXCEPT ![tx[c]] = lastIndex]
    /\ pc' = [pc EXCEPT ![c] = "open"]
    /\ UNCHANGED <<bufferVars, op, tx, hand, ioq, ioVars, ckVars, wal, commitAt,
                   writes, asked, ackedNow, acked, exposed, coverage, crashes, failures>>

\* A cursor dropped without commit: no abort exists, its records stay buffered.
Abandon(c) ==
    /\ pc[c] = "open"
    /\ pc' = [pc EXCEPT ![c] = "idle"]
    /\ tx' = [tx EXCEPT ![c] = 0]
    /\ op' = [op EXCEPT ![c] = "none"]
    /\ UNCHANGED <<bufferVars, hand, ioq, ioVars, ckVars, wal, history, crashes,
                   failures>>

------------------------------------------------------------------------------
(* The io thread.                                                          *)

\* The request's sender gets Ok: new_transaction and append go on, a commit is
\* acknowledged, the checkpoint thread is back to waiting.
AnswerOk ==
    /\ IF ioFrom \in Clients
       THEN LET c == ioFrom IN
            /\ pc' = [pc EXCEPT ![c] = IF op[c] = "commit" THEN "idle"
                                       ELSE Resume(op[c])]
            /\ IF op[c] = "commit"
               THEN /\ ackedNow' = ackedNow \cup {tx[c]}
                    /\ acked' = acked \cup {tx[c]}
                    /\ tx' = [tx EXCEPT ![c] = 0]
                    /\ op' = [op EXCEPT ![c] = "none"]
               ELSE UNCHANGED <<ackedNow, acked, tx, op>>
            /\ ckPc' = ckPc
       ELSE ckPc' = "idle" /\ UNCHANGED <<pc, op, tx, ackedNow, acked>>
    /\ ioPc' = "recv"

\* Mutant: an error returns from the thread's work without an answer.
AnswerErrLost ==
    /\ ioPc' = "recv"
    /\ UNCHANGED <<pc, op, tx, ckPc, ackedNow, acked>>

\* The sender gets Err: no transaction is begun; a failed append or commit leaves
\* the cursor open, and its user may go on with it or try the commit again.
AnswerErr ==
    /\ IF ioFrom \in Clients
       THEN LET c == ioFrom
                open == op[c] # "begin" IN
            /\ pc' = [pc EXCEPT ![c] = IF open THEN "open" ELSE "idle"]
            /\ tx' = [tx EXCEPT ![c] = IF open THEN @ ELSE 0]
            /\ op' = [op EXCEPT ![c] = IF open THEN @ ELSE "none"]
            /\ ckPc' = ckPc
       ELSE ckPc' = "idle" /\ UNCHANGED <<pc, op, tx>>
    /\ ioPc' = "recv"
    /\ UNCHANGED <<ackedNow, acked>>

\* Transactions that lose a record when page p is overwritten with entry.
Overwritten(p, entry) == TxsIn(ToSet(wal[p]) \ ToSet(entry))

\* The next request of the channel.
IoRecv ==
    /\ ioPc = "recv" /\ ioq # <<>>
    /\ ioFrom' = Head(ioq).from
    /\ batch' = Head(ioq).records
    /\ counter' = counter + RecordCount(Head(ioq).records)
    /\ ioq' = Tail(ioq)
    /\ ioPc' = "loop"
    /\ UNCHANGED <<bufferVars, clientVars, current, cursor, lastIndex, ckVars, wal,
                   history, crashes, failures>>

\* Mutant: last_index is not incremented.
PlaceNoIncrement(t, entry) ==
    /\ current' = Append(entry, [Head(batch[t]) EXCEPT !.index = lastIndex + 1])
    /\ batch' = [batch EXCEPT ![t] = Tail(@)]
    /\ lastIndex' = lastIndex

\* The next record, of transaction t, goes into the entry under its index.
Place(t, entry) ==
    /\ current' = Append(entry, [Head(batch[t]) EXCEPT !.index = lastIndex + 1])
    /\ batch' = [batch EXCEPT ![t] = Tail(@)]
    /\ lastIndex' = lastIndex + 1

\* One turn of the record loop: the index, the announcement of a commit (sent
\* before anything is on disk), and either room in the entry or a page switch,
\* which waits for the disk with last_index locked.
IoRecord ==
    /\ ioPc = "loop"
    /\ \E t \in 0..MaxTx :
        /\ IsFirst(batch, t)
        /\ commitAt' = IF Head(batch[t]).op = "commit"
                       THEN [commitAt EXCEPT ![t] = lastIndex + 1]
                       ELSE commitAt
        /\ \/ /\ IsAvailable(current, Head(batch[t]))
              /\ Place(t, current)
              /\ ioPc' = ioPc
           \/ /\ ~ IsAvailable(current, Head(batch[t]))
              /\ ioPc' = "switch"
              /\ UNCHANGED <<current, batch, lastIndex>>
    /\ UNCHANGED <<bufferVars, clientVars, ioq, ioFrom, cursor, counter, ckVars,
                   wal, snapOf, writes, asked, ackedNow, acked, exposed, coverage, crashes,
                   failures>>

\* Mutant: the page is not written, as if the last request had done it.
SwitchNoWrite ==
    /\ ioPc = "switch"
    /\ UNCHANGED <<wal, exposed>>
    /\ cursor' = (cursor + 1) % MaxFileSize
    /\ \E t \in 0..MaxTx : IsFirst(batch, t) /\ Place(t, <<>>)
    /\ ioPc' = "loop"
    /\ UNCHANGED <<bufferVars, clientVars, ioq, ioFrom, counter, ckVars, commitAt,
                   snapOf, writes, asked, ackedNow, acked, coverage, crashes, failures>>

\* Mutant: the cursor runs past the end of the ring.
SwitchNoWrap ==
    /\ ioPc = "switch"
    /\ wal' = [wal EXCEPT ![cursor] = current]
    /\ exposed' = exposed \cup Overwritten(cursor, current)
    /\ cursor' = cursor + 1
    /\ \E t \in 0..MaxTx : IsFirst(batch, t) /\ Place(t, <<>>)
    /\ ioPc' = "loop"
    /\ UNCHANGED <<bufferVars, clientVars, ioq, ioFrom, counter, ckVars, commitAt,
                   snapOf, writes, asked, ackedNow, acked, coverage, crashes, failures>>

\* The full entry is on disk: on to the next page of the ring.
SwitchDone ==
    /\ ioPc = "switch"
    /\ wal' = [wal EXCEPT ![cursor] = current]
    /\ exposed' = exposed \cup Overwritten(cursor, current)
    /\ cursor' = (cursor + 1) % MaxFileSize
    /\ \E t \in 0..MaxTx : IsFirst(batch, t) /\ Place(t, <<>>)
    /\ ioPc' = "loop"
    /\ UNCHANGED <<bufferVars, clientVars, ioq, ioFrom, counter, ckVars, commitAt,
                   snapOf, writes, asked, ackedNow, acked, coverage, crashes, failures>>

\* The write of the full entry fails: the drained entry and the rest of the
\* request are dropped, the cursor stays where it was.
SwitchFail ==
    /\ ioPc = "switch" /\ failures < MaxFailures
    /\ wal' \in {wal, [wal EXCEPT ![cursor] = current]}
    /\ exposed' = exposed \cup Overwritten(cursor, current)
                  \cup TxsIn(ToSet(current)) \cup {t \in Tx : batch[t] # <<>>}
    /\ current' = <<>>
    /\ batch' = NoBatch
    /\ AnswerErr
    /\ failures' = failures + 1
    /\ UNCHANGED <<bufferVars, hand, ioq, ioFrom, cursor, counter, lastIndex, ckq,
                   ckIndex, checkpoints, commitAt, snapOf, writes, asked, coverage, crashes>>

Writing == ioPc = "loop" /\ IsEmpty(batch)

\* The last write of a request: the entry may be empty or partly filled.
WriteDone ==
    /\ Writing
    /\ wal' = [wal EXCEPT ![cursor] = current]
    /\ exposed' = exposed \cup Overwritten(cursor, current)
    /\ IF CheckpointCount < counter
       THEN ckq' = ckq + 1 /\ counter' = 0
       ELSE UNCHANGED <<ckq, counter>>
    /\ AnswerOk
    /\ UNCHANGED <<bufferVars, hand, ioq, ioFrom, batch, current, cursor, lastIndex,
                   ckIndex, checkpoints, commitAt, snapOf, writes, asked, coverage, crashes, failures>>

\* The entry stays in memory: a later write may still bring it to disk.
WriteFail ==
    /\ Writing /\ failures < MaxFailures
    /\ wal' \in {wal, [wal EXCEPT ![cursor] = current]}
    /\ exposed' = exposed \cup Overwritten(cursor, current)
    /\ AnswerErr
    /\ failures' = failures + 1
    /\ UNCHANGED <<bufferVars, hand, ioq, ioFrom, batch, current, cursor, counter,
                   lastIndex, ckq, ckIndex, checkpoints, commitAt, snapOf, writes, asked, coverage, crashes>>

------------------------------------------------------------------------------
(* The checkpoint thread.                                                  *)

\* checkpoint_c.send(()) starts the thread; from then on it also wakes when
\* checkpoint_interval passes without a request.
CkWake ==
    \/ /\ ckPc \in {"off", "idle"} /\ ckq > 0
       /\ ckq' = ckq - 1
       /\ ckPc' = "flush"
       /\ UNCHANGED <<bufferVars, clientVars, ioq, ioVars, ckIndex, checkpoints, wal,
                      history, crashes, failures>>
    \/ /\ ckPc = "idle" /\ ckq = 0
       /\ ckPc' = "flush"
       /\ UNCHANGED <<bufferVars, clientVars, ioq, ioVars, ckq, ckIndex, checkpoints,
                      wal, history, crashes, failures>>

\* flush_c.send_await(()): flush_all finds no dirty page.
CkNothing ==
    /\ ckPc = "flush"
    /\ ckPc' = "idle"
    /\ UNCHANGED <<bufferVars, clientVars, ioq, ioVars, ckq, ckIndex, checkpoints, wal,
                   history, crashes, failures>>

\* Mutant: the record is sent before the pages are in data.db.
CkDrainEarly ==
    /\ ckPc = "flush" /\ checkpoints < MaxCheckpoints
    /\ checkpoints' = checkpoints + 1
    /\ ckIndex' \in {0} \cup {commitAt[t] : t \in Tx}
    /\ drained' = writes
    /\ ioq' = Append(ioq, [from |-> Checkpointer,
                           records |-> [NoBatch EXCEPT ![0] =
                                          <<Rec(0, "checkpoint", ckIndex')>>]])
    /\ ckPc' = "await"
    /\ UNCHANGED <<bufferVars, clientVars, ioVars, ckq, wal, commitAt, snapOf,
                   writes, asked, ackedNow, acked, exposed, covered, forgotten,
                   crashes, failures>>

\* flush_all takes the dirty pages, and with them what every insert logged so far
\* has put in the pool (CursorWriter::update puts it there first).  It will answer
\* the greatest commit index among them, 0 when none was committed yet.
CkDrain ==
    /\ ckPc = "flush" /\ checkpoints < MaxCheckpoints
    /\ checkpoints' = checkpoints + 1
    /\ ckIndex' \in {0} \cup {commitAt[t] : t \in Tx}
    /\ drained' = writes
    /\ ckPc' = "drained"
    /\ UNCHANGED <<bufferVars, clientVars, ioq, ioVars, ckq, wal, commitAt, snapOf,
                   writes, asked, ackedNow, acked, exposed, covered, forgotten,
                   crashes, failures>>

\* The pages are in data.db: the record is sent to the io thread.
CkFlushed ==
    /\ ckPc = "drained"
    /\ covered' = drained
    /\ ioq' = Append(ioq, [from |-> Checkpointer,
                           records |-> [NoBatch EXCEPT ![0] =
                                          <<Rec(0, "checkpoint", ckIndex)>>]])
    /\ ckPc' = "await" /\ ckIndex' = 0
    /\ UNCHANGED <<bufferVars, clientVars, ioVars, ckq, checkpoints, wal,
                   commitAt, snapOf, writes, asked, ackedNow, acked, exposed, drained,
                   forgotten, crashes, failures>>

\* The flush fails and answers None: no record, but its pages are dirty no more.
CkFailed ==
    /\ ckPc = "drained" /\ failures < MaxFailures
    /\ exposed' = exposed \cup {t \in Tx : covered[t] < drained[t]}
    /\ failures' = failures + 1
    /\ ckPc' = "idle" /\ ckIndex' = 0
    /\ UNCHANGED <<bufferVars, clientVars, ioq, ioVars, ckq, checkpoints, wal,
                   commitAt, snapOf, writes, asked, ackedNow, acked, coverage, crashes>>

------------------------------------------------------------------------------
(* Crash and restart.                                                      *)

WritePending == ioPc = "switch" \/ Writing

\* What the file may hold if the process stops now: a page write under way is
\* there or not.
CrashImages == {wal} \cup (IF WritePending THEN {[wal EXCEPT ![cursor] = current]}
                           ELSE {})

LostIn(image) == UNION {TxsIn(ToSet(wal[p]) \ ToSet(image[p])) : p \in Pages}

\* A checkpoint record came after the Start of t: replay clears `started` there,
\* and with it the Commit of t, whether before that record or after it.
Passed(image, t) ==
    \E k, s \in RecordsOn(image) : /\ k.op = "checkpoint"
                                    /\ s.tx = t /\ s.op = "start"
                                    /\ s.index < k.index

\* Passed while it has inserts that no flush took: they are neither replayed nor
\* in data.db.  What a flush took before it ended is no such insert.
Straddling(image) ==
    {t \in Tx : /\ Passed(image, t) /\ covered[t] < writes[t]
                /\ ckPc = "drained" \/ drained[t] <= covered[t]}

\* Mutant: last_index is left at 0.
RestoreNoIndex(image) ==
    /\ \E m \in {0} \cup {r.tx : r \in RecordsOn(image)} :
        lastTx' = m /\ \A r \in RecordsOn(image) : r.tx <= m
    /\ lastIndex' = 0
    /\ \E p \in Pages : IsReplayCursor(image, p) /\ cursor' = p

\* The counters replay hands to the buffer and to the io thread: the greatest
\* transaction id, the greatest index, and the page to go on at.
RestoreCounters(image) ==
    /\ \E m \in {0} \cup {r.tx : r \in RecordsOn(image)} :
        lastTx' = m /\ \A r \in RecordsOn(image) : r.tx <= m
    /\ \E m \in {0} \cup {r.index : r \in RecordsOn(image)} :
        lastIndex' = m /\ \A r \in RecordsOn(image) : r.index <= m
    /\ \E p \in Pages : IsReplayCursor(image, p) /\ cursor' = p

\* A crash at any point, then WriteAheadLog::open on what the file holds.
Restart ==
    /\ crashes < MaxCrashes
    /\ crashes' = crashes + 1
    /\ \E image \in CrashImages :
        /\ wal' = image
        /\ exposed' = exposed \cup LostIn(image)
        /\ forgotten' = forgotten \cup Straddling(image)
        /\ RestoreCounters(image)
    /\ logs' = NoBatch /\ size' = 0
    /\ pc' = [c \in Clients |-> "idle"]
    /\ op' = [c \in Clients |-> "none"]
    /\ tx' = [c \in Clients |-> 0]
    /\ hand' = [c \in Clients |-> NoBatch]
    /\ ioq' = <<>>
    /\ ioPc' = "recv" /\ ioFrom' = Checkpointer /\ batch' = NoBatch
    /\ current' = <<>> /\ counter' = 0
    /\ ckPc' = "off" /\ ckq' = 0 /\ ckIndex' = 0
    /\ drained' = [t \in Tx |-> 0]
    /\ commitAt' = [t \in Tx |-> 0]
    /\ snapOf' = [t \in Tx |-> -1]
    /\ ackedNow' = {}
    /\ UNCHANGED <<checkpoints, writes, asked, acked, covered, failures>>

Io == IoRecv \/ IoRecord \/ SwitchDone \/ SwitchFail \/ WriteDone \/ WriteFail
Checkpoint == CkWake \/ CkNothing \/ CkDrain \/ CkFlushed \/ CkFailed
Client(c) == \/ Begin(c) \/ Update(c) \/ Check(c) \/ Flush(c)
             \/ CommitDrain(c) \/ Send(c) \/ Snapshot(c) \/ Abandon(c)

\* Nothing is left to do: every id is used and no request is under way.
Quiescent ==
    /\ lastTx = MaxTx /\ \A c \in Clients : pc[c] = "idle"
    /\ ioPc = "recv" /\ ioq = <<>> /\ ckPc = "off" /\ ckq = 0
    /\ UNCHANGED vars

Next == (\E c \in Clients : Client(c)) \/ Io \/ Checkpoint \/ Restart \/ Quiescent

Spec == Init /\ [][Next]_vars

\* The threads are never starved by the scheduler; a disk write ends.
FairSpec == Spec /\ WF_vars(Io) /\ WF_vars(Checkpoint)
            /\ \A c \in Clients : WF_vars(Check(c) \/ Flush(c) \/ Send(c) \/ Snapshot(c))

------------------------------------------------------------------------------
(* Properties.                                                             *)

\* Every variable holds a value of its kind; the file holds indexed records of
\* ids that were given out.
TypeOK ==
    /\ lastTx \in 0..MaxTx /\ logs \in Batches /\ size \in Int
    /\ pc \in [Clients -> {"idle", "check", "flush", "send", "await", "snapshot",
                           "open"}]
    /\ op \in [Clients -> {"none", "begin", "insert", "commit"}]
    /\ tx \in [Clients -> 0..MaxTx]
    /\ hand \in [Clients -> Batches]
    /\ ioq \in Seq([from : Clients \cup {Checkpointer}, records : Batches])
    /\ ioPc \in {"recv", "loop", "switch"}
    /\ ioFrom \in Clients \cup {Checkpointer}
    /\ batch \in Batches /\ current \in Seq(Record)
    /\ cursor \in Pages /\ counter \in Nat /\ lastIndex \in Nat
    /\ ckPc \in {"off", "idle", "flush", "drained", "await"} /\ ckq \in Nat
    /\ ckIndex \in Nat /\ checkpoints \in Nat
    /\ wal \in [Pages -> Seq(Record)]
    /\ commitAt \in [Tx -> Nat] /\ snapOf \in [Tx -> Int] /\ writes \in [Tx -> Nat]
    /\ asked \in [Tx -> Int]
    /\ ackedNow \subseteq Tx /\ acked \subseteq Tx /\ exposed \subseteq Tx
    /\ drained \in [Tx -> Nat] /\ covered \in [Tx -> Nat] /\ forgotten \subseteq Tx
    /\ crashes \in Nat /\ failures \in Nat

\* LogBuffer.size is the size of the records it holds, however the drains of
\* commits and of flushes interleave: it neither drifts nor underflows.
SizeExact ==
    size = RecordSize["start"] * Cardinality({t \in Tx : \E i \in DOMAIN logs[t] :
                                                  logs[t][i].op = "start"})
         + RecordSize["insert"] * Cardinality({e \in Tx \X (1..MaxWrites + 1) :
                                                  /\ e[2] \in DOMAIN logs[e[1]]
                                                  /\ logs[e[1]][e[2]].op = "insert"})

\* Whatever a crash leaves in the file, no two records share an index, records
\* are in the order of their indexes within a page, and no index or id in the
\* file is above the counters that give out the next one.
IndexOrder ==
    \A image \in CrashImages : \A p, q \in Pages :
        \A i \in DOMAIN image[p], j \in DOMAIN image[q] :
            /\ (p # q \/ i # j) => image[p][i].index # image[q][j].index
            /\ (p = q /\ i < j) => image[p][i].index < image[q][j].index
            /\ image[p][i].index \in 1..lastIndex /\ image[p][i].tx <= lastTx

\* A transaction's records as the log should hold them: Start, the inserts in
\* the order they were made, Commit.
InsertsOf(records, t) == {r \in records : r.tx = t /\ r.op = "insert"}
LogHolds(image, t) ==
    LET mine == {r \in RecordsOn(image) : r.tx = t} IN
    /\ \E s, k \in mine : /\ s.op = "start" /\ k.op = "commit"
                          /\ \A r \in mine : s.index <= r.index /\ r.index <= k.index
    /\ {r.n : r \in InsertsOf(mine, t)} = 1..writes[t]
    /\ \A r, q \in InsertsOf(mine, t) : r.n < q.n <=> r.index < q.index

Recovered(replayed, t) == {r.n : r \in InsertsOf(replayed, t)}

\* A commit that returned Ok survives any crash, and any number of them: its
\* records are in the file in order, and every insert is given back by replay or
\* was in the buffer pool when a flush took its dirty pages and succeeded.  The
\* exceptions are the code's: a transaction that a checkpoint record passed while
\* it had inserts that no flush took (Straddling, forgotten after a restart), and
\* those whose records were put in disorder, dropped by a failed write or written
\* over in the ring, or whose pages a failed flush dropped (exposed).
DurableCommits ==
    \A image \in CrashImages :
        LET replayed == Replayed(image) IN
        \A t \in acked \ (exposed \cup LostIn(image)) :
            /\ LogHolds(image, t)
            /\ \/ t \in forgotten \cup Straddling(image)
               \/ 1..writes[t] \subseteq Recovered(replayed, t) \cup 1..covered[t]

\* Replay brings back nothing of a transaction whose client never asked for the
\* commit; of the others nothing, or all that was inserted before the commit was
\* first asked for, wherever in the batch the crash hits.  A client that goes on
\* after a failed commit may get later inserts back too, but none without those
\* before it.
AtomicRecovery ==
    \A image \in CrashImages :
        LET replayed == Replayed(image) IN
        \A t \in Tx \ (exposed \cup LostIn(image)) :
            \/ Recovered(replayed, t) = {}
            \/ /\ asked[t] # -1
               /\ \E n \in asked[t]..writes[t] : Recovered(replayed, t) = 1..n

CommittedOn(image) == {r.tx : r \in {e \in RecordsOn(image) : e.op = "commit"}}

\* Commits are announced and snapshots taken before anything is on disk, yet no
\* transaction survives a crash without the ones it could read from.
RecoverableReads ==
    \A image \in CrashImages :
        LET committed == CommittedOn(image) IN
        \A a \in Tx, b \in committed :
            commitAt[a] > 0 /\ commitAt[a] <= snapOf[b]
              => a \in committed \cup exposed \cup LostIn(image)

\* What replay should return: the inserts of transactions whose Start and Commit
\* both follow the last checkpoint, less those the checkpoints cover.
ReplayReference(image) ==
    LET all == RecordsOn(image)
        marks == {r \in all : r.op = "checkpoint"}
        live == {t \in Tx : \E s, k \in all :
                    /\ s.tx = t /\ s.op = "start" /\ k.tx = t /\ k.op = "commit"
                    /\ s.index < k.index
                    /\ \A m \in marks : m.index < s.index}
    IN  {r \in all : /\ r.op = "insert" /\ r.tx \in live
                     /\ \A m \in marks : r.index < m.index => m.n <= r.index}

\* The replay loop, one record at a time over the pages in index order, computes
\* the reference on everything a crash can leave.
ReplayIsReference ==
    \A image \in CrashImages : Replayed(image) = ReplayReference(image)

\* A snapshot read by a new transaction covers every commit that returned Ok
\* before: what a client was told is committed is visible to whoever begins next.
SnapshotCoversAcked ==
    [][\A c \in Clients : pc[c] = "snapshot" /\ pc'[c] = "open" =>
          \A t \in ackedNow : commitAt[t] \in 1..snapOf'[tx[c]]]_vars

\* Whoever waits for the io thread gets an answer.
RequestsAnswered == \A c \in Clients : pc[c] = "await" ~> pc[c] # "await"
==============================================================================
