------------------------------- MODULE Finder -------------------------------
(***************************************************************************)
(* disk/finder.rs: the threads in front of a file of pages.  A write is    *)
(* sent to one of the write threads, which hands it to pwrite at once and  *)
(* keeps its `done` sender in `wait` until a batch is full or the timer    *)
(* runs out; the thread then asks the flush thread for an fsync and        *)
(* answers the whole batch.  The threads are BackgroundThreads: their      *)
(* channels are the queues here, and one that close joined is spawned      *)
(* again by the next call, with the `wait` its closure still holds.        *)
(*                                                                         *)
(* applied, safe and op are the file and the callers as in PageStore.      *)
(***************************************************************************)
EXTENDS Integers, Sequences

CONSTANTS
  Callers,       \* threads of the engine
  Pages,         \* page indexes
  WriteThreads,  \* FinderConfig.write_threads
  BatchSize,     \* FinderConfig.batch_size
  MaxWrites,     \* bound: writes in a behaviour
  MaxErrors,     \* bound: failed pwrite, pread and fsync calls
  MaxCloses,     \* bound: calls of close
  MaxCrashes     \* bound: crashes

ASSUME ThreadsAssumption == WriteThreads \in Nat \ {0}
ASSUME BatchAssumption == BatchSize \in Nat
ASSUME CallersAssumption == Callers \cap Int = {}

Threads == 1..WriteThreads
FlushThread == WriteThreads + 1

VARIABLES
  applied, safe, op,
  write_c,  \* the write thread whose turn it is
  queue,    \* per write thread: the callers in its channel
  wait,     \* per write thread: the callers whose `done` it holds
  wst,      \* per write thread: where it is
  flush,    \* the channel of the flush thread: write threads and callers
  synced,   \* the flush thread has done the fsync of the head of `flush`
  closing,  \* the thread close is joining, 0 for none
  used      \* how much of each bound is used

vars == <<applied, safe, op, write_c, queue, wait, wst, flush, synced, closing, used>>
file == <<applied, safe>>
writers == <<write_c, queue, wait, wst>>
flusher == <<flush, synced>>

None == [kind |-> "none"]
WriteOp(p, i) == [kind |-> "write", page |-> p, at |-> i]
ReadOp(p, got) == [kind |-> "read", page |-> p, got |-> got]
FsyncOp(upto) == [kind |-> "fsync", upto |-> upto]

Op(c, o) == op' = [op EXCEPT ![c] = o]
Use(k) == used' = [used EXCEPT ![k] = @ + 1]

Init ==
  /\ applied = [p \in Pages |-> 0] /\ safe = [p \in Pages |-> 0]
  /\ op = [c \in Callers |-> None]
  /\ write_c = 1
  /\ queue = [t \in Threads |-> <<>>] /\ wait = [t \in Threads |-> <<>>]
  /\ wst = [t \in Threads |-> "off"]
  /\ flush = <<>> /\ synced = FALSE
  /\ closing = 0
  /\ used = [writes |-> 0, errors |-> 0, closes |-> 0, crashes |-> 0]

-----------------------------------------------------------------------------
(* Callers                                                                 *)

(* write: takes its turn and sends; the mutex of a thread being closed is  *)
(* held until it is joined, and a thread that is off is spawned.           *)
Write(c, p) ==
  /\ op[c] = None /\ used.writes < MaxWrites /\ closing # write_c
  /\ Op(c, WriteOp(p, 0))
  /\ queue' = [queue EXCEPT ![write_c] = Append(@, c)]
  /\ wst' = [wst EXCEPT ![write_c] = IF @ = "off" THEN "waiting" ELSE @]
  /\ write_c' = (write_c % WriteThreads) + 1
  /\ Use("writes")
  /\ UNCHANGED <<file, wait, flusher, closing>>

(* read: sent to a read thread, which calls pread and answers.             *)
Read(c, p) ==
  /\ op[c] = None
  /\ Op(c, ReadOp(p, -1))
  /\ UNCHANGED <<file, writers, flusher, closing, used>>

Pread(c) ==
  /\ op[c].kind = "read" /\ op[c].got = -1
  /\ Op(c, ReadOp(op[c].page, applied[op[c].page]))
  /\ UNCHANGED <<file, writers, flusher, closing, used>>

PreadErr(c) ==
  /\ op[c].kind = "read" /\ op[c].got = -1 /\ used.errors < MaxErrors
  /\ Op(c, None) /\ Use("errors")
  /\ UNCHANGED <<file, writers, flusher, closing>>

ReadReturn(c) ==
  /\ op[c].kind = "read" /\ op[c].got # -1
  /\ Op(c, None)
  /\ UNCHANGED <<file, writers, flusher, closing, used>>

Fsync(c) ==
  /\ op[c] = None /\ closing # FlushThread
  /\ Op(c, FsyncOp(applied))
  /\ flush' = Append(flush, c)
  /\ UNCHANGED <<file, writers, synced, closing, used>>

-----------------------------------------------------------------------------
(* A write thread                                                          *)

(* Mutant: an error returned without an answer.                            *)
PwriteErrSilent(t) ==
  /\ wst[t] = "waiting" /\ queue[t] # <<>> /\ used.errors < MaxErrors
  /\ queue' = [queue EXCEPT ![t] = Tail(@)]
  /\ Use("errors")
  /\ UNCHANGED <<file, op, write_c, wait, wst, flusher, closing>>

PwriteOk(t) ==
  /\ wst[t] = "waiting" /\ queue[t] # <<>>
  /\ LET c == Head(queue[t])  p == op[c].page IN
       /\ applied' = [applied EXCEPT ![p] = @ + 1]
       /\ Op(c, WriteOp(p, applied[p] + 1))
       /\ wait' = [wait EXCEPT ![t] = Append(@, c)]
  /\ queue' = [queue EXCEPT ![t] = Tail(@)]
  /\ wst' = [wst EXCEPT ![t] = IF Len(wait[t]) + 1 < BatchSize THEN @ ELSE "asking"]
  /\ UNCHANGED <<safe, write_c, flusher, closing, used>>

PwriteErr(t) ==
  /\ wst[t] = "waiting" /\ queue[t] # <<>> /\ used.errors < MaxErrors
  /\ Op(Head(queue[t]), None)
  /\ queue' = [queue EXCEPT ![t] = Tail(@)]
  /\ Use("errors")
  /\ UNCHANGED <<file, write_c, wait, wst, flusher, closing>>

(* Mutant of Tick: the job returns when it is called with no request.      *)
TickIgnored(t) ==
  /\ wst[t] = "waiting" /\ queue[t] = <<>> /\ closing # t
  /\ UNCHANGED vars

(* recv_timeout ran out: the batch, empty or not, is synced as it is.      *)
Tick(t) ==
  /\ wst[t] = "waiting" /\ queue[t] = <<>> /\ closing # t
  /\ wst' = [wst EXCEPT ![t] = "asking"]
  /\ UNCHANGED <<file, op, write_c, queue, wait, flusher, closing, used>>

(* fc.send_await(())                                                       *)
Ask(t) ==
  /\ wst[t] = "asking" /\ closing # FlushThread
  /\ flush' = Append(flush, t)
  /\ wst' = [wst EXCEPT ![t] = "syncing"]
  /\ UNCHANGED <<file, op, write_c, queue, wait, synced, closing, used>>

(* wait.drain(..): one answer at a time.                                   *)
Ack(t) ==
  /\ wst[t] = "acking" /\ wait[t] # <<>>
  /\ Op(Head(wait[t]), None)
  /\ wait' = [wait EXCEPT ![t] = Tail(@)]
  /\ UNCHANGED <<file, write_c, queue, wst, flusher, closing, used>>

AckEnd(t) ==
  /\ wst[t] = "acking" /\ wait[t] = <<>>
  /\ wst' = [wst EXCEPT ![t] = "waiting"]
  /\ UNCHANGED <<file, op, write_c, queue, wait, flusher, closing, used>>

-----------------------------------------------------------------------------
(* The flush thread                                                        *)

FlushOk ==
  /\ flush # <<>> /\ ~synced
  /\ safe' = applied
  /\ synced' = TRUE
  /\ UNCHANGED <<applied, op, writers, flush, closing, used>>

(* The answer of the fsync, to a write thread or to a caller.              *)
Answer(next) ==
  /\ flush' = Tail(flush)
  /\ LET h == Head(flush) IN
       \/ h \in Threads /\ wst' = [wst EXCEPT ![h] = next] /\ UNCHANGED op
       \/ h \in Callers /\ Op(h, None) /\ UNCHANGED wst
  /\ UNCHANGED <<file, write_c, queue, wait, closing>>

FlushAnswer ==
  /\ flush # <<>> /\ synced
  /\ synced' = FALSE
  /\ Answer("acking")
  /\ UNCHANGED used

(* Mutant of FlushErr: the result of the fsync is not looked at.           *)
FlushErrIgnored ==
  /\ flush # <<>> /\ ~synced /\ used.errors < MaxErrors
  /\ Use("errors")
  /\ Answer("acking")
  /\ UNCHANGED synced

(* A failed fsync leaves the batch in `wait`, to be retried with the next  *)
(* write or when the timer runs out again.                                 *)
FlushErr ==
  /\ flush # <<>> /\ ~synced /\ used.errors < MaxErrors
  /\ Use("errors")
  /\ Answer("waiting")
  /\ UNCHANGED synced

-----------------------------------------------------------------------------
(* close joins the write threads, then the flush thread.  A joined thread  *)
(* has emptied its channel, not its `wait`.                                *)
Close ==
  /\ closing = 0 /\ used.closes < MaxCloses
  /\ closing' = 1
  /\ Use("closes")
  /\ UNCHANGED <<file, op, writers, flusher>>

CloseWriter ==
  /\ closing \in Threads
  /\ wst[closing] = "off" \/ (wst[closing] = "waiting" /\ queue[closing] = <<>>)
  /\ wst' = [wst EXCEPT ![closing] = "off"]
  /\ closing' = closing + 1
  /\ UNCHANGED <<file, op, write_c, queue, wait, flusher, used>>

CloseFlush ==
  /\ closing = FlushThread /\ flush = <<>>
  /\ closing' = 0
  /\ UNCHANGED <<file, op, writers, flusher, used>>

(* The process dies and is started again: a page holds one of the writes   *)
(* from the last fsync on, everything in memory is gone.                   *)
Crash ==
  /\ used.crashes < MaxCrashes
  /\ \E v \in [Pages -> 0..MaxWrites] :
       /\ \A p \in Pages : v[p] \in safe[p]..applied[p]
       /\ applied' = v /\ safe' = v
  /\ op' = [c \in Callers |-> None]
  /\ write_c' = 1
  /\ queue' = [t \in Threads |-> <<>>] /\ wait' = [t \in Threads |-> <<>>]
  /\ wst' = [t \in Threads |-> "off"]
  /\ flush' = <<>> /\ synced' = FALSE
  /\ closing' = 0
  /\ Use("crashes")

-----------------------------------------------------------------------------
Caller(c) ==
  \/ \E p \in Pages : Write(c, p) \/ Read(c, p)
  \/ Pread(c) \/ PreadErr(c) \/ ReadReturn(c) \/ Fsync(c)

Writer(t) ==
  PwriteOk(t) \/ PwriteErr(t) \/ Tick(t) \/ Ask(t) \/ Ack(t) \/ AckEnd(t)

Flusher == FlushOk \/ FlushAnswer \/ FlushErr

Closer == Close \/ CloseWriter \/ CloseFlush

Elements(s) == {s[i] : i \in DOMAIN s}

(* `done` of the caller is in the closure of a thread that was joined.     *)
Stranded(c) == \E t \in Threads : wst[t] = "off" /\ c \in Elements(wait[t])

(* Everybody left waits for the next write to spawn a thread.              *)
Rest ==
  /\ closing = 0 /\ \A c \in Callers : op[c] = None \/ Stranded(c)
  /\ UNCHANGED vars

Next ==
  \/ \E c \in Callers : Caller(c)
  \/ \E t \in Threads : Writer(t)
  \/ Flusher \/ Closer \/ Crash \/ Rest

Spec == Init /\ [][Next]_vars

(* The threads run, the timer runs out, and close goes on.                 *)
FairSpec ==
  /\ Spec
  /\ \A t \in Threads : WF_vars(Writer(t))
  /\ WF_vars(Flusher) /\ WF_vars(CloseWriter \/ CloseFlush)

-----------------------------------------------------------------------------
(* Properties                                                              *)

(* The promise of the component: a write answered Ok survives every crash, *)
(* one answered Err never reached the file, an fsync answered Ok made all  *)
(* the writes before it safe, and a read sees the last write applied.      *)
Store == INSTANCE PageStore
Implements == Store!Spec

(* Whatever errors the file returns, a write in progress sits in exactly   *)
(* one place: the channel of one write thread before pwrite, or the `wait` *)
(* of one write thread after it.                                           *)
NoWriteForgotten ==
  \A c \in Callers : op[c].kind = "write" =>
    \E t \in Threads :
      /\ IF op[c].at = 0 THEN c \in Elements(queue[t]) ELSE c \in Elements(wait[t])
      /\ \A u \in Threads \ {t} : c \notin Elements(queue[u]) \cup Elements(wait[u])

(* A failing file delays a write and never strands it: it is answered,     *)
(* unless close joined the thread that holds its `done`.                   *)
WriteAnswered ==
  \A c \in Callers : op[c].kind = "write" ~>
    op[c].kind # "write" \/ Stranded(c)
=============================================================================
