------------------------- MODULE WriteAheadLogProofs -------------------------
(***************************************************************************)
(* Proofs about WriteAheadLog for every value of its constants: every      *)
(* reachable state is well typed, and a new transaction's snapshot covers  *)
(* every commit acknowledged before it; then the contents of wal.db and of *)
(* the log buffer: the order of the records in the file and over any       *)
(* crash, that no transaction survives a crash without those it could read *)
(* from, and the size that the buffer keeps of itself.                     *)
(***************************************************************************)
EXTENDS WriteAheadLog, FiniteSetTheorems, SequenceTheorems, TLAPS

------------------------------------------------------------------------------
(* Type correctness.                                                       *)

\* The size of a sequence of records is a natural number: LogRecord::size is
\* summed over finitely many records.
LEMMA SizeOfNat ==
    ASSUME NEW s \in Seq(Record)
    PROVE  SizeOf(s) \in Nat
<1>1. ASSUME NEW o \in Operations
      PROVE  KindSize(s, o) \in Nat
  <2>1. IsFiniteSet(1..Len(s))
    BY FS_Interval
  <2>2. IsFiniteSet({i \in DOMAIN s : s[i].op = o})
    BY <2>1, FS_Subset
  <2>3. Cardinality({i \in DOMAIN s : s[i].op = o}) \in Nat
    BY <2>2, FS_CardinalityType
  <2>4. RecordSize[o] \in Nat
    BY SizesNatural
  <2> QED
    BY <2>3, <2>4 DEF KindSize
<1> QED
  BY <1>1 DEF SizeOf, Operations

\* A request holds finitely many records, so the counter that triggers the
\* checkpoint stays a natural number.
LEMMA RecordCountNat ==
    ASSUME NEW b
    PROVE  RecordCount(b) \in Nat
<1>1. IsFiniteSet(0..MaxTx) /\ IsFiniteSet(1..MaxWrites + 2)
  BY FS_Interval, BoundsNatural
<1>2. IsFiniteSet((0..MaxTx) \X (1..MaxWrites + 2))
  BY <1>1, FS_Product
<1>3. IsFiniteSet({e \in (0..MaxTx) \X (1..MaxWrites + 2) : e[2] <= Len(b[e[1]])})
  BY <1>2, FS_Subset
<1> QED
  BY <1>3, FS_CardinalityType DEF RecordCount

\* The transactions that lose a record when a page changes are transactions.
LEMMA LostAreTx ==
    ASSUME NEW s \in Seq(Record), NEW S
    PROVE  TxsIn(ToSet(s) \ S) \subseteq Tx
<1>1. ASSUME NEW r \in ToSet(s) PROVE r.tx \in 0..MaxTx
  <2>1. PICK i \in DOMAIN s : r = s[i]
    BY <1>1 DEF ToSet
  <2>2. s[i] \in Record
    BY ElementOfSeq
  <2> QED
    BY <2>1, <2>2 DEF Record
<1>2. \A k \in 0..MaxTx : k # 0 => k \in Tx
  BY BoundsNatural DEF Tx
<1> QED
  BY <1>1, <1>2 DEF TxsIn

\* A new record is a record, and batches made from records are batches.
LEMMA RecType ==
    ASSUME NEW t \in 0..MaxTx, NEW o \in Operations, NEW k \in Nat
    PROVE  Rec(t, o, k) \in Record
BY DEF Rec, Record

LEMMA NoBatchType == NoBatch \in Batches
BY DEF NoBatch, Batches

\* The initial state is well typed.
LEMMA InitTypeOK == Init => TypeOK
<1> SUFFICES ASSUME Init PROVE TypeOK
  OBVIOUS
<1>1. 0 \in Pages /\ 0 \in 0..MaxTx
  BY RingNotEmpty, BoundsNatural DEF Pages
<1> QED
  BY <1>1, NoBatchType DEF Init, TypeOK

------------------------------------------------------------------------------
(* The strengthening that makes TypeOK inductive: a client that waits has   *)
(* exactly one request under way, in the channel or with the io thread.     *)

\* A client that is not idle runs a transaction.
RunsTx == \A c \in Clients : pc[c] # "idle" => tx[c] \in Tx

\* Whoever's request is in the channel or being served waits for its answer.
Awaited ==
    /\ \A k \in DOMAIN ioq : ioq[k].from \in Clients => pc[ioq[k].from] = "await"
    /\ ioPc # "recv" /\ ioFrom \in Clients => pc[ioFrom] = "await"

\* No client has two requests under way.
OneRequest ==
    /\ \A k, j \in DOMAIN ioq : ioq[k].from = ioq[j].from /\ k # j
                                => ioq[k].from \notin Clients
    /\ ioPc # "recv" => \A k \in DOMAIN ioq : ioq[k].from = ioFrom
                                => ioFrom \notin Clients

Protocol == RunsTx /\ Awaited /\ OneRequest
TypeInv == TypeOK /\ Protocol

\* An answer keeps the variables it writes in their types.
LEMMA AnswerType ==
    ASSUME TypeOK, AnswerOk \/ AnswerErr, ioFrom \in Clients => tx[ioFrom] \in Tx
    PROVE  /\ pc' \in [Clients -> {"idle", "check", "flush", "send", "await",
                                   "snapshot", "open"}]
           /\ op' \in [Clients -> {"none", "begin", "insert", "commit"}]
           /\ tx' \in [Clients -> 0..MaxTx]
           /\ ackedNow' \subseteq Tx /\ acked' \subseteq Tx
           /\ ckPc' \in {"off", "idle", "flush", "drained", "await"}
           /\ ioPc' = "recv"
<1> USE BoundsNatural DEF TypeOK
<1>0. 0 \in 0..MaxTx
  OBVIOUS
<1>1. CASE AnswerOk /\ ioFrom \in Clients
  <2>1. pc' \in [Clients -> {"idle", "check", "flush", "send", "await",
                             "snapshot", "open"}]
    BY <1>1 DEF AnswerOk, Resume
  <2>2. op' \in [Clients -> {"none", "begin", "insert", "commit"}]
    BY <1>1 DEF AnswerOk
  <2>3. tx' \in [Clients -> 0..MaxTx]
    <3>1. \/ tx' = [tx EXCEPT ![ioFrom] = 0]
          \/ tx' = tx
      BY <1>1 DEF AnswerOk
    <3> QED
      BY <3>1, <1>0
  <2>4. ackedNow' \subseteq Tx /\ acked' \subseteq Tx
    BY <1>1 DEF AnswerOk
  <2> QED
    BY <1>1, <2>1, <2>2, <2>3, <2>4 DEF AnswerOk
<1>2. CASE AnswerErr /\ ioFrom \in Clients
  <2>1. pc' \in [Clients -> {"idle", "check", "flush", "send", "await",
                             "snapshot", "open"}]
    BY <1>2 DEF AnswerErr
  <2>2. op' \in [Clients -> {"none", "begin", "insert", "commit"}]
    BY <1>2 DEF AnswerErr
  <2>3. tx' \in [Clients -> 0..MaxTx]
    <3>1. \/ tx' = [tx EXCEPT ![ioFrom] = 0]
          \/ tx' = [tx EXCEPT ![ioFrom] = @]
      BY <1>2 DEF AnswerErr
    <3> QED
      BY <3>1, <1>0
  <2> QED
    BY <1>2, <2>1, <2>2, <2>3 DEF AnswerErr
<1>3. CASE ioFrom \notin Clients
  BY <1>3 DEF AnswerOk, AnswerErr
<1> QED
  BY <1>1, <1>2, <1>3

\* Each action of a client keeps the types.
LEMMA ClientTypeOK ==
    ASSUME TypeInv, NEW c \in Clients, Client(c)
    PROVE  TypeOK'
<1> USE BoundsNatural, SizesNatural DEF TypeInv, coverage
<1>0. 0 \in 0..MaxTx /\ Tx \subseteq 0..MaxTx
  BY DEF Tx
<1>1. CASE Begin(c)
  <2> DEFINE t == lastTx + 1
  <2>1. t \in Tx /\ t \in 0..MaxTx
    BY <1>1 DEF Begin, TypeOK, Tx
  <2>2. <<Rec(t, "start", 0)>> \in Seq(Record)
    BY <2>1, RecType DEF Operations
  <2>3. logs' \in Batches
    BY <1>1, <2>1, <2>2 DEF Begin, TypeOK, Batches
  <2>4. size' \in Int
    BY <1>1 DEF Begin, TypeOK, Operations
  <2>5. tx' \in [Clients -> 0..MaxTx]
    BY <1>1, <2>1 DEF Begin, TypeOK
  <2>6. writes' \in [Tx -> Nat] /\ asked' \in [Tx -> Int]
    BY <1>1, <2>1 DEF Begin, TypeOK
  <2>7. drained' \in [Tx -> Nat] /\ covered' \in [Tx -> Nat] /\ forgotten' \subseteq Tx
    BY <1>1, <2>1 DEF Begin, TypeOK
  <2> QED
    BY <1>1, <2>1, <2>3, <2>4, <2>5, <2>6, <2>7
    DEF Begin, TypeOK, ioVars, ckVars
<1>2. CASE Update(c)
  <2>1. tx[c] \in Tx /\ tx[c] \in 0..MaxTx
    BY <1>2, <1>0 DEF Update, Protocol, RunsTx
  <2>2. Rec(tx[c], "insert", writes[tx[c]] + 1) \in Record
    BY <2>1, RecType DEF Operations, TypeOK
  <2>3. Append(logs[tx[c]], Rec(tx[c], "insert", writes[tx[c]] + 1)) \in Seq(Record)
    BY <2>1, <2>2 DEF TypeOK, Batches
  <2>4. logs' \in Batches
    BY <1>2, <2>1, <2>3 DEF Update, TypeOK, Batches
  <2>5. size' \in Int
    BY <1>2 DEF Update, TypeOK, Operations
  <2>6. writes' \in [Tx -> Nat]
    <3>1. writes \in [Tx -> Nat] /\ writes[tx[c]] + 1 \in Nat
      BY <2>1 DEF TypeOK
    <3>2. writes' = [writes EXCEPT ![tx[c]] = writes[tx[c]] + 1]
      BY <1>2 DEF Update
    <3> QED
      BY <3>1, <3>2
  <2> QED
    BY <1>2, <2>1, <2>4, <2>5, <2>6
    DEF Update, TypeOK, ioVars, ckVars
<1>3. CASE Check(c)
  BY <1>3 DEF Check, Resume, TypeOK, bufferVars, ioVars, ckVars, history, coverage
<1>4. CASE Flush(c)
  BY <1>4, NoBatchType DEF Flush, TypeOK, ioVars, ckVars, history, coverage
<1>5. CASE CommitDrain(c)
  <2>1. tx[c] \in Tx /\ tx[c] \in 0..MaxTx
    BY <1>5, <1>0 DEF CommitDrain, Protocol, RunsTx
  <2>2. Rec(tx[c], "commit", 0) \in Record
    BY <2>1, RecType DEF Operations
  <2>3. logs[tx[c]] \in Seq(Record)
    BY <2>1 DEF TypeOK, Batches
  <2>4. Append(logs[tx[c]], Rec(tx[c], "commit", 0)) \in Seq(Record)
    BY <2>2, <2>3
  <2>5. CommitBatch(tx[c]) \in Batches
    BY <2>1, <2>4, NoBatchType DEF CommitBatch, Batches
  <2>6. hand' \in [Clients -> Batches]
    BY <1>5, <2>5 DEF CommitDrain, TypeOK
  <2>7. logs' \in Batches
    BY <1>5, <2>1 DEF CommitDrain, TypeOK, Batches
  <2>8. size' \in Int
    BY <1>5, <2>3, SizeOfNat DEF CommitDrain, TypeOK
  <2>9. exposed' \subseteq Tx
    BY <1>5, <2>1 DEF CommitDrain, TypeOK
  <2>10. asked' \in [Tx -> Int]
    BY <1>5, <2>1 DEF CommitDrain, TypeOK
  <2> QED
    BY <1>5, <2>6, <2>7, <2>8, <2>9, <2>10
    DEF CommitDrain, TypeOK, ioVars, ckVars
<1>6. CASE Send(c)
  <2>1. [from |-> c, records |-> hand[c]]
            \in [from : Clients \cup {Checkpointer}, records : Batches]
    BY DEF TypeOK
  <2>2. ioq' \in Seq([from : Clients \cup {Checkpointer}, records : Batches])
    BY <1>6, <2>1 DEF Send, TypeOK
  <2> QED
    BY <1>6, <2>2, NoBatchType
    DEF Send, TypeOK, bufferVars, ioVars, ckVars, history, coverage
<1>7. CASE Snapshot(c)
  <2>1. snapOf' \in [Tx -> Int]
    <3>1. snapOf \in [Tx -> Int] /\ lastIndex \in Int
      BY DEF TypeOK
    <3>2. snapOf' = [snapOf EXCEPT ![tx[c]] = lastIndex]
      BY <1>7 DEF Snapshot
    <3> QED
      BY <3>1, <3>2
  <2>2. pc' \in [Clients -> {"idle", "check", "flush", "send", "await", "snapshot",
                            "open"}]
    BY <1>7 DEF Snapshot, TypeOK
  <2> QED
    BY <1>7, <2>1, <2>2 DEF Snapshot, TypeOK, bufferVars, ioVars, ckVars
<1>8. CASE Abandon(c)
  BY <1>8, <1>0 DEF Abandon, TypeOK, bufferVars, ioVars, ckVars, history, coverage
<1> QED
  BY <1>1, <1>2, <1>3, <1>4, <1>5, <1>6, <1>7, <1>8 DEF Client

\* The next record of a request is a record, and what remains is a batch.
LEMMA PlaceType ==
    ASSUME TypeOK, NEW t \in 0..MaxTx, IsFirst(batch, t),
           NEW entry \in Seq(Record), Place(t, entry)
    PROVE  current' \in Seq(Record) /\ batch' \in Batches /\ lastIndex' \in Nat
<1>1. batch[t] \in Seq(Record) /\ batch[t] # <<>>
  BY DEF TypeOK, Batches, IsFirst
<1>2. Head(batch[t]) \in Record /\ Tail(batch[t]) \in Seq(Record)
  BY <1>1, HeadTailProperties
<1>3. lastIndex + 1 \in Nat
  BY DEF TypeOK
<1>4. [Head(batch[t]) EXCEPT !.index = lastIndex + 1] \in Record
  BY <1>2, <1>3 DEF Record
<1>5. current' \in Seq(Record)
  BY <1>4 DEF Place
<1>6. batch' \in Batches
  BY <1>2 DEF Place, TypeOK, Batches
<1> QED
  BY <1>3, <1>5, <1>6 DEF Place

\* A page of the ring takes an entry.
LEMMA WriteType ==
    ASSUME TypeOK
    PROVE  /\ [wal EXCEPT ![cursor] = current] \in [Pages -> Seq(Record)]
           /\ Overwritten(cursor, current) \subseteq Tx
<1>1. wal[cursor] \in Seq(Record)
  BY DEF TypeOK
<1> QED
  BY <1>1, LostAreTx DEF TypeOK, Overwritten

\* The request being served, if a client's, is that of a transaction.
LEMMA ServedTx ==
    ASSUME TypeInv, ioPc # "recv"
    PROVE  ioFrom \in Clients => tx[ioFrom] \in Tx
BY DEF TypeInv, Protocol, Awaited, RunsTx

\* Each action of the io thread keeps the types.
LEMMA IoTypeOK ==
    ASSUME TypeInv, Io
    PROVE  TypeOK'
<1> USE DEF TypeInv, coverage
<1>1. CASE IoRecv
  <2>1. Head(ioq) \in [from : Clients \cup {Checkpointer}, records : Batches]
        /\ ioq' \in Seq([from : Clients \cup {Checkpointer}, records : Batches])
    BY <1>1, HeadTailProperties DEF IoRecv, TypeOK
  <2>2. Head(ioq).from \in Clients \cup {Checkpointer}
        /\ Head(ioq).records \in Batches
    BY <2>1
  <2>3. counter' \in Nat
    BY <1>1, RecordCountNat DEF IoRecv, TypeOK
  <2> QED
    BY <1>1, <2>1, <2>2, <2>3
    DEF IoRecv, TypeOK, bufferVars, clientVars, ckVars, history, coverage
<1>2. CASE IoRecord
  <2>1. PICK t \in 0..MaxTx :
          /\ IsFirst(batch, t)
          /\ commitAt' = IF Head(batch[t]).op = "commit"
                         THEN [commitAt EXCEPT ![t] = lastIndex + 1] ELSE commitAt
          /\ \/ Place(t, current) /\ ioPc' = ioPc
             \/ ioPc' = "switch" /\ UNCHANGED <<current, batch, lastIndex>>
    BY <1>2 DEF IoRecord
  <2>2. current' \in Seq(Record) /\ batch' \in Batches /\ lastIndex' \in Nat
    BY <2>1, PlaceType DEF TypeOK
  <2>3. commitAt' \in [Tx -> Nat]
    <3>1. commitAt \in [Tx -> Nat] /\ lastIndex + 1 \in Nat
      BY DEF TypeOK
    <3> QED
      BY <2>1, <3>1
  <2> QED
    BY <1>2, <2>1, <2>2, <2>3 DEF IoRecord, TypeOK, bufferVars, clientVars, ckVars
<1>3. CASE SwitchDone
  <2>1. PICK t \in 0..MaxTx : IsFirst(batch, t) /\ Place(t, <<>>)
    BY <1>3 DEF SwitchDone
  <2>2. current' \in Seq(Record) /\ batch' \in Batches /\ lastIndex' \in Nat
    BY <2>1, PlaceType, EmptySeq
  <2>3. cursor' \in Pages
    BY <1>3, RingNotEmpty DEF SwitchDone, TypeOK, Pages
  <2> QED
    BY <1>3, <2>2, <2>3, WriteType
    DEF SwitchDone, TypeOK, bufferVars, clientVars, ckVars
<1>4. CASE SwitchFail
  <2>1. AnswerErr /\ ioPc # "recv"
    BY <1>4 DEF SwitchFail
  <2>2. TxsIn(ToSet(current)) \subseteq Tx
    <3>1. TxsIn(ToSet(current) \ {}) \subseteq Tx
      BY LostAreTx DEF TypeOK
    <3>2. ToSet(current) \ {} = ToSet(current)
      OBVIOUS
    <3> QED
      BY <3>1, <3>2
  <2>3. exposed' \subseteq Tx
    BY <1>4, <2>2, WriteType DEF SwitchFail, TypeOK
  <2>4. wal' \in [Pages -> Seq(Record)]
    BY <1>4, WriteType DEF SwitchFail, TypeOK
  <2> QED
    BY <1>4, <2>1, <2>3, <2>4, AnswerType, ServedTx, NoBatchType, EmptySeq
    DEF SwitchFail, TypeOK, bufferVars
<1>5. CASE WriteDone
  <2>1. AnswerOk /\ ioPc # "recv"
    BY <1>5 DEF WriteDone, Writing
  <2>2. exposed' \subseteq Tx
    BY <1>5, WriteType DEF WriteDone, TypeOK
  <2>3. wal' \in [Pages -> Seq(Record)]
    BY <1>5, WriteType DEF WriteDone, TypeOK
  <2>4. ckq' \in Nat /\ counter' \in Nat
    BY <1>5 DEF WriteDone, TypeOK
  <2> QED
    BY <1>5, <2>1, <2>2, <2>3, <2>4, AnswerType, ServedTx
    DEF WriteDone, TypeOK, bufferVars
<1>6. CASE WriteFail
  <2>1. AnswerErr /\ ioPc # "recv"
    BY <1>6 DEF WriteFail, Writing
  <2>2. exposed' \subseteq Tx
    BY <1>6, WriteType DEF WriteFail, TypeOK
  <2>3. wal' \in [Pages -> Seq(Record)]
    BY <1>6, WriteType DEF WriteFail, TypeOK
  <2> QED
    BY <1>6, <2>1, <2>2, <2>3, AnswerType, ServedTx
    DEF WriteFail, TypeOK, bufferVars
<1> QED
  BY <1>1, <1>2, <1>3, <1>4, <1>5, <1>6 DEF Io

\* The checkpoint thread keeps the types.
LEMMA CheckpointTypeOK ==
    ASSUME TypeInv, Checkpoint
    PROVE  TypeOK'
<1> USE DEF TypeInv
<1>1. CASE CkWake
  <2>1. ckPc' = "flush" /\ ckq' \in Nat
    BY <1>1 DEF CkWake, TypeOK
  <2>2. UNCHANGED <<bufferVars, clientVars, ioq, ioVars, ckIndex, checkpoints, wal, history,
                    crashes, failures>>
    BY <1>1 DEF CkWake
  <2> QED
    BY <2>1, <2>2 DEF TypeOK, bufferVars, clientVars, ioVars, history, coverage
<1>2. CASE CkNothing
  BY <1>2 DEF CkNothing, TypeOK, bufferVars, clientVars, ioVars, history, coverage
<1>3. CASE CkDrain
  <2>1. ckIndex' \in Nat /\ checkpoints' \in Nat
    BY <1>3 DEF CkDrain, TypeOK
  <2>2. ckPc' = "drained" /\ drained' \in [Tx -> Nat]
    BY <1>3 DEF CkDrain, TypeOK
  <2> QED
    BY <1>3, <2>1, <2>2 DEF CkDrain, TypeOK, bufferVars, clientVars, ioVars
<1>4. CASE CkFlushed
  <2>1. ioq' = Append(ioq, [from |-> Checkpointer,
                            records |-> [NoBatch EXCEPT ![0] =
                                           <<Rec(0, "checkpoint", ckIndex)>>]])
    BY <1>4 DEF CkFlushed
  <2>2. Rec(0, "checkpoint", ckIndex) \in Record
    BY RecType, BoundsNatural DEF Operations, TypeOK
  <2>3. [NoBatch EXCEPT ![0] = <<Rec(0, "checkpoint", ckIndex)>>] \in Batches
    <3>1. <<Rec(0, "checkpoint", ckIndex)>> \in Seq(Record)
      BY <2>2
    <3> QED
      BY <3>1, NoBatchType DEF Batches
  <2>4. ioq' \in Seq([from : Clients \cup {Checkpointer}, records : Batches])
    BY <2>1, <2>3 DEF TypeOK
  <2>5. ckPc' = "await" /\ ckIndex' \in Nat /\ covered' \in [Tx -> Nat]
    BY <1>4 DEF CkFlushed, TypeOK
  <2> QED
    BY <1>4, <2>4, <2>5 DEF CkFlushed, TypeOK, bufferVars, clientVars, ioVars
<1>5. CASE CkFailed
  BY <1>5 DEF CkFailed, TypeOK, bufferVars, clientVars, ioVars, coverage
<1> QED
  BY <1>1, <1>2, <1>3, <1>4, <1>5 DEF Checkpoint

\* What a crash leaves is a file.
LEMMA ImageType ==
    ASSUME TypeOK, NEW image \in CrashImages
    PROVE  /\ image \in [Pages -> Seq(Record)]
           /\ LostIn(image) \subseteq Tx
           /\ \A r \in RecordsOn(image) : r \in Record
<1>1. image \in [Pages -> Seq(Record)]
  BY WriteType DEF CrashImages, TypeOK
<1>2. ASSUME NEW p \in Pages PROVE TxsIn(ToSet(wal[p]) \ ToSet(image[p])) \subseteq Tx
  <2>1. wal[p] \in Seq(Record)
    BY DEF TypeOK
  <2> QED
    BY <2>1, LostAreTx
<1>3. ASSUME NEW p \in Pages, NEW i \in DOMAIN image[p] PROVE image[p][i] \in Record
  <2>1. image[p] \in Seq(Record)
    BY <1>1
  <2> QED
    BY <2>1, ElementOfSeq
<1>4. LostIn(image) \subseteq Tx
  BY <1>2 DEF LostIn
<1>5. \A r \in RecordsOn(image) : \E p \in Pages : \E i \in DOMAIN image[p] : r = image[p][i]
  BY DEF RecordsOn, ToSet
<1> QED
  BY <1>1, <1>3, <1>4, <1>5

\* A restart keeps the types.
LEMMA RestartTypeOK ==
    ASSUME TypeInv, Restart
    PROVE  TypeOK'
<1> USE DEF TypeInv
<1>1. PICK image \in CrashImages :
        /\ wal' = image /\ exposed' = exposed \cup LostIn(image) /\ RestoreCounters(image)
        /\ forgotten' = forgotten \cup Straddling(image)
  BY DEF Restart
<1>a. forgotten' \subseteq Tx
  BY <1>1 DEF Straddling, TypeOK
<1>2. wal' \in [Pages -> Seq(Record)] /\ exposed' \subseteq Tx
  BY <1>1, ImageType DEF TypeOK
<1>3. \A r \in RecordsOn(image) : r.tx \in 0..MaxTx /\ r.index \in Nat
  BY ImageType DEF Record
<1>4. lastTx' \in 0..MaxTx
  BY <1>1, <1>3, BoundsNatural DEF RestoreCounters
<1>5. lastIndex' \in Nat /\ cursor' \in Pages
  BY <1>1, <1>3 DEF RestoreCounters
<1>6. <<>> \in Seq(Record)
      /\ <<>> \in Seq([from : Clients \cup {Checkpointer}, records : Batches])
  BY EmptySeq
<1>7. 0 \in 0..MaxTx
  BY BoundsNatural
<1> QED
  BY <1>a, <1>2, <1>4, <1>5, <1>6, <1>7, NoBatchType DEF Restart, TypeOK

\* Appending a request to the channel keeps the others where they are.
LEMMA AppendRequest ==
    ASSUME TypeOK, NEW m, ioq' = Append(ioq, m)
    PROVE  /\ Len(ioq') = Len(ioq) + 1 /\ Len(ioq) \in Nat
           /\ DOMAIN ioq = 1..Len(ioq) /\ DOMAIN ioq' = 1..Len(ioq) + 1
           /\ ioq'[Len(ioq) + 1] = m
           /\ \A k \in DOMAIN ioq : ioq'[k] = ioq[k] /\ k # Len(ioq) + 1
           /\ \A k \in DOMAIN ioq' : k = Len(ioq) + 1 \/ k \in DOMAIN ioq
<1>1. ioq \in Seq([from : Clients \cup {Checkpointer}, records : Batches])
  BY DEF TypeOK
<1> QED
  BY <1>1

\* Taking the first request moves the others one place forward.
LEMMA TakeRequest ==
    ASSUME TypeOK, ioq # <<>>, ioq' = Tail(ioq)
    PROVE  /\ Head(ioq) = ioq[1] /\ 1 \in DOMAIN ioq
           /\ \A k \in DOMAIN ioq' : /\ k + 1 \in DOMAIN ioq /\ k + 1 # 1
                                    /\ ioq'[k] = ioq[k + 1]
           /\ \A k, j \in DOMAIN ioq' : k # j => k + 1 # j + 1
<1>1. ioq \in Seq([from : Clients \cup {Checkpointer}, records : Batches])
  BY DEF TypeOK
<1> QED
  BY <1>1

\* Each action of a client keeps the protocol.
LEMMA ClientProtocol ==
    ASSUME TypeInv, NEW c \in Clients, Client(c)
    PROVE  Protocol'
<1> USE DEF TypeInv
<1>1. CASE Send(c)
  <2>1. /\ pc[c] = "send" /\ pc' = [pc EXCEPT ![c] = "await"]
        /\ ioq' = Append(ioq, [from |-> c, records |-> hand[c]])
        /\ UNCHANGED <<tx, ioPc, ioFrom>>
    BY <1>1 DEF Send, ioVars
  <2>2. pc \in [Clients -> {"idle", "check", "flush", "send", "await", "snapshot",
                           "open"}]
    BY DEF TypeOK
  <2>3. RunsTx'
    BY <2>1, <2>2 DEF Protocol, RunsTx
  <2>4. Awaited'
    BY <2>1, <2>2, AppendRequest DEF Protocol, Awaited
  <2>5. \A k \in DOMAIN ioq : ioq[k].from # c
    BY <2>1 DEF Protocol, Awaited
  <2>6. ioPc # "recv" => ioFrom # c
    BY <2>1 DEF Protocol, Awaited
  <2>7. OneRequest'
    BY <2>1, <2>5, <2>6, AppendRequest DEF Protocol, OneRequest
  <2> QED
    BY <2>3, <2>4, <2>7 DEF Protocol
<1>2. CASE Client(c) /\ ~ Send(c)
  <2>1. /\ UNCHANGED <<ioq, ioPc, ioFrom>>
        /\ pc[c] # "await"
        /\ \E v : pc' = [pc EXCEPT ![c] = v]
    BY <1>2 DEF Client, Begin, Update, Check, Flush, CommitDrain, Snapshot, Abandon,
                ioVars, Resume
  <2>2. pc \in [Clients -> {"idle", "check", "flush", "send", "await", "snapshot",
                           "open"}]
        /\ tx \in [Clients -> 0..MaxTx]
    BY DEF TypeOK
  <2>3. RunsTx'
    <3>1. CASE Begin(c)
      <4>1. lastTx + 1 \in Tx
        BY <3>1, BoundsNatural DEF Begin, TypeOK, Tx
      <4>2. tx' = [tx EXCEPT ![c] = lastTx + 1]
        BY <3>1 DEF Begin
      <4> QED
        BY <3>1, <4>1, <4>2, <2>2 DEF Begin, Protocol, RunsTx
    <3>2. CASE Abandon(c)
      BY <3>2, <2>2 DEF Abandon, Protocol, RunsTx
    <3>3. CASE ~ Begin(c) /\ ~ Abandon(c)
      BY <1>2, <2>2, <3>3
      DEF Client, Update, Check, Flush, CommitDrain, Snapshot, Protocol, RunsTx
    <3> QED
      BY <3>1, <3>2, <3>3
  <2>4. Awaited'
    BY <2>1, <2>2 DEF Protocol, Awaited
  <2>5. OneRequest'
    BY <2>1 DEF Protocol, OneRequest
  <2> QED
    BY <2>3, <2>4, <2>5 DEF Protocol
<1> QED
  BY <1>1, <1>2

\* An answer frees the client that waited, and nobody else.
LEMMA AnswerProtocol ==
    ASSUME TypeInv, ioPc # "recv", AnswerOk \/ AnswerErr, UNCHANGED ioq
    PROVE  Protocol'
<1> USE DEF TypeInv
<1>1. ioPc' = "recv"
  BY DEF AnswerOk, AnswerErr
<1>2. pc \in [Clients -> {"idle", "check", "flush", "send", "await", "snapshot", "open"}]
      /\ tx \in [Clients -> 0..MaxTx]
  BY DEF TypeOK
<1>3. \A c \in Clients : c # ioFrom => pc'[c] = pc[c] /\ tx'[c] = tx[c]
  BY <1>2 DEF AnswerOk, AnswerErr
<1>4. ioFrom \in Clients =>
        pc'[ioFrom] = "idle" \/ (tx'[ioFrom] = tx[ioFrom] /\ pc[ioFrom] # "idle")
  BY <1>2 DEF AnswerOk, AnswerErr, Protocol, Awaited
<1>5. RunsTx'
  BY <1>3, <1>4 DEF Protocol, RunsTx
<1>6. Awaited'
  BY <1>1, <1>3 DEF Protocol, Awaited, OneRequest
<1>7. OneRequest'
  BY <1>1 DEF Protocol, OneRequest
<1> QED
  BY <1>5, <1>6, <1>7 DEF Protocol

\* Each action of the io thread keeps the protocol.
LEMMA IoProtocol ==
    ASSUME TypeInv, Io
    PROVE  Protocol'
<1> USE DEF TypeInv
<1>1. CASE IoRecv
  <2>1. /\ ioq # <<>> /\ ioq' = Tail(ioq) /\ ioFrom' = Head(ioq).from
        /\ UNCHANGED <<pc, tx>>
    BY <1>1 DEF IoRecv, clientVars
  <2>2. RunsTx'
    BY <2>1 DEF Protocol, RunsTx
  <2>3. Awaited'
    BY <2>1, TakeRequest DEF Protocol, Awaited
  <2>4. OneRequest'
    BY <2>1, TakeRequest DEF Protocol, OneRequest
  <2> QED
    BY <2>2, <2>3, <2>4 DEF Protocol
<1>2. CASE IoRecord \/ SwitchDone
  <2>1. UNCHANGED <<pc, tx, ioq, ioFrom>> /\ ioPc # "recv"
    BY <1>2 DEF IoRecord, SwitchDone, clientVars
  <2> QED
    BY <2>1 DEF Protocol, RunsTx, Awaited, OneRequest
<1>3. CASE SwitchFail \/ WriteDone \/ WriteFail
  <2>1. ioPc # "recv" /\ (AnswerOk \/ AnswerErr) /\ UNCHANGED ioq
    BY <1>3 DEF SwitchFail, WriteDone, WriteFail, Writing
  <2> QED
    BY <2>1, AnswerProtocol
<1> QED
  BY <1>1, <1>2, <1>3 DEF Io

\* The checkpoint thread and a restart keep the protocol.
LEMMA CheckpointProtocol ==
    ASSUME TypeInv, Checkpoint \/ Restart
    PROVE  Protocol'
<1> USE DEF TypeInv
<1>1. CASE CkWake \/ CkNothing \/ CkDrain \/ CkFailed
  <2>1. UNCHANGED <<pc, tx, ioq, ioPc, ioFrom>>
    BY <1>1 DEF CkWake, CkNothing, CkDrain, CkFailed, clientVars, ioVars
  <2> QED
    BY <2>1 DEF Protocol, RunsTx, Awaited, OneRequest
<1>2. CASE CkFlushed
  <2>1. UNCHANGED <<pc, tx, ioPc, ioFrom>>
    BY <1>2 DEF CkFlushed, clientVars, ioVars
  <2>2. PICK m : ioq' = Append(ioq, m) /\ m.from = Checkpointer
    BY <1>2 DEF CkFlushed
  <2>3. RunsTx'
    BY <2>1 DEF Protocol, RunsTx
  <2>4. Awaited'
    BY <2>1, <2>2, AppendRequest, SendersDiffer DEF Protocol, Awaited
  <2>5. OneRequest'
    BY <2>1, <2>2, AppendRequest, SendersDiffer DEF Protocol, OneRequest
  <2> QED
    BY <2>3, <2>4, <2>5 DEF Protocol
<1>3. CASE Restart
  <2>1. /\ pc' = [c \in Clients |-> "idle"] /\ ioq' = <<>> /\ ioPc' = "recv"
    BY <1>3 DEF Restart
  <2>2. DOMAIN ioq' = {}
    BY <2>1
  <2> QED
    BY <2>1, <2>2 DEF Protocol, RunsTx, Awaited, OneRequest
<1> QED
  BY <1>1, <1>2, <1>3 DEF Checkpoint

\* Every reachable state is well typed and keeps the protocol.
THEOREM TypeInvariant == Spec => []TypeInv
<1>1. Init => TypeInv
  <2>1. Init => Protocol
    <3> SUFFICES ASSUME Init PROVE Protocol
      OBVIOUS
    <3>1. /\ pc = [c \in Clients |-> "idle"] /\ ioq = <<>> /\ ioPc = "recv"
      BY DEF Init
    <3>2. DOMAIN ioq = {}
      BY <3>1
    <3> QED
      BY <3>1, <3>2 DEF Protocol, RunsTx, Awaited, OneRequest
  <2> QED
    BY <2>1, InitTypeOK DEF TypeInv
<1>2. TypeInv /\ [Next]_vars => TypeInv'
  <2> SUFFICES ASSUME TypeInv, [Next]_vars PROVE TypeInv'
    OBVIOUS
  <2>1. ASSUME NEW c \in Clients, Client(c) PROVE TypeInv'
    BY <2>1, ClientTypeOK, ClientProtocol DEF TypeInv
  <2>2. CASE Io
    BY <2>2, IoTypeOK, IoProtocol DEF TypeInv
  <2>3. CASE Checkpoint
    BY <2>3, CheckpointTypeOK, CheckpointProtocol DEF TypeInv
  <2>4. CASE Restart
    BY <2>4, RestartTypeOK, CheckpointProtocol DEF TypeInv
  <2>5. CASE UNCHANGED vars
    BY <2>5 DEF vars, bufferVars, clientVars, ioVars, ckVars, history, coverage,
                TypeInv, TypeOK, Protocol, RunsTx, Awaited, OneRequest
  <2>6. Quiescent => UNCHANGED vars
    BY DEF Quiescent
  <2> QED
    BY <2>1, <2>2, <2>3, <2>4, <2>5, <2>6 DEF Next
<1> QED
  BY <1>1, <1>2, PTL DEF Spec

\* TypeOK holds in every reachable state: the ring's cursor never leaves the
\* file, ids never pass their bound, and the channel carries only requests.
THEOREM TypeCorrect == Spec => []TypeOK
<1>1. TypeInv => TypeOK
  BY DEF TypeInv
<1> QED
  BY <1>1, TypeInvariant, PTL

------------------------------------------------------------------------------
(* Snapshots cover acknowledged commits.  The commit record of a waiting    *)
(* client is followed from its hand through the channel and the batch to    *)
(* the moment the io thread announces its index.                            *)

HasCommit(b, t) == \E i \in DOMAIN b[t] : b[t][i].op = "commit"
Committing(c, t) == op[c] = "commit" /\ tx[c] = t

\* Ids are unique: each is at most the last one given out, no two clients run
\* the same transaction, and none runs one that was acknowledged.
IdsUnique ==
    /\ \A c \in Clients : tx[c] <= lastTx
    /\ \A t \in ackedNow : t <= lastTx
    /\ \A c, d \in Clients : tx[c] = tx[d] /\ tx[c] # 0 => c = d
    /\ \A c \in Clients : tx[c] \notin ackedNow

\* The buffer holds no commit record.
LogInv == \A t \in Tx : ~ HasCommit(logs, t)

\* A commit record in a client's hand is that client's own, and a client about
\* to send a commit has it there.
HandInv ==
    \A c \in Clients :
        /\ pc[c] \in {"check", "flush"} => op[c] # "commit"
        /\ \A t \in Tx : HasCommit(hand[c], t) => pc[c] = "send" /\ Committing(c, t)
        /\ pc[c] = "send" /\ op[c] = "commit" => HasCommit(hand[c], tx[c])

\* The same for the requests in the channel.
ChannelInv ==
    \A k \in DOMAIN ioq :
        /\ \A t \in Tx : HasCommit(ioq[k].records, t) =>
              ioq[k].from \in Clients /\ Committing(ioq[k].from, t)
        /\ ioq[k].from \in Clients /\ op[ioq[k].from] = "commit" =>
              HasCommit(ioq[k].records, tx[ioq[k].from])

\* The same for the request being served, whose commit may be past: then its
\* index was announced and given out.
BatchInv ==
    /\ \A t \in Tx : HasCommit(batch, t) =>
          ioPc # "recv" /\ ioFrom \in Clients /\ Committing(ioFrom, t)
    /\ ioPc # "recv" /\ ioFrom \in Clients /\ op[ioFrom] = "commit" =>
          HasCommit(batch, tx[ioFrom]) \/ commitAt[tx[ioFrom]] \in 1..lastIndex

\* While the page is switched the record that did not fit is still first; if it
\* is a commit it was announced with the index it will get.
SwitchInv ==
    ioPc = "switch" => \A t \in Tx : IsFirst(batch, t) /\ Head(batch[t]).op = "commit"
                                        => commitAt[t] = lastIndex + 1

\* Acknowledged commits were announced with an index already given out.
AckedInv == \A t \in ackedNow : commitAt[t] \in 1..lastIndex

CommitInv == /\ IdsUnique /\ LogInv /\ HandInv /\ ChannelInv /\ BatchInv
             /\ SwitchInv /\ AckedInv

\* A step of a client that does not wait leaves what is in the channel and with
\* the io thread as it was.
LEMMA QuietClient ==
    ASSUME TypeInv, CommitInv, NEW c \in Clients, pc[c] # "await",
           \A d \in Clients : d # c => op'[d] = op[d] /\ tx'[d] = tx[d],
           UNCHANGED <<ioq, batch, ioPc, ioFrom, commitAt, lastIndex, ackedNow>>
    PROVE  ChannelInv' /\ BatchInv' /\ SwitchInv' /\ AckedInv'
<1>1. \A k \in DOMAIN ioq : ioq[k].from # c
  BY DEF TypeInv, Protocol, Awaited
<1>2. ioPc # "recv" => ioFrom # c
  BY DEF TypeInv, Protocol, Awaited
<1>3. ChannelInv'
  BY <1>1 DEF CommitInv, ChannelInv, HasCommit, Committing
<1>4. BatchInv'
  BY <1>2 DEF CommitInv, BatchInv, HasCommit, Committing
<1>5. SwitchInv' /\ AckedInv'
  BY DEF CommitInv, SwitchInv, AckedInv, IsFirst
<1> QED
  BY <1>3, <1>4, <1>5

\* A commit's batch holds a commit record of its own transaction only.
LEMMA CommitBatchHas ==
    ASSUME TypeOK, LogInv, NEW t \in Tx
    PROVE  /\ HasCommit(CommitBatch(t), t)
           /\ \A u \in Tx : HasCommit(CommitBatch(t), u) => u = t
<1>1. t \in 0..MaxTx /\ Tx \subseteq 0..MaxTx
  BY BoundsNatural DEF Tx
<1>2. logs[t] \in Seq(Record)
  BY <1>1 DEF TypeOK, Batches
<1>3. CommitBatch(t)[t] = Append(logs[t], Rec(t, "commit", 0))
  BY <1>1 DEF CommitBatch, NoBatch
<1>4. Len(logs[t]) + 1 \in DOMAIN CommitBatch(t)[t]
      /\ CommitBatch(t)[t][Len(logs[t]) + 1] = Rec(t, "commit", 0)
  BY <1>2, <1>3
<1>5. HasCommit(CommitBatch(t), t)
  BY <1>4 DEF HasCommit, Rec
<1>6. ASSUME NEW u \in Tx, u # t PROVE CommitBatch(t)[u] = <<>>
  BY <1>1, <1>6 DEF CommitBatch, NoBatch
<1>7. DOMAIN <<>> = {}
  OBVIOUS
<1> QED
  BY <1>5, <1>6, <1>7 DEF HasCommit

LEMMA NoCommitInNoBatch == \A t \in Tx : ~ HasCommit(NoBatch, t)
<1>1. \A t \in Tx : t \in 0..MaxTx
  BY BoundsNatural DEF Tx
<1>2. \A t \in Tx : NoBatch[t] = <<>>
  BY <1>1 DEF NoBatch
<1>3. DOMAIN <<>> = {}
  OBVIOUS
<1> QED
  BY <1>2, <1>3 DEF HasCommit

\* Each action of a client keeps the strengthening.
LEMMA ClientCommitInv ==
    ASSUME TypeInv, CommitInv, NEW c \in Clients, Client(c)
    PROVE  CommitInv'
<1> USE DEF TypeInv
<1>0. /\ pc \in [Clients -> {"idle", "check", "flush", "send", "await", "snapshot", "open"}]
      /\ op \in [Clients -> {"none", "begin", "insert", "commit"}]
      /\ tx \in [Clients -> 0..MaxTx]
      /\ hand \in [Clients -> Batches]
      /\ logs \in Batches
      /\ lastTx \in 0..MaxTx
      /\ ackedNow \subseteq Tx
  BY DEF TypeOK
<1>1. Tx \subseteq 0..MaxTx /\ Tx \subseteq Nat \ {0}
  BY BoundsNatural DEF Tx
<1>2. CASE Begin(c)
  <2> DEFINE t == lastTx + 1
  <2>1. /\ pc[c] = "idle" /\ lastTx' = t /\ tx' = [tx EXCEPT ![c] = t]
        /\ logs' = [logs EXCEPT ![t] = <<Rec(t, "start", 0)>>]
        /\ pc' = [pc EXCEPT ![c] = "check"] /\ op' = [op EXCEPT ![c] = "begin"]
        /\ UNCHANGED <<hand, ioq, batch, ioPc, ioFrom, commitAt, lastIndex, ackedNow>>
    BY <1>2 DEF Begin, ioVars
  <2>2. IdsUnique'
    BY <1>0, <1>1, <2>1, BoundsNatural DEF CommitInv, IdsUnique
  <2>3. LogInv'
    <3>1. ASSUME NEW u \in Tx, u # t PROVE ~ HasCommit(logs', u)
      BY <1>0, <1>1, <2>1, <3>1 DEF CommitInv, LogInv, HasCommit, Batches
    <3>2. t \in Tx => logs'[t] = <<Rec(t, "start", 0)>>
      BY <1>0, <1>1, <2>1 DEF Batches
    <3>3. t \in Tx => ~ HasCommit(logs', t)
      BY <3>2 DEF HasCommit, Rec
    <3> QED
      BY <3>1, <3>3 DEF LogInv, HasCommit
  <2>4. HandInv'
    BY <1>0, <2>1 DEF CommitInv, HandInv, HasCommit, Committing
  <2> QED
    BY <1>0, <2>1, <2>2, <2>3, <2>4, QuietClient DEF CommitInv
<1>3. CASE Update(c)
  <2>1. /\ pc[c] = "open" /\ pc' = [pc EXCEPT ![c] = "check"]
        /\ op' = [op EXCEPT ![c] = "insert"]
        /\ logs' = [logs EXCEPT ![tx[c]] =
                        Append(@, Rec(tx[c], "insert", writes[tx[c]] + 1))]
        /\ UNCHANGED <<lastTx, tx, hand, ioq, batch, ioPc, ioFrom, commitAt, lastIndex,
                        ackedNow>>
    BY <1>3 DEF Update, ioVars
  <2>2. IdsUnique'
    BY <2>1 DEF CommitInv, IdsUnique
  <2>3. LogInv'
    <3>1. ASSUME NEW u \in Tx, u # tx[c] PROVE ~ HasCommit(logs', u)
      BY <1>0, <1>1, <2>1, <3>1 DEF CommitInv, LogInv, HasCommit, Batches
    <3>2. tx[c] \in Tx
      BY <2>1 DEF Protocol, RunsTx
    <3>3. logs[tx[c]] \in Seq(Record) /\ ~ HasCommit(logs, tx[c])
      BY <1>0, <1>1, <3>2 DEF CommitInv, LogInv, Batches
    <3>4. logs'[tx[c]] = Append(logs[tx[c]], Rec(tx[c], "insert", writes[tx[c]] + 1))
      BY <1>0, <1>1, <2>1, <3>2 DEF Batches
    <3>5. ASSUME NEW i \in DOMAIN logs'[tx[c]] PROVE logs'[tx[c]][i].op # "commit"
      <4>1. CASE i = Len(logs[tx[c]]) + 1
        BY <3>3, <3>4, <4>1 DEF Rec
      <4>2. CASE i # Len(logs[tx[c]]) + 1
        BY <3>3, <3>4, <3>5, <4>2 DEF HasCommit
      <4> QED
        BY <4>1, <4>2
    <3>6. ~ HasCommit(logs', tx[c])
      BY <3>5 DEF HasCommit
    <3> QED
      BY <3>1, <3>6 DEF LogInv, HasCommit
  <2>4. HandInv'
    BY <1>0, <2>1 DEF CommitInv, HandInv, HasCommit, Committing
  <2> QED
    BY <1>0, <2>1, <2>2, <2>3, <2>4, QuietClient DEF CommitInv
<1>4. CASE Check(c) \/ Snapshot(c)
  <2>1. /\ pc[c] \in {"check", "snapshot"}
        /\ \/ pc[c] = "check" /\ pc' = [pc EXCEPT ![c] = "flush"]
           \/ pc' = [pc EXCEPT ![c] = "snapshot"]
           \/ pc' = [pc EXCEPT ![c] = "open"]
        /\ UNCHANGED <<lastTx, logs, op, tx, hand, ioq, batch, ioPc, ioFrom, commitAt,
                        lastIndex, ackedNow>>
    BY <1>4 DEF Check, Snapshot, Resume, bufferVars, ioVars, history, coverage
  <2>2. HandInv'
    BY <1>0, <2>1 DEF CommitInv, HandInv, HasCommit, Committing
  <2>3. IdsUnique' /\ LogInv'
    BY <2>1 DEF CommitInv, IdsUnique, LogInv, HasCommit
  <2> QED
    BY <1>0, <2>1, <2>2, <2>3, QuietClient DEF CommitInv
<1>5. CASE Flush(c)
  <2>1. /\ pc[c] = "flush" /\ pc' = [pc EXCEPT ![c] = "send"]
        /\ hand' = [hand EXCEPT ![c] = logs] /\ logs' = NoBatch
        /\ UNCHANGED <<lastTx, op, tx, ioq, batch, ioPc, ioFrom, commitAt, lastIndex,
                        ackedNow>>
    BY <1>5 DEF Flush, ioVars, history, coverage
  <2>2. LogInv'
    BY <2>1, NoCommitInNoBatch DEF LogInv, HasCommit
  <2>3. HandInv'
    BY <1>0, <2>1 DEF CommitInv, HandInv, LogInv, HasCommit, Committing
  <2>4. IdsUnique'
    BY <2>1 DEF CommitInv, IdsUnique
  <2> QED
    BY <1>0, <2>1, <2>2, <2>3, <2>4, QuietClient DEF CommitInv
<1>6. CASE CommitDrain(c)
  <2>1. /\ pc[c] = "open" /\ pc' = [pc EXCEPT ![c] = "send"]
        /\ op' = [op EXCEPT ![c] = "commit"]
        /\ hand' = [hand EXCEPT ![c] = CommitBatch(tx[c])]
        /\ logs' = [logs EXCEPT ![tx[c]] = <<>>]
        /\ UNCHANGED <<lastTx, tx, ioq, batch, ioPc, ioFrom, commitAt, lastIndex,
                        ackedNow>>
    BY <1>6 DEF CommitDrain, ioVars
  <2>2. tx[c] \in Tx
    BY <2>1 DEF Protocol, RunsTx
  <2>3. LogInv'
    <3>1. DOMAIN <<>> = {}
      OBVIOUS
    <3> QED
      BY <1>0, <1>1, <2>1, <3>1 DEF CommitInv, LogInv, HasCommit, Batches
  <2>4. HandInv'
    <3>1. /\ HasCommit(CommitBatch(tx[c]), tx[c])
          /\ \A u \in Tx : HasCommit(CommitBatch(tx[c]), u) => u = tx[c]
      BY <2>2, CommitBatchHas DEF CommitInv
    <3> QED
      BY <1>0, <2>1, <3>1 DEF CommitInv, HandInv, HasCommit, Committing
  <2>5. IdsUnique'
    BY <2>1 DEF CommitInv, IdsUnique
  <2> QED
    BY <1>0, <2>1, <2>3, <2>4, <2>5, QuietClient DEF CommitInv
<1>7. CASE Send(c)
  <2>1. /\ pc[c] = "send" /\ pc' = [pc EXCEPT ![c] = "await"]
        /\ ioq' = Append(ioq, [from |-> c, records |-> hand[c]])
        /\ hand' = [hand EXCEPT ![c] = NoBatch]
        /\ UNCHANGED <<lastTx, logs, op, tx, batch, ioPc, ioFrom, commitAt, lastIndex,
                        ackedNow>>
    BY <1>7 DEF Send, bufferVars, ioVars, history, coverage
  <2>2. HandInv'
    BY <1>0, <2>1, NoCommitInNoBatch DEF CommitInv, HandInv, HasCommit, Committing
  <2>3. ChannelInv'
    <3> DEFINE m == [from |-> c, records |-> hand[c]]
    <3>1. \A t \in Tx : HasCommit(hand[c], t) => Committing(c, t)
      BY DEF CommitInv, HandInv
    <3>2. op[c] = "commit" => HasCommit(hand[c], tx[c])
      BY <2>1 DEF CommitInv, HandInv
    <3>3. m.from = c /\ m.records = hand[c]
      OBVIOUS
    <3>4. ASSUME NEW k \in DOMAIN ioq'
          PROVE  ioq'[k] = m \/ (k \in DOMAIN ioq /\ ioq'[k] = ioq[k])
      BY <2>1, <3>4, AppendRequest
    <3> HIDE DEF m
    <3>5. ASSUME NEW k \in DOMAIN ioq', NEW t \in Tx, HasCommit(ioq'[k].records, t)
          PROVE  ioq'[k].from \in Clients /\ Committing(ioq'[k].from, t)
      <4>1. CASE ioq'[k] = m
        BY <3>1, <3>3, <3>5, <4>1
      <4>2. CASE k \in DOMAIN ioq /\ ioq'[k] = ioq[k]
        BY <3>5, <4>2 DEF CommitInv, ChannelInv
      <4> QED
        BY <3>4, <4>1, <4>2
    <3>6. ASSUME NEW k \in DOMAIN ioq', ioq'[k].from \in Clients, op[ioq'[k].from] = "commit"
          PROVE  HasCommit(ioq'[k].records, tx[ioq'[k].from])
      <4>1. CASE ioq'[k] = m
        BY <3>2, <3>3, <3>6, <4>1
      <4>2. CASE k \in DOMAIN ioq /\ ioq'[k] = ioq[k]
        BY <3>6, <4>2 DEF CommitInv, ChannelInv
      <4> QED
        BY <3>4, <4>1, <4>2
    <3> QED
      BY <2>1, <3>5, <3>6 DEF ChannelInv, HasCommit, Committing
  <2>4. IdsUnique' /\ LogInv'
    BY <2>1 DEF CommitInv, IdsUnique, LogInv, HasCommit
  <2>5. BatchInv'
    BY <2>1 DEF CommitInv, BatchInv, HasCommit, Committing
  <2>6. SwitchInv' /\ AckedInv'
    BY <2>1 DEF CommitInv, SwitchInv, AckedInv, IsFirst
  <2> QED
    BY <2>2, <2>3, <2>4, <2>5, <2>6 DEF CommitInv
<1>8. CASE Abandon(c)
  <2>1. /\ pc[c] = "open" /\ pc' = [pc EXCEPT ![c] = "idle"]
        /\ tx' = [tx EXCEPT ![c] = 0] /\ op' = [op EXCEPT ![c] = "none"]
        /\ UNCHANGED <<lastTx, logs, hand, ioq, batch, ioPc, ioFrom, commitAt, lastIndex,
                        ackedNow>>
    BY <1>8 DEF Abandon, bufferVars, ioVars, history, coverage
  <2>2. HandInv'
    BY <1>0, <2>1 DEF CommitInv, HandInv, HasCommit, Committing
  <2>3. IdsUnique' /\ LogInv'
    BY <1>0, <1>1, <2>1 DEF CommitInv, IdsUnique, LogInv, HasCommit
  <2> QED
    BY <1>0, <2>1, <2>2, <2>3, QuietClient DEF CommitInv
<1> QED
  BY <1>2, <1>3, <1>4, <1>5, <1>6, <1>7, <1>8 DEF Client

\* Taking the head of a sequence moves the rest one place forward.
LEMMA TailShift ==
    ASSUME NEW s \in Seq(Record), s # <<>>
    PROVE  /\ \A i \in DOMAIN Tail(s) : i + 1 \in DOMAIN s /\ Tail(s)[i] = s[i + 1]
           /\ \A i \in DOMAIN s : i = 1 \/ (i - 1 \in DOMAIN Tail(s) /\ Tail(s)[i - 1] = s[i])
           /\ Head(s) = s[1]
<1>1. Len(s) \in Nat /\ DOMAIN s = 1..Len(s)
  OBVIOUS
<1>2. Tail(s) \in Seq(Record) /\ Len(Tail(s)) = Len(s) - 1
  BY HeadTailProperties
<1>3. DOMAIN Tail(s) = 1..(Len(s) - 1)
  BY <1>2
<1>4. \A i \in 1..(Len(s) - 1) : Tail(s)[i] = s[i + 1]
  BY <1>2, HeadTailProperties
<1>5. \A i \in DOMAIN Tail(s) : i + 1 \in DOMAIN s /\ Tail(s)[i] = s[i + 1]
  BY <1>1, <1>3, <1>4
<1>6. ASSUME NEW i \in DOMAIN s, i # 1
      PROVE  i - 1 \in DOMAIN Tail(s) /\ Tail(s)[i - 1] = s[i]
  <2>1. i - 1 \in 1..(Len(s) - 1) /\ (i - 1) + 1 = i
    BY <1>1, <1>6
  <2> QED
    BY <1>3, <1>4, <2>1
<1>7. \A i \in DOMAIN s : i = 1 \/ (i - 1 \in DOMAIN Tail(s) /\ Tail(s)[i - 1] = s[i])
  BY <1>6
<1>8. Head(s) = s[1]
  OBVIOUS
<1> QED
  BY <1>5, <1>7, <1>8

\* One record placed: a commit among what was left is either still left, or it
\* was this record and its announced index is now given out.
LEMMA PlaceCommit ==
    ASSUME TypeOK, NEW t \in 0..MaxTx, IsFirst(batch, t),
           NEW entry, Place(t, entry), NEW u \in Tx
    PROVE  /\ HasCommit(batch', u) => HasCommit(batch, u)
           /\ HasCommit(batch, u) => HasCommit(batch', u)
                                     \/ (u = t /\ Head(batch[t]).op = "commit")
<1>1. u \in 0..MaxTx /\ batch \in Batches
  BY BoundsNatural DEF Tx, TypeOK
<1>2. batch' = [batch EXCEPT ![t] = Tail(@)]
  BY DEF Place
<1>3. CASE u # t
  BY <1>1, <1>2, <1>3 DEF HasCommit, Batches
<1>4. CASE u = t
  <2>1. batch[t] \in Seq(Record) /\ batch[t] # <<>> /\ batch'[t] = Tail(batch[t])
    BY <1>1, <1>2 DEF Batches, IsFirst
  <2>2. /\ \A i \in DOMAIN batch'[t] : i + 1 \in DOMAIN batch[t]
                                        /\ batch'[t][i] = batch[t][i + 1]
        /\ \A i \in DOMAIN batch[t] : i = 1 \/ (/\ i - 1 \in DOMAIN batch'[t]
                                                /\ batch'[t][i - 1] = batch[t][i])
        /\ Head(batch[t]) = batch[t][1]
    BY <2>1, TailShift
  <2> QED
    BY <1>4, <2>2 DEF HasCommit
<1> QED
  BY <1>3, <1>4

\* The record that is first is of one transaction.
LEMMA FirstUnique ==
    ASSUME NEW b, NEW t \in 0..MaxTx, NEW u \in 0..MaxTx, IsFirst(b, t), IsFirst(b, u)
    PROVE  t = u
<1>1. t <= u /\ u <= t
  BY DEF IsFirst
<1> QED
  BY <1>1, BoundsNatural

\* A commit at the head of what is left is a commit of what is left.
LEMMA HeadIsCommit ==
    ASSUME TypeOK, NEW t \in 0..MaxTx, IsFirst(batch, t), Head(batch[t]).op = "commit"
    PROVE  HasCommit(batch, t)
<1>1. batch[t] \in Seq(Record) /\ batch[t] # <<>>
  BY DEF TypeOK, Batches, IsFirst
<1>2. 1 \in DOMAIN batch[t] /\ Head(batch[t]) = batch[t][1]
  BY <1>1
<1> QED
  BY <1>2 DEF HasCommit

\* An answer keeps the strengthening when nothing is left of the request: the
\* acknowledged commit was announced.
LEMMA AnswerCommitInv ==
    ASSUME TypeInv, CommitInv, ioPc # "recv",
           AnswerErr \/ (AnswerOk /\ \A t \in Tx : ~ HasCommit(batch, t)),
           \A t \in Tx : ~ HasCommit(batch', t),
           UNCHANGED <<lastTx, logs, hand, ioq, commitAt, lastIndex>>
    PROVE  CommitInv'
<1> USE DEF TypeInv
<1>0. /\ pc \in [Clients -> {"idle", "check", "flush", "send", "await", "snapshot", "open"}]
      /\ op \in [Clients -> {"none", "begin", "insert", "commit"}]
      /\ tx \in [Clients -> 0..MaxTx]
      /\ ackedNow \subseteq Tx /\ lastTx \in 0..MaxTx
  BY DEF TypeOK
<1>1. Tx \subseteq 0..MaxTx /\ Tx \subseteq Nat \ {0} /\ 0..MaxTx \subseteq Nat
  BY BoundsNatural DEF Tx
<1>2. ioPc' = "recv"
  BY DEF AnswerOk, AnswerErr
<1>3. \A c \in Clients : c # ioFrom => pc'[c] = pc[c] /\ tx'[c] = tx[c] /\ op'[c] = op[c]
  BY <1>0 DEF AnswerOk, AnswerErr
<1>4. ioFrom \in Clients =>
        /\ pc[ioFrom] = "await"
        /\ pc'[ioFrom] \in {"idle", "snapshot", "open"}
        /\ tx'[ioFrom] \in {0, tx[ioFrom]}
  <2>1. ioFrom \in Clients => pc[ioFrom] = "await"
    BY DEF Protocol, Awaited
  <2> QED
    BY <1>0, <2>1 DEF AnswerOk, AnswerErr, Resume
<1>5. \/ ackedNow' = ackedNow
      \/ /\ AnswerOk /\ ioFrom \in Clients /\ op[ioFrom] = "commit"
         /\ ackedNow' = ackedNow \cup {tx[ioFrom]} /\ tx'[ioFrom] = 0
         /\ \A t \in Tx : ~ HasCommit(batch, t)
  BY <1>0 DEF AnswerOk, AnswerErr
<1>6. ioFrom \in Clients => tx[ioFrom] \in Tx
  BY ServedTx
<1>7. IdsUnique'
  <2>1. \A c \in Clients : tx'[c] = 0 \/ tx'[c] = tx[c]
    BY <1>3, <1>4
  <2>2. \A c \in Clients : tx'[c] <= lastTx'
    BY <1>0, <1>1, <2>1 DEF CommitInv, IdsUnique
  <2>3. \A t \in ackedNow' : t <= lastTx'
    BY <1>5 DEF CommitInv, IdsUnique
  <2>4. \A c, d \in Clients : tx'[c] = tx'[d] /\ tx'[c] # 0 => c = d
    BY <2>1 DEF CommitInv, IdsUnique
  <2>5. \A c \in Clients : tx'[c] \notin ackedNow'
    <3> SUFFICES ASSUME NEW c \in Clients PROVE tx'[c] \notin ackedNow'
      OBVIOUS
    <3>1. 0 \notin ackedNow'
      BY <1>0, <1>1, <1>5, <1>6
    <3>2. CASE tx'[c] = 0
      BY <3>1, <3>2
    <3>3. CASE tx'[c] # 0
      <4>1. tx'[c] = tx[c] /\ tx[c] \notin ackedNow
        BY <2>1, <3>3 DEF CommitInv, IdsUnique
      <4>2. ackedNow' # ackedNow => c # ioFrom
        BY <1>5, <3>3
      <4>3. ackedNow' # ackedNow => tx[c] # tx[ioFrom]
        BY <1>5, <3>3, <4>1, <4>2 DEF CommitInv, IdsUnique
      <4> QED
        BY <1>5, <4>1, <4>3
    <3> QED
      BY <3>2, <3>3
  <2> QED
    BY <2>2, <2>3, <2>4, <2>5 DEF IdsUnique
<1>8. LogInv'
  BY DEF CommitInv, LogInv, HasCommit
<1>9. HandInv'
  <2> SUFFICES ASSUME NEW c \in Clients
               PROVE  /\ pc'[c] \in {"check", "flush"} => op'[c] # "commit"
                      /\ \A t \in Tx : HasCommit(hand'[c], t) =>
                            pc'[c] = "send" /\ op'[c] = "commit" /\ tx'[c] = t
                      /\ pc'[c] = "send" /\ op'[c] = "commit" =>
                            HasCommit(hand'[c], tx'[c])
    BY DEF HandInv, Committing
  <2>1. CASE c # ioFrom
    BY <1>3, <2>1 DEF CommitInv, HandInv, HasCommit, Committing
  <2>2. CASE c = ioFrom
    BY <1>4, <2>2 DEF CommitInv, HandInv, HasCommit
  <2> QED
    BY <2>1, <2>2
<1>10. ChannelInv'
  <2>1. \A k \in DOMAIN ioq : ioq[k].from = ioFrom => ioFrom \notin Clients
    BY DEF Protocol, OneRequest
  <2> QED
    BY <1>3, <2>1 DEF CommitInv, ChannelInv, HasCommit, Committing
<1>11. BatchInv' /\ SwitchInv'
  BY <1>2 DEF BatchInv, SwitchInv, HasCommit
<1>12. AckedInv'
  BY <1>5, <1>6 DEF CommitInv, AckedInv, BatchInv
<1> QED
  BY <1>7, <1>8, <1>9, <1>10, <1>11, <1>12 DEF CommitInv

\* Each action of the io thread keeps the strengthening.
LEMMA IoCommitInv ==
    ASSUME TypeInv, CommitInv, Io
    PROVE  CommitInv'
<1> USE DEF TypeInv
<1>0. commitAt \in [Tx -> Nat] /\ lastIndex \in Nat /\ Tx \subseteq 0..MaxTx
  BY BoundsNatural DEF TypeOK, Tx
<1>1. CASE IoRecv
  <2>1. /\ ioPc = "recv" /\ ioPc' = "loop" /\ ioq # <<>> /\ ioq' = Tail(ioq)
        /\ ioFrom' = Head(ioq).from /\ batch' = Head(ioq).records
        /\ UNCHANGED <<lastTx, logs, pc, op, tx, hand, lastIndex, commitAt, ackedNow>>
    BY <1>1 DEF IoRecv, bufferVars, clientVars, history, coverage
  <2>2. IdsUnique' /\ LogInv'
    BY <2>1 DEF CommitInv, IdsUnique, LogInv, HasCommit
  <2>3. HandInv'
    BY <2>1 DEF CommitInv, HandInv, HasCommit, Committing
  <2>4. ChannelInv'
    BY <2>1, TakeRequest DEF CommitInv, ChannelInv, HasCommit, Committing
  <2>5. BatchInv'
    BY <2>1, TakeRequest DEF CommitInv, ChannelInv, BatchInv, HasCommit, Committing
  <2>6. SwitchInv' /\ AckedInv'
    BY <2>1 DEF CommitInv, SwitchInv, AckedInv
  <2> QED
    BY <2>2, <2>3, <2>4, <2>5, <2>6 DEF CommitInv
<1>2. CASE IoRecord
  <2>1. PICK t \in 0..MaxTx :
          /\ IsFirst(batch, t)
          /\ commitAt' = IF Head(batch[t]).op = "commit"
                         THEN [commitAt EXCEPT ![t] = lastIndex + 1] ELSE commitAt
          /\ \/ Place(t, current) /\ ioPc' = ioPc
             \/ ioPc' = "switch" /\ UNCHANGED <<current, batch, lastIndex>>
    BY <1>2 DEF IoRecord
  <2>2. /\ ioPc = "loop"
        /\ UNCHANGED <<lastTx, logs, pc, op, tx, hand, ioq, ioFrom, ackedNow>>
    BY <1>2 DEF IoRecord, bufferVars, clientVars
  <2>3. IdsUnique' /\ LogInv'
    BY <2>2 DEF CommitInv, IdsUnique, LogInv, HasCommit
  <2>4. HandInv' /\ ChannelInv'
    BY <2>2 DEF CommitInv, HandInv, ChannelInv, HasCommit, Committing
  <2>5. lastIndex' \in {lastIndex, lastIndex + 1}
    BY <2>1 DEF Place
  <2>6. t \in Tx /\ Head(batch[t]).op = "commit" => t \notin ackedNow
    BY <2>1, HeadIsCommit DEF CommitInv, BatchInv, Committing, IdsUnique
  <2>7. AckedInv'
    <3> SUFFICES ASSUME NEW u \in ackedNow PROVE commitAt'[u] \in 1..lastIndex'
      BY <2>2 DEF AckedInv
    <3>1. u \in Tx /\ commitAt[u] \in 1..lastIndex
      BY DEF CommitInv, AckedInv, TypeOK
    <3>2. commitAt'[u] = commitAt[u]
      BY <1>0, <2>1, <2>6, <3>1
    <3> QED
      BY <1>0, <2>5, <3>1, <3>2
  <2>8. BatchInv' /\ SwitchInv'
    <3>1. CASE Place(t, current) /\ ioPc' = ioPc
      <4>1. \A u \in Tx : HasCommit(batch', u) => HasCommit(batch, u)
        BY <2>1, <3>1, PlaceCommit
      <4>2. ASSUME ioFrom \in Clients, op[ioFrom] = "commit"
            PROVE  HasCommit(batch', tx[ioFrom])
                   \/ commitAt'[tx[ioFrom]] \in 1..lastIndex'
        <5> DEFINE u == tx[ioFrom]
        <5>1. u \in Tx
          BY <2>2, <4>2, ServedTx
        <5>2. lastIndex' = lastIndex + 1
          BY <3>1 DEF Place
        <5>3. CASE u = t /\ Head(batch[t]).op = "commit"
          <6>1. commitAt'[u] = lastIndex + 1
            BY <1>0, <2>1, <5>1, <5>3
          <6> QED
            BY <1>0, <5>2, <6>1
        <5>4. CASE ~ (u = t /\ Head(batch[t]).op = "commit")
          <6>1. commitAt'[u] = commitAt[u]
            BY <1>0, <2>1, <5>1, <5>4
          <6>2. HasCommit(batch, u) => HasCommit(batch', u)
            BY <2>1, <3>1, <5>1, <5>4, PlaceCommit
          <6>3. HasCommit(batch, u) \/ commitAt[u] \in 1..lastIndex
            BY <2>2, <4>2 DEF CommitInv, BatchInv
          <6> QED
            BY <1>0, <5>2, <6>1, <6>2, <6>3
        <5> QED
          BY <5>3, <5>4
      <4>3. BatchInv'
        BY <2>2, <3>1, <4>1, <4>2 DEF CommitInv, BatchInv, HasCommit, Committing
      <4>4. SwitchInv'
        BY <2>2, <3>1 DEF SwitchInv
      <4> QED
        BY <4>3, <4>4
    <3>2. CASE ioPc' = "switch" /\ UNCHANGED <<current, batch, lastIndex>>
      <4>1. SwitchInv'
        <5> SUFFICES ASSUME NEW u \in Tx, IsFirst(batch, u), Head(batch[u]).op = "commit"
                     PROVE  commitAt'[u] = lastIndex + 1
          BY <3>2 DEF SwitchInv, IsFirst
        <5>1. u = t
          BY <1>0, <2>1, FirstUnique
        <5> QED
          BY <1>0, <2>1, <5>1
      <4>2. BatchInv'
        <5>1. ASSUME NEW u \in Tx, commitAt[u] \in 1..lastIndex, ~ HasCommit(batch, u)
              PROVE  commitAt'[u] = commitAt[u]
          BY <1>0, <2>1, <5>1, HeadIsCommit
        <5>2. ioFrom \in Clients => tx[ioFrom] \in Tx
          BY <2>2, ServedTx
        <5> QED
          BY <2>2, <3>2, <5>1, <5>2 DEF CommitInv, BatchInv, HasCommit, Committing
      <4> QED
        BY <4>1, <4>2
    <3> QED
      BY <2>1, <3>1, <3>2
  <2> QED
    BY <2>3, <2>4, <2>7, <2>8 DEF CommitInv
<1>3. CASE SwitchDone
  <2>1. PICK t \in 0..MaxTx : IsFirst(batch, t) /\ Place(t, <<>>)
    BY <1>3 DEF SwitchDone
  <2>2. /\ ioPc = "switch" /\ ioPc' = "loop"
        /\ UNCHANGED <<lastTx, logs, pc, op, tx, hand, ioq, ioFrom, ackedNow, commitAt>>
    BY <1>3 DEF SwitchDone, bufferVars, clientVars
  <2>3. lastIndex' = lastIndex + 1
    BY <2>1 DEF Place
  <2>4. IdsUnique' /\ LogInv'
    BY <2>2 DEF CommitInv, IdsUnique, LogInv, HasCommit
  <2>5. HandInv' /\ ChannelInv'
    BY <2>2 DEF CommitInv, HandInv, ChannelInv, HasCommit, Committing
  <2>6. AckedInv' /\ SwitchInv'
    BY <1>0, <2>2, <2>3 DEF CommitInv, AckedInv, SwitchInv
  <2>7. \A u \in Tx : HasCommit(batch', u) => HasCommit(batch, u)
    BY <2>1, PlaceCommit
  <2>8. ASSUME ioFrom \in Clients, op[ioFrom] = "commit"
        PROVE  HasCommit(batch', tx[ioFrom]) \/ commitAt[tx[ioFrom]] \in 1..lastIndex'
    <3>1. tx[ioFrom] \in Tx
      BY <2>2, <2>8, ServedTx
    <3>2. tx[ioFrom] = t /\ Head(batch[t]).op = "commit" => commitAt[t] = lastIndex + 1
      BY <2>1, <2>2, <3>1 DEF CommitInv, SwitchInv
    <3>3. HasCommit(batch, tx[ioFrom]) \/ commitAt[tx[ioFrom]] \in 1..lastIndex
      BY <2>2, <2>8 DEF CommitInv, BatchInv
    <3>4. HasCommit(batch, tx[ioFrom]) => HasCommit(batch', tx[ioFrom])
              \/ (tx[ioFrom] = t /\ Head(batch[t]).op = "commit")
      BY <2>1, <3>1, PlaceCommit
    <3> QED
      BY <1>0, <2>3, <3>2, <3>3, <3>4
  <2>9. BatchInv'
    BY <2>2, <2>7, <2>8 DEF CommitInv, BatchInv, HasCommit, Committing
  <2> QED
    BY <2>4, <2>5, <2>6, <2>9 DEF CommitInv
<1>4. CASE SwitchFail
  <2>1. /\ ioPc # "recv" /\ AnswerErr /\ batch' = NoBatch
        /\ UNCHANGED <<lastTx, logs, hand, ioq, commitAt, lastIndex>>
    BY <1>4 DEF SwitchFail, bufferVars
  <2>2. \A t \in Tx : ~ HasCommit(batch', t)
    BY <2>1, NoCommitInNoBatch DEF HasCommit
  <2> QED
    BY <2>1, <2>2, AnswerCommitInv
<1>5. CASE WriteDone \/ WriteFail
  <2>1. /\ ioPc # "recv" /\ (AnswerErr \/ AnswerOk) /\ IsEmpty(batch) /\ batch' = batch
        /\ UNCHANGED <<lastTx, logs, hand, ioq, commitAt, lastIndex>>
    BY <1>5 DEF WriteDone, WriteFail, Writing, bufferVars
  <2>2. \A t \in Tx : ~ HasCommit(batch, t) /\ ~ HasCommit(batch', t)
    <3>1. \A t \in Tx : batch[t] = <<>>
      BY <1>0, <2>1 DEF IsEmpty
    <3>2. DOMAIN <<>> = {}
      OBVIOUS
    <3> QED
      BY <2>1, <3>1, <3>2 DEF HasCommit
  <2> QED
    BY <2>1, <2>2, AnswerCommitInv
<1> QED
  BY <1>1, <1>2, <1>3, <1>4, <1>5 DEF Io

\* The checkpoint thread and a restart keep the strengthening.
LEMMA CheckpointCommitInv ==
    ASSUME TypeInv, CommitInv, Checkpoint \/ Restart
    PROVE  CommitInv'
<1> USE DEF TypeInv
<1>1. CASE CkWake \/ CkNothing \/ CkDrain \/ CkFailed
  <2>1. UNCHANGED <<lastTx, logs, pc, op, tx, hand, ioq, ioPc, ioFrom, batch, lastIndex,
                    commitAt, ackedNow>>
    BY <1>1 DEF CkWake, CkNothing, CkDrain, CkFailed, bufferVars, clientVars, ioVars, history, coverage
  <2>2. IdsUnique' /\ LogInv' /\ HandInv'
    BY <2>1 DEF CommitInv, IdsUnique, LogInv, HandInv, HasCommit, Committing
  <2>3. ChannelInv' /\ BatchInv'
    BY <2>1 DEF CommitInv, ChannelInv, BatchInv, HasCommit, Committing
  <2>4. SwitchInv' /\ AckedInv'
    BY <2>1 DEF CommitInv, SwitchInv, AckedInv, IsFirst
  <2> QED
    BY <2>2, <2>3, <2>4 DEF CommitInv
<1>2. CASE CkFlushed
  <2>1. UNCHANGED <<lastTx, logs, pc, op, tx, hand, ioPc, ioFrom, batch, lastIndex,
                    commitAt, ackedNow>>
    BY <1>2 DEF CkFlushed, bufferVars, clientVars, ioVars, history, coverage
  <2>2. PICK i : ioq' = Append(ioq, [from |-> Checkpointer,
                                     records |-> [NoBatch EXCEPT ![0] =
                                                    <<Rec(0, "checkpoint", i)>>]])
    BY <1>2 DEF CkFlushed
  <2> DEFINE b == [NoBatch EXCEPT ![0] = <<Rec(0, "checkpoint", i)>>]
             m == [from |-> Checkpointer, records |-> b]
  <2>3. \A t \in Tx : ~ HasCommit(b, t)
    <3>1. \A t \in Tx : b[t] = <<>>
      BY BoundsNatural DEF Tx, NoBatch
    <3>2. DOMAIN <<>> = {}
      OBVIOUS
    <3> QED
      BY <3>1, <3>2 DEF HasCommit
  <2>4. m.from \notin Clients /\ m.records = b
    BY SendersDiffer
  <2>5. ASSUME NEW k \in DOMAIN ioq'
        PROVE  ioq'[k] = m \/ (k \in DOMAIN ioq /\ ioq'[k] = ioq[k])
    BY <2>2, <2>5, AppendRequest
  <2>6. ChannelInv'
    <3> HIDE DEF b, m
    <3> QED
      BY <2>1, <2>3, <2>4, <2>5 DEF CommitInv, ChannelInv, HasCommit, Committing
  <2>7. IdsUnique' /\ LogInv' /\ HandInv'
    BY <2>1 DEF CommitInv, IdsUnique, LogInv, HandInv, HasCommit, Committing
  <2>8. BatchInv'
    BY <2>1 DEF CommitInv, BatchInv, HasCommit, Committing
  <2>9. SwitchInv' /\ AckedInv'
    BY <2>1 DEF CommitInv, SwitchInv, AckedInv, IsFirst
  <2> QED
    BY <2>6, <2>7, <2>8, <2>9 DEF CommitInv
<1>3. CASE Restart
  <2>1. /\ pc' = [c \in Clients |-> "idle"] /\ op' = [c \in Clients |-> "none"]
        /\ tx' = [c \in Clients |-> 0] /\ hand' = [c \in Clients |-> NoBatch]
        /\ logs' = NoBatch /\ batch' = NoBatch /\ ioq' = <<>> /\ ioPc' = "recv"
        /\ ackedNow' = {}
    BY <1>3 DEF Restart
  <2>2. lastTx' \in Nat
    BY <1>3, RestartTypeOK, BoundsNatural DEF TypeOK
  <2>3. IdsUnique'
    BY <2>1, <2>2 DEF IdsUnique
  <2>4. LogInv' /\ HandInv'
    BY <2>1, NoCommitInNoBatch DEF LogInv, HandInv, HasCommit
  <2>5. DOMAIN ioq' = {}
    BY <2>1
  <2>6. ChannelInv' /\ BatchInv'
    BY <2>1, <2>5, NoCommitInNoBatch DEF ChannelInv, BatchInv, HasCommit
  <2>7. SwitchInv' /\ AckedInv'
    BY <2>1 DEF SwitchInv, AckedInv
  <2> QED
    BY <2>3, <2>4, <2>6, <2>7 DEF CommitInv
<1> QED
  BY <1>1, <1>2, <1>3 DEF Checkpoint

\* The strengthening is inductive.
THEOREM CommitInvariant == Spec => []CommitInv
<1>1. Init => CommitInv
  <2> SUFFICES ASSUME Init PROVE CommitInv
    OBVIOUS
  <2>1. /\ pc = [c \in Clients |-> "idle"] /\ op = [c \in Clients |-> "none"]
        /\ tx = [c \in Clients |-> 0] /\ hand = [c \in Clients |-> NoBatch]
        /\ logs = NoBatch /\ batch = NoBatch /\ ioq = <<>> /\ ioPc = "recv"
        /\ ackedNow = {} /\ lastTx = 0
    BY DEF Init
  <2>2. IdsUnique
    BY <2>1 DEF IdsUnique
  <2>3. LogInv /\ HandInv
    BY <2>1, NoCommitInNoBatch DEF LogInv, HandInv, HasCommit
  <2>4. DOMAIN ioq = {}
    BY <2>1
  <2>5. ChannelInv /\ BatchInv
    BY <2>1, <2>4, NoCommitInNoBatch DEF ChannelInv, BatchInv, HasCommit
  <2>6. SwitchInv /\ AckedInv
    BY <2>1 DEF SwitchInv, AckedInv
  <2> QED
    BY <2>2, <2>3, <2>5, <2>6 DEF CommitInv
<1>2. TypeInv /\ CommitInv /\ [Next]_vars => CommitInv'
  <2> SUFFICES ASSUME TypeInv, CommitInv, [Next]_vars PROVE CommitInv'
    OBVIOUS
  <2>1. ASSUME NEW c \in Clients, Client(c) PROVE CommitInv'
    BY <2>1, ClientCommitInv
  <2>2. CASE Io
    BY <2>2, IoCommitInv
  <2>3. CASE Checkpoint \/ Restart
    BY <2>3, CheckpointCommitInv
  <2>4. CASE UNCHANGED vars
    <3>1. UNCHANGED <<lastTx, logs, pc, op, tx, hand, ioq, ioPc, ioFrom, batch,
                      lastIndex, commitAt, ackedNow>>
      BY <2>4 DEF vars, bufferVars, clientVars, ioVars, history, coverage
    <3>2. IdsUnique' /\ LogInv' /\ HandInv'
      BY <3>1 DEF CommitInv, IdsUnique, LogInv, HandInv, HasCommit, Committing
    <3>3. ChannelInv' /\ BatchInv'
      BY <3>1 DEF CommitInv, ChannelInv, BatchInv, HasCommit, Committing
    <3>4. SwitchInv' /\ AckedInv'
      BY <3>1 DEF CommitInv, SwitchInv, AckedInv, IsFirst
    <3> QED
      BY <3>2, <3>3, <3>4 DEF CommitInv
  <2>5. Quiescent => UNCHANGED vars
    BY DEF Quiescent
  <2> QED
    BY <2>1, <2>2, <2>3, <2>4, <2>5 DEF Next
<1> QED
  BY <1>1, <1>2, TypeInvariant, PTL DEF Spec

\* A snapshot read by a new transaction covers every commit that returned Ok
\* before it in this lifetime of the process, for any number of clients and any
\* sizes: the io thread gives an index out before it answers, and the snapshot
\* is the last index given out.
THEOREM SnapshotsCoverAcked == Spec => SnapshotCoversAcked
<1> DEFINE Covers == \A c \in Clients : pc[c] = "snapshot" /\ pc'[c] = "open" =>
                        \A t \in ackedNow : commitAt[t] \in 1..snapOf'[tx[c]]
<1>1. TypeInv /\ CommitInv /\ [Next]_vars => [Covers]_vars
  <2> SUFFICES ASSUME TypeInv, CommitInv, Next,
                      NEW c \in Clients, pc[c] = "snapshot", pc'[c] = "open"
               PROVE  \A t \in ackedNow : commitAt[t] \in 1..snapOf'[tx[c]]
    OBVIOUS
  <2>0. pc \in [Clients -> {"idle", "check", "flush", "send", "await", "snapshot",
                           "open"}]
        /\ snapOf \in [Tx -> Int]
    BY DEF TypeInv, TypeOK
  <2>1. CASE Snapshot(c)
    <3>1. tx[c] \in Tx
      BY DEF TypeInv, Protocol, RunsTx
    <3>2. snapOf'[tx[c]] = lastIndex
      BY <2>0, <2>1, <3>1 DEF Snapshot
    <3> QED
      BY <3>2 DEF CommitInv, AckedInv
  <2>2. ~ (\E d \in Clients : Client(d) /\ ~ (d = c /\ Snapshot(c)))
    <3> SUFFICES ASSUME NEW d \in Clients, Client(d), ~ (d = c /\ Snapshot(c))
                 PROVE  FALSE
      OBVIOUS
    <3>1. CASE d # c
      BY <2>0, <3>1 DEF Client, Begin, Update, Check, Flush, CommitDrain, Send,
                        Snapshot, Abandon
    <3>2. CASE d = c
      BY <2>0, <3>2 DEF Client, Begin, Update, Check, Flush, CommitDrain, Send, Abandon
    <3> QED
      BY <3>1, <3>2
  <2>3. ~ (IoRecv \/ IoRecord \/ SwitchDone)
    BY DEF IoRecv, IoRecord, SwitchDone, clientVars
  <2>4. ~ (SwitchFail \/ WriteDone \/ WriteFail)
    <3> SUFFICES ASSUME ioPc # "recv", AnswerOk \/ AnswerErr PROVE FALSE
      BY DEF SwitchFail, WriteDone, WriteFail, Writing
    <3>1. c # ioFrom
      BY DEF TypeInv, Protocol, Awaited
    <3> QED
      BY <2>0, <3>1 DEF AnswerOk, AnswerErr
  <2>5. ~ (Checkpoint \/ Restart \/ Quiescent)
    BY <2>0 DEF Checkpoint, CkWake, CkNothing, CkDrain, CkFlushed, CkFailed, Restart, Quiescent,
                clientVars, vars
  <2> QED
    BY <2>1, <2>2, <2>3, <2>4, <2>5 DEF Next, Io
<1> QED
  BY <1>1, TypeInvariant, CommitInvariant, PTL DEF Spec, SnapshotCoversAcked


------------------------------------------------------------------------------
(* The invariants.                                                         *)

\* Records on their way are kept by their transaction, and no id is above the last
\* one given out; only a checkpoint has id 0.
Keyed(b, k) ==
    \A t \in 0..MaxTx : \A i \in DOMAIN b[t] :
        b[t][i].tx = t /\ t <= k /\ (t = 0 => b[t][i].op = "checkpoint")
IdsInv ==
    /\ Keyed(logs, lastTx) /\ \A c \in Clients : Keyed(hand[c], lastTx)
    /\ \A k \in DOMAIN ioq : Keyed(ioq[k].records, lastTx)
    /\ Keyed(batch, lastTx)

\* The records of an entry are in the order of their indexes, and the counters are
\* at least what they hold.
Ranked(s, n, k) ==
    /\ \A i, j \in DOMAIN s : i < j => s[i].index < s[j].index
    /\ \A i \in DOMAIN s : /\ s[i].index \in 1..n /\ s[i].tx <= k
                           /\ s[i].op = "commit" => s[i].tx # 0
Apart(s, u) == \A i \in DOMAIN s, j \in DOMAIN u : s[i].index # u[j].index
FileIn(w, n, k) ==
    \A p \in Pages : Ranked(w[p], n, k) /\ \A q \in Pages : p # q => Apart(w[p], w[q])

\* The page at the cursor may hold a part of the current entry, or what the ring left
\* there; every other page has records of its own.
FileInv ==
    /\ FileIn(wal, lastIndex, lastTx)
    /\ Ranked(current, lastIndex, lastTx)
    /\ \A p \in Pages : p # cursor => Apart(current, wal[p])

\* What was given an index and is in the file or in the current entry.
Written == RecordsOn(wal) \cup ToSet(current)
CommitOf(r, t) == r.tx = t /\ r.op = "commit"

\* A transaction that has no snapshot yet has no commit; one that has committed above
\* its snapshot; an announced commit is written, or first to be so after the switch of
\* the page; and what is only in memory has the highest indexes.
Young ==
    \A c \in Clients : /\ pc[c] = "snapshot" => op[c] = "begin"
                       /\ op[c] = "begin" => \A r \in Written : ~ CommitOf(r, tx[c])
Above ==
    \A t \in Tx : snapOf[t] <= lastIndex
                  /\ \A r \in Written : CommitOf(r, t) => snapOf[t] < r.index
Announced(t) ==
    \/ t \in exposed
    \/ /\ ioPc = "switch" /\ IsFirst(batch, t) /\ Head(batch[t]).op = "commit"
       /\ commitAt[t] = lastIndex + 1
    \/ \E r \in Written : CommitOf(r, t) /\ r.index = commitAt[t]
Unwritten ==
    \A r \in ToSet(current) \ ToSet(wal[cursor]) : \A s \in RecordsOn(wal) : s.index < r.index
ReadInv ==
    Young /\ Above /\ Unwritten /\ \A t \in Tx : commitAt[t] > 0 => Announced(t)

\* In the buffer a transaction has its Start first, if at all, and no more inserts than
\* it made.
Buffered(s, n) ==
    Len(s) <= n /\ \A i \in DOMAIN s : s[i].op = "insert" \/ (i = 1 /\ s[i].op = "start")
BufferInv ==
    \A t \in Tx : writes[t] <= MaxWrites /\ Buffered(logs[t], writes[t] + 1)

------------------------------------------------------------------------------
(* Ids.                                                                    *)

LEMMA NoneKeyed ==
    ASSUME NEW k
    PROVE  Keyed(NoBatch, k)
<1>1. DOMAIN <<>> = {}
  OBVIOUS
<1> QED
  BY <1>1 DEF Keyed, NoBatch

\* One more id is given out.
LEMMA KeyedMore ==
    ASSUME NEW b, NEW k \in Nat, Keyed(b, k)
    PROVE  Keyed(b, k + 1)
<1>1. \A t \in 0..MaxTx : t <= k => t <= k + 1
  BY BoundsNatural
<1> QED
  BY <1>1 DEF Keyed

\* What one transaction has is replaced.
LEMMA KeyedSet ==
    ASSUME NEW b \in Batches, NEW k, Keyed(b, k), NEW t \in 0..MaxTx, NEW s,
           \A i \in DOMAIN s : s[i].tx = t /\ t <= k /\ (t = 0 => s[i].op = "checkpoint")
    PROVE  Keyed([b EXCEPT ![t] = s], k)
BY DEF Keyed, Batches

\* One record is appended to what it has.
LEMMA KeyedAppend ==
    ASSUME NEW b \in Batches, NEW k, Keyed(b, k), NEW t \in Tx, t <= k, NEW r \in Record,
           r.tx = t
    PROVE  /\ Keyed([b EXCEPT ![t] = Append(b[t], r)], k)
           /\ \A i \in DOMAIN Append(b[t], r) : Append(b[t], r)[i].tx = t
<1>1. t \in 0..MaxTx /\ t # 0
  BY BoundsNatural DEF Tx
<1>2. b[t] \in Seq(Record)
  BY <1>1 DEF Batches
<1>3. \A i \in DOMAIN Append(b[t], r) :
        (i \in DOMAIN b[t] /\ Append(b[t], r)[i] = b[t][i]) \/ Append(b[t], r)[i] = r
  BY <1>2
<1>4. \A i \in DOMAIN b[t] : b[t][i].tx = t
  BY <1>1 DEF Keyed
<1>5. \A i \in DOMAIN Append(b[t], r) : Append(b[t], r)[i].tx = t
  BY <1>3, <1>4
<1> QED
  BY <1>1, <1>5, KeyedSet

\* The record taken from a batch has the id it is kept by, and the rest is as it was.
LEMMA KeyedFirst ==
    ASSUME TypeOK, NEW k, Keyed(batch, k), NEW t \in 0..MaxTx, IsFirst(batch, t)
    PROVE  /\ Head(batch[t]) \in Record /\ Head(batch[t]).tx = t /\ t <= k
           /\ t = 0 => Head(batch[t]).op = "checkpoint"
           /\ Keyed([batch EXCEPT ![t] = Tail(@)], k)
<1>1. batch[t] \in Seq(Record) /\ batch[t] # <<>> /\ batch \in Batches
  BY DEF TypeOK, Batches, IsFirst
<1>2. 1 \in DOMAIN batch[t] /\ Head(batch[t]) = batch[t][1] /\ Head(batch[t]) \in Record
  BY <1>1, HeadTailProperties
<1>3. \A i \in DOMAIN Tail(batch[t]) :
        i + 1 \in DOMAIN batch[t] /\ Tail(batch[t])[i] = batch[t][i + 1]
  BY <1>1, TailShift
<1>4. \A i \in DOMAIN batch[t] :
        batch[t][i].tx = t /\ t <= k /\ (t = 0 => batch[t][i].op = "checkpoint")
  BY DEF Keyed
<1>5. Keyed([batch EXCEPT ![t] = Tail(batch[t])], k)
  BY <1>1, <1>3, <1>4, KeyedSet
<1> QED
  BY <1>2, <1>4, <1>5

LEMMA ClientIds ==
    ASSUME TypeInv, CommitInv, IdsInv, NEW c \in Clients, Client(c)
    PROVE  IdsInv'
<1> USE DEF TypeInv
<1>1. /\ logs \in Batches /\ hand \in [Clients -> Batches] /\ batch \in Batches
      /\ lastTx \in Nat /\ tx \in [Clients -> 0..MaxTx] /\ \A t \in Tx : t \in 0..MaxTx
      /\ writes \in [Tx -> Nat]
  <2>1. \A t \in Tx : t \in 0..MaxTx
    BY BoundsNatural DEF Tx
  <2>2. /\ logs \in Batches /\ hand \in [Clients -> Batches] /\ batch \in Batches
        /\ lastTx \in Nat /\ tx \in [Clients -> 0..MaxTx] /\ writes \in [Tx -> Nat]
    BY DEF TypeOK
  <2> QED
    BY <2>1, <2>2
<1>2. pc[c] # "idle" => tx[c] \in Tx /\ tx[c] <= lastTx
  BY DEF Protocol, RunsTx, CommitInv, IdsUnique
<1>3. CASE Begin(c)
  <2>1. lastTx + 1 \in Tx /\ lastTx + 1 \in 0..MaxTx /\ lastTx' = lastTx + 1
    BY <1>1, <1>3, BoundsNatural DEF Begin, Tx
  <2>2. logs' = [logs EXCEPT ![lastTx + 1] = <<Rec(lastTx + 1, "start", 0)>>]
    BY <1>3 DEF Begin
  <2>3. Keyed(logs, lastTx + 1)
    BY <1>1, KeyedMore DEF IdsInv
  <2> DEFINE s == <<Rec(lastTx + 1, "start", 0)>>
  <2>4. \A i \in DOMAIN s : s[i].tx = lastTx + 1 /\ lastTx + 1 <= lastTx + 1
                             /\ (lastTx + 1 = 0 => s[i].op = "checkpoint")
    BY <1>1 DEF Rec
  <2>5. Keyed(logs', lastTx')
    <3> HIDE DEF s
    <3>1. Keyed([logs EXCEPT ![lastTx + 1] = s], lastTx + 1)
      BY <1>1, <2>1, <2>3, <2>4, KeyedSet
    <3> QED
      BY <2>1, <2>2, <3>1 DEF s
  <2>6. /\ \A d \in Clients : Keyed(hand[d], lastTx + 1)
        /\ \A k \in DOMAIN ioq : Keyed(ioq[k].records, lastTx + 1)
        /\ Keyed(batch, lastTx + 1)
    BY <1>1, KeyedMore DEF IdsInv
  <2>7. UNCHANGED <<hand, ioq, batch>>
    BY <1>3 DEF Begin, ioVars
  <2> QED
    BY <2>1, <2>5, <2>6, <2>7 DEF IdsInv
<1>4. CASE Update(c)
  <2>1. /\ logs' = [logs EXCEPT ![tx[c]] = Append(logs[tx[c]], Rec(tx[c], "insert", writes[tx[c]] + 1))]
        /\ UNCHANGED <<lastTx, hand, ioq, batch>> /\ pc[c] = "open"
    BY <1>4 DEF Update, ioVars
  <2>2. Rec(tx[c], "insert", writes[tx[c]] + 1) \in Record
        /\ Rec(tx[c], "insert", writes[tx[c]] + 1).tx = tx[c]
    BY <1>1, <1>2, <2>1, RecType DEF Operations, Rec
  <2>3. Keyed(logs', lastTx)
    BY <1>1, <1>2, <2>1, <2>2, KeyedAppend DEF IdsInv
  <2> QED
    BY <2>1, <2>3 DEF IdsInv
<1>5. CASE Flush(c)
  <2>1. hand' = [hand EXCEPT ![c] = logs] /\ logs' = NoBatch /\ UNCHANGED <<lastTx, ioq, batch>>
    BY <1>5 DEF Flush, ioVars
  <2>2. \A d \in Clients : hand'[d] = IF d = c THEN logs ELSE hand[d]
    BY <1>1, <2>1
  <2> QED
    BY <2>1, <2>2, NoneKeyed DEF IdsInv
<1>6. CASE CommitDrain(c)
  <2> DEFINE t == tx[c]
             r == Rec(t, "commit", 0)
  <2>1. /\ hand' = [hand EXCEPT ![c] = CommitBatch(t)] /\ logs' = [logs EXCEPT ![t] = <<>>]
        /\ UNCHANGED <<lastTx, ioq, batch>> /\ pc[c] = "open"
    BY <1>6 DEF CommitDrain, ioVars
  <2>2. t \in Tx /\ t \in 0..MaxTx /\ t <= lastTx
    BY <1>1, <1>2, <2>1
  <2>3. r \in Record /\ r.tx = t
    BY <2>2, RecType DEF Operations, Rec
  <2>4. \A i \in DOMAIN Append(logs[t], r) : Append(logs[t], r)[i].tx = t
    BY <1>1, <2>2, <2>3, KeyedAppend DEF IdsInv
  <2>5. Keyed(CommitBatch(t), lastTx)
    <3>1. t # 0
      BY <2>2 DEF Tx
    <3>2. Keyed([NoBatch EXCEPT ![t] = Append(logs[t], r)], lastTx)
      BY <2>2, <2>4, <3>1, NoneKeyed, NoBatchType, KeyedSet
    <3> QED
      BY <3>2 DEF CommitBatch
  <2>6. Keyed(logs', lastTx)
    <3>1. DOMAIN <<>> = {}
      OBVIOUS
    <3> QED
      BY <1>1, <2>1, <2>2, <3>1, KeyedSet DEF IdsInv
  <2>7. \A d \in Clients : hand'[d] = IF d = c THEN CommitBatch(t) ELSE hand[d]
    BY <1>1, <2>1
  <2> QED
    BY <2>1, <2>5, <2>6, <2>7 DEF IdsInv
<1>7. CASE Send(c)
  <2>1. /\ ioq' = Append(ioq, [from |-> c, records |-> hand[c]])
        /\ hand' = [hand EXCEPT ![c] = NoBatch] /\ UNCHANGED <<lastTx, logs, batch>>
    BY <1>7 DEF Send, ioVars, bufferVars
  <2>2. \A k \in DOMAIN ioq' : ioq'[k] = [from |-> c, records |-> hand[c]]
                                \/ (k \in DOMAIN ioq /\ ioq'[k] = ioq[k])
    BY <2>1, AppendRequest
  <2>3. \A k \in DOMAIN ioq' : Keyed(ioq'[k].records, lastTx)
    BY <2>2 DEF IdsInv
  <2>4. \A d \in Clients : hand'[d] = IF d = c THEN NoBatch ELSE hand[d]
    BY <1>1, <2>1
  <2> QED
    BY <2>1, <2>3, <2>4, NoneKeyed DEF IdsInv
<1>8. CASE Check(c) \/ Snapshot(c) \/ Abandon(c)
  BY <1>8 DEF Check, Snapshot, Abandon, IdsInv, bufferVars, ioVars
<1> QED
  BY <1>3, <1>4, <1>5, <1>6, <1>7, <1>8 DEF Client

LEMMA ThreadIds ==
    ASSUME TypeInv, IdsInv, Io \/ Checkpoint
    PROVE  IdsInv'
<1> USE DEF TypeInv
<1>1. CASE IoRecv
  <2>1. /\ ioq # <<>> /\ ioq' = Tail(ioq) /\ batch' = Head(ioq).records
        /\ UNCHANGED <<lastTx, logs, hand>>
    BY <1>1 DEF IoRecv, bufferVars, clientVars
  <2>2. Keyed(batch', lastTx) /\ \A k \in DOMAIN ioq' : Keyed(ioq'[k].records, lastTx)
    BY <2>1, TakeRequest DEF IdsInv
  <2> QED
    BY <2>1, <2>2 DEF IdsInv
<1>2. ASSUME UNCHANGED <<lastTx, logs, hand, ioq>>, Keyed(batch', lastTx) PROVE IdsInv'
  BY <1>2 DEF IdsInv
<1>3. CASE IoRecord \/ SwitchDone
  <2>1. /\ UNCHANGED <<lastTx, logs, hand, ioq>>
        /\ \E t \in 0..MaxTx : IsFirst(batch, t) /\ batch' \in {batch, [batch EXCEPT ![t] = Tail(@)]}
    BY <1>3 DEF IoRecord, SwitchDone, Place, bufferVars, clientVars
  <2> QED
    BY <1>2, <2>1, KeyedFirst DEF IdsInv
<1>4. CASE SwitchFail
  BY <1>2, <1>4, NoneKeyed DEF SwitchFail, bufferVars
<1>5. CASE WriteDone \/ WriteFail
  BY <1>2, <1>5 DEF WriteDone, WriteFail, bufferVars, IdsInv
<1>6. CASE CkWake \/ CkNothing \/ CkDrain \/ CkFailed
  BY <1>6 DEF CkWake, CkNothing, CkDrain, CkFailed, IdsInv, bufferVars, clientVars, ioVars
<1>7. CASE CkFlushed
  <2>1. PICK i \in {ckIndex} :
          ioq' = Append(ioq, [from |-> Checkpointer,
                              records |-> [NoBatch EXCEPT ![0] = <<Rec(0, "checkpoint", i)>>]])
    BY <1>7 DEF CkFlushed
  <2> DEFINE s == <<Rec(0, "checkpoint", i)>>
             m == [from |-> Checkpointer, records |-> [NoBatch EXCEPT ![0] = s]]
  <2>2. 0 \in 0..MaxTx /\ lastTx \in Nat
    BY BoundsNatural DEF TypeOK
  <2>3. \A j \in DOMAIN s : s[j].tx = 0 /\ 0 <= lastTx /\ (0 = 0 => s[j].op = "checkpoint")
    BY <2>2 DEF Rec
  <2>4. UNCHANGED <<lastTx, logs, hand, batch>>
    BY <1>7 DEF CkFlushed, bufferVars, clientVars, ioVars
  <2>5. \A k \in DOMAIN ioq' : ioq'[k] = m \/ (k \in DOMAIN ioq /\ ioq'[k] = ioq[k])
    BY <2>1, AppendRequest
  <2>6. Keyed(m.records, lastTx)
    <3> HIDE DEF s
    <3> QED
      BY <2>2, <2>3, NoneKeyed, NoBatchType, KeyedSet
  <2> HIDE DEF m
  <2> QED
    BY <2>4, <2>5, <2>6 DEF IdsInv
<1> QED
  BY <1>1, <1>3, <1>4, <1>5, <1>6, <1>7 DEF Io, Checkpoint

LEMMA RestartIds ==
    ASSUME Restart
    PROVE  IdsInv'
<1>1. /\ logs' = NoBatch /\ hand' = [c \in Clients |-> NoBatch] /\ ioq' = <<>>
      /\ batch' = NoBatch
  BY DEF Restart
<1>2. DOMAIN ioq' = {}
  BY <1>1
<1> QED
  BY <1>1, <1>2, NoneKeyed DEF IdsInv

------------------------------------------------------------------------------
(* The file.                                                               *)

LEMMA NoneRanked ==
    ASSUME NEW n, NEW k
    PROVE  Ranked(<<>>, n, k) /\ \A s : Apart(<<>>, s)
<1>1. DOMAIN <<>> = {}
  OBVIOUS
<1> QED
  BY <1>1 DEF Ranked, Apart

\* What is ranked below some counters is so below greater ones.
LEMMA RankedMore ==
    ASSUME NEW s \in Seq(Record), NEW n \in Nat, NEW m \in Nat, n <= m, NEW k \in Nat,
           NEW l \in Nat, k <= l, Ranked(s, n, k)
    PROVE  Ranked(s, m, l)
<1>1. ASSUME NEW i \in DOMAIN s PROVE s[i].index \in 1..m /\ s[i].tx <= l
  <2>1. s[i].index \in 1..n /\ s[i].tx <= k
    BY DEF Ranked
  <2>2. s[i].tx \in Nat
    <3>1. s[i] \in Record
      BY ElementOfSeq
    <3> QED
      BY <3>1, BoundsNatural DEF Record
  <2> QED
    BY <2>1, <2>2
<1> QED
  BY <1>1 DEF Ranked

LEMMA FileMore ==
    ASSUME NEW w \in [Pages -> Seq(Record)], NEW n \in Nat, NEW m \in Nat, n <= m,
           NEW k \in Nat, NEW l \in Nat, k <= l, FileIn(w, n, k)
    PROVE  FileIn(w, m, l)
<1>1. \A p \in Pages : w[p] \in Seq(Record) /\ Ranked(w[p], n, k)
  BY DEF FileIn
<1>2. \A p \in Pages : Ranked(w[p], m, l)
  BY <1>1, RankedMore
<1> QED
  BY <1>2 DEF FileIn

\* The next record.
LEMMA RankedAppend ==
    ASSUME NEW s \in Seq(Record), NEW n \in Nat, NEW k \in Nat, Ranked(s, n, k),
           NEW r \in Record, r.index = n + 1, r.tx <= k, r.op = "commit" => r.tx # 0
    PROVE  Ranked(Append(s, r), n + 1, k)
<1>1. /\ Len(s) \in Nat /\ DOMAIN s = 1..Len(s)
      /\ DOMAIN Append(s, r) = 1..(Len(s) + 1) /\ Append(s, r)[Len(s) + 1] = r
      /\ \A i \in 1..Len(s) : Append(s, r)[i] = s[i]
  OBVIOUS
<1>2. \A i \in 1..Len(s) : s[i].index \in 1..n
  BY <1>1 DEF Ranked
<1>3. ASSUME NEW i \in 1..(Len(s) + 1)
      PROVE  /\ Append(s, r)[i].index \in 1..n + 1 /\ Append(s, r)[i].tx <= k
             /\ Append(s, r)[i].op = "commit" => Append(s, r)[i].tx # 0
  <2>1. CASE i = Len(s) + 1
    BY <1>1, <2>1
  <2>2. CASE i # Len(s) + 1
    <3>1. i \in 1..Len(s)
      BY <1>1, <2>2
    <3>2. s[i].index \in 1..n /\ s[i].tx <= k /\ (s[i].op = "commit" => s[i].tx # 0)
      BY <1>1, <3>1 DEF Ranked
    <3> QED
      BY <1>1, <3>1, <3>2
  <2> QED
    BY <2>1, <2>2
<1>4. ASSUME NEW i \in 1..(Len(s) + 1), NEW j \in 1..(Len(s) + 1), i < j
      PROVE  Append(s, r)[i].index < Append(s, r)[j].index
  <2>1. i \in 1..Len(s)
    BY <1>1, <1>4
  <2>2. CASE j = Len(s) + 1
    BY <1>1, <1>2, <2>1, <2>2
  <2>3. CASE j # Len(s) + 1
    <3>1. j \in 1..Len(s)
      BY <1>1, <2>3
    <3>2. s[i].index < s[j].index
      BY <1>1, <1>4, <2>1, <3>1 DEF Ranked
    <3> QED
      BY <1>1, <2>1, <3>1, <3>2
  <2> QED
    BY <2>2, <2>3
<1> QED
  BY <1>1, <1>3, <1>4 DEF Ranked

\* An entry that ends in a new record is apart from every page that an older one was
\* apart from.
LEMMA ApartAppend ==
    ASSUME NEW s \in Seq(Record), NEW u \in Seq(Record), NEW n \in Nat, NEW k, Ranked(u, n, k),
           Apart(s, u), NEW r \in Record, r.index = n + 1
    PROVE  Apart(Append(s, r), u)
<1>1. \A i \in DOMAIN Append(s, r) :
        (i \in DOMAIN s /\ Append(s, r)[i] = s[i]) \/ Append(s, r)[i] = r
  OBVIOUS
<1>2. \A j \in DOMAIN u : u[j].index \in 1..n
  BY DEF Ranked
<1> QED
  BY <1>1, <1>2 DEF Apart

\* The current entry is written over the page at the cursor.
LEMMA FileWritten ==
    ASSUME TypeOK, FileInv
    PROVE  FileIn([wal EXCEPT ![cursor] = current], lastIndex, lastTx)
<1> DEFINE w == [wal EXCEPT ![cursor] = current]
<1>1. wal \in [Pages -> Seq(Record)] /\ cursor \in Pages
  BY DEF TypeOK
<1>2. \A p \in Pages : w[p] = IF p = cursor THEN current ELSE wal[p]
  BY <1>1
<1>3. \A p \in Pages : p # cursor => Apart(current, wal[p]) /\ Apart(wal[p], current)
  BY DEF FileInv, Apart
<1>4. /\ Ranked(current, lastIndex, lastTx)
      /\ \A p \in Pages : Ranked(wal[p], lastIndex, lastTx)
      /\ \A p, q \in Pages : p # q => Apart(wal[p], wal[q])
  BY DEF FileInv, FileIn
<1> HIDE DEF w
<1>5. FileIn(w, lastIndex, lastTx)
  BY <1>2, <1>3, <1>4 DEF FileIn
<1> QED
  BY <1>5 DEF w

LEMMA FileImage ==
    ASSUME TypeOK, FileInv, NEW image \in CrashImages
    PROVE  FileIn(image, lastIndex, lastTx)
BY FileWritten DEF CrashImages, FileInv

\* One record is placed in an entry that is apart from the pages but the cursor's.
LEMMA FilePlaced ==
    ASSUME TypeOK, Keyed(batch, lastTx), NEW t \in 0..MaxTx, IsFirst(batch, t),
           NEW entry \in Seq(Record), Place(t, entry), Ranked(entry, lastIndex, lastTx),
           lastTx' = lastTx, wal' \in [Pages -> Seq(Record)],
           FileIn(wal', lastIndex, lastTx),
           \A p \in Pages : p # cursor' => Apart(entry, wal'[p])
    PROVE  FileInv'
<1> DEFINE r == [Head(batch[t]) EXCEPT !.index = lastIndex + 1]
<1>1. /\ Head(batch[t]) \in Record /\ Head(batch[t]).tx = t /\ t <= lastTx
      /\ t = 0 => Head(batch[t]).op = "checkpoint"
  BY KeyedFirst
<1>2. lastIndex \in Nat /\ lastTx \in Nat /\ lastIndex' = lastIndex + 1
      /\ current' = Append(entry, r)
  BY BoundsNatural DEF TypeOK, Place
<1>3. r \in Record /\ r.index = lastIndex + 1 /\ r.tx <= lastTx /\ (r.op = "commit" => r.tx # 0)
  <2>1. Head(batch[t]) \in [index : Nat, tx : 0..MaxTx, op : Operations, n : Nat]
    BY <1>1 DEF Record
  <2>2. lastIndex + 1 \in Nat
    BY <1>2
  <2>3. /\ r \in [index : Nat, tx : 0..MaxTx, op : Operations, n : Nat]
        /\ r.index = lastIndex + 1 /\ r.tx = Head(batch[t]).tx /\ r.op = Head(batch[t]).op
    BY <2>1, <2>2
  <2> QED
    BY <1>1, <2>3 DEF Record
<1> HIDE DEF r
<1>4. Ranked(current', lastIndex', lastTx')
  BY <1>2, <1>3, RankedAppend
<1>5. FileIn(wal', lastIndex', lastTx')
  <2>1. lastIndex <= lastIndex + 1 /\ lastIndex + 1 \in Nat /\ lastTx <= lastTx
    BY <1>2
  <2> QED
    BY <1>2, <2>1, FileMore
<1>6. ASSUME NEW p \in Pages, p # cursor' PROVE Apart(current', wal'[p])
  <2>1. wal'[p] \in Seq(Record) /\ Ranked(wal'[p], lastIndex, lastTx) /\ Apart(entry, wal'[p])
    BY <1>6 DEF FileIn
  <2> QED
    BY <1>2, <1>3, <2>1, ApartAppend
<1> QED
  BY <1>4, <1>5, <1>6 DEF FileInv

\* The file and the entry stay, or the entry is written.
LEMMA FileKept ==
    ASSUME TypeOK, FileInv, UNCHANGED <<lastIndex, lastTx, cursor>>,
           wal' \in {wal, [wal EXCEPT ![cursor] = current]}, current' \in {current, <<>>}
    PROVE  FileInv'
<1>1. FileIn(wal', lastIndex', lastTx')
  BY FileWritten DEF FileInv
<1>2. Ranked(current', lastIndex', lastTx')
  BY NoneRanked DEF FileInv
<1>3. ASSUME NEW p \in Pages, p # cursor PROVE Apart(current', wal'[p])
  <2>1. wal'[p] = wal[p]
    BY <1>3 DEF TypeOK
  <2> QED
    BY <1>3, <2>1, NoneRanked DEF FileInv
<1> QED
  BY <1>1, <1>2, <1>3 DEF FileInv

LEMMA IoFile ==
    ASSUME TypeInv, IdsInv, FileInv, Io
    PROVE  FileInv'
<1> USE DEF TypeInv
<1>1. Keyed(batch, lastTx) /\ wal \in [Pages -> Seq(Record)] /\ current \in Seq(Record)
  BY DEF IdsInv, TypeOK
<1>2. CASE IoRecv
  <2>1. UNCHANGED <<wal, current, cursor, lastIndex, lastTx>>
    BY <1>2 DEF IoRecv, bufferVars
  <2> QED
    BY <2>1, FileKept
<1>3. CASE IoRecord
  <2>1. PICK t \in 0..MaxTx :
          IsFirst(batch, t) /\ (Place(t, current) \/ UNCHANGED <<current, lastIndex>>)
    BY <1>3 DEF IoRecord
  <2>2. UNCHANGED <<wal, cursor, lastTx>>
    BY <1>3 DEF IoRecord, bufferVars
  <2>3. CASE Place(t, current)
    <3>1. /\ FileIn(wal', lastIndex, lastTx) /\ Ranked(current, lastIndex, lastTx)
          /\ \A p \in Pages : p # cursor' => Apart(current, wal'[p])
      BY <2>2 DEF FileInv
    <3> QED
      BY <1>1, <2>1, <2>2, <2>3, <3>1, FilePlaced
  <2>4. CASE UNCHANGED <<current, lastIndex>>
    BY <2>2, <2>4, FileKept
  <2> QED
    BY <2>1, <2>3, <2>4
<1>4. CASE SwitchDone
  <2>1. PICK t \in 0..MaxTx : IsFirst(batch, t) /\ Place(t, <<>>)
    BY <1>4 DEF SwitchDone
  <2>2. lastTx' = lastTx /\ wal' = [wal EXCEPT ![cursor] = current]
    BY <1>4 DEF SwitchDone, bufferVars
  <2>3. FileIn(wal', lastIndex, lastTx) /\ wal' \in [Pages -> Seq(Record)]
    BY <2>2, FileWritten, WriteType
  <2>4. <<>> \in Seq(Record) /\ Ranked(<<>>, lastIndex, lastTx) /\ \A p \in Pages : Apart(<<>>, wal'[p])
    BY EmptySeq, NoneRanked
  <2> QED
    BY <1>1, <2>1, <2>2, <2>3, <2>4, FilePlaced
<1>5. CASE SwitchFail
  <2>1. /\ UNCHANGED <<lastIndex, lastTx, cursor>> /\ current' = <<>>
        /\ wal' \in {wal, [wal EXCEPT ![cursor] = current]}
    BY <1>5 DEF SwitchFail, bufferVars
  <2> QED
    BY <2>1, FileKept
<1>6. CASE WriteDone \/ WriteFail
  <2>1. /\ UNCHANGED <<lastIndex, lastTx, cursor, current>>
        /\ wal' \in {wal, [wal EXCEPT ![cursor] = current]}
    BY <1>6 DEF WriteDone, WriteFail, bufferVars
  <2> QED
    BY <2>1, FileKept
<1> QED
  BY <1>2, <1>3, <1>4, <1>5, <1>6 DEF Io

LEMMA OtherFile ==
    ASSUME TypeInv, FileInv, (\E c \in Clients : Client(c)) \/ Checkpoint \/ Restart
    PROVE  FileInv'
<1> USE DEF TypeInv
<1>1. wal \in [Pages -> Seq(Record)] /\ current \in Seq(Record) /\ lastIndex \in Nat
      /\ lastTx \in Nat
  BY BoundsNatural DEF TypeOK
<1>2. CASE \E c \in Clients : Begin(c)
  <2>1. lastTx' = lastTx + 1 /\ UNCHANGED <<wal, current, cursor, lastIndex>>
    BY <1>2 DEF Begin, ioVars
  <2>2. lastTx <= lastTx + 1 /\ lastIndex <= lastIndex /\ lastTx + 1 \in Nat
    BY <1>1
  <2>3. Ranked(current, lastIndex, lastTx + 1) /\ FileIn(wal, lastIndex, lastTx + 1)
    BY <1>1, <2>2, RankedMore, FileMore DEF FileInv
  <2> QED
    BY <2>1, <2>3 DEF FileInv
<1>3. CASE (\E c \in Clients : Client(c) /\ ~ Begin(c)) \/ Checkpoint
  <2>1. UNCHANGED <<lastTx, wal, current, cursor, lastIndex>>
    BY <1>3 DEF Client, Update, Check, Flush, CommitDrain, Send, Snapshot, Abandon,
                Checkpoint, CkWake, CkNothing, CkDrain, CkFlushed, CkFailed, bufferVars, ioVars
  <2> QED
    BY <2>1, FileKept
<1>4. CASE Restart
  <2>1. PICK image \in CrashImages : wal' = image /\ RestoreCounters(image)
    BY <1>4 DEF Restart
  <2>2. FileIn(image, lastIndex, lastTx) /\ image \in [Pages -> Seq(Record)]
    BY <2>1, FileImage, ImageType
  <2>3. /\ \A r \in RecordsOn(image) : r.tx <= lastTx' /\ r.index <= lastIndex'
        /\ lastIndex' \in {0} \cup {r.index : r \in RecordsOn(image)}
    BY <2>1 DEF RestoreCounters
  <2>4. lastIndex' \in Nat
    BY <1>4, RestartTypeOK DEF TypeOK
  <2>5. ASSUME NEW p \in Pages, NEW i \in DOMAIN image[p]
        PROVE  image[p][i].index \in 1..lastIndex' /\ image[p][i].tx <= lastTx'
    <3>1. image[p][i] \in RecordsOn(image)
      BY DEF RecordsOn, ToSet
    <3>2. image[p][i].index \in 1..lastIndex
      BY <2>2 DEF FileIn, Ranked
    <3> QED
      BY <2>3, <2>4, <3>1, <3>2
  <2>6. \A p \in Pages : Ranked(image[p], lastIndex', lastTx')
    <3>1. \A p \in Pages : Ranked(image[p], lastIndex, lastTx)
      BY <2>2 DEF FileIn
    <3> QED
      BY <2>5, <3>1 DEF Ranked
  <2>7. FileIn(image, lastIndex', lastTx')
    BY <2>2, <2>6 DEF FileIn
  <2>8. current' = <<>>
    BY <1>4 DEF Restart
  <2> QED
    BY <2>1, <2>7, <2>8, NoneRanked DEF FileInv
<1> QED
  BY <1>2, <1>3, <1>4

\* What no crash can undo: see IndexOrder.
LEMMA FileOrder == TypeOK /\ FileInv => IndexOrder
<1> SUFFICES ASSUME TypeOK, FileInv, NEW image \in CrashImages, NEW p \in Pages, NEW q \in Pages,
                    NEW i \in DOMAIN image[p], NEW j \in DOMAIN image[q]
             PROVE  /\ (p # q \/ i # j) => image[p][i].index # image[q][j].index
                    /\ (p = q /\ i < j) => image[p][i].index < image[q][j].index
                    /\ image[p][i].index \in 1..lastIndex /\ image[p][i].tx <= lastTx
  BY DEF IndexOrder
<1>1. FileIn(image, lastIndex, lastTx) /\ image \in [Pages -> Seq(Record)]
  BY FileImage, ImageType
<1>2. Ranked(image[p], lastIndex, lastTx) /\ Ranked(image[q], lastIndex, lastTx)
      /\ (p # q => Apart(image[p], image[q]))
  BY <1>1 DEF FileIn
<1>3. /\ image[p][i].index \in 1..lastIndex /\ image[p][i].tx <= lastTx
      /\ image[q][j].index \in 1..lastIndex
      /\ p # q => image[p][i].index # image[q][j].index
      /\ p = q /\ i < j => image[p][i].index < image[q][j].index
      /\ p = q /\ j < i => image[q][j].index < image[p][i].index
  BY <1>2 DEF Ranked, Apart
<1>4. p = q => i \in Nat /\ j \in Nat
  <2>1. image[p] \in Seq(Record) /\ image[q] \in Seq(Record)
    BY <1>1
  <2> QED
    BY <2>1
<1>5. p = q /\ i # j => i < j \/ j < i
  BY <1>4
<1>6. lastIndex \in Nat
  BY DEF TypeOK
<1> QED
  BY <1>3, <1>5, <1>6

------------------------------------------------------------------------------
(* What commits are where.                                                 *)

LEMMA SetOfAppend ==
    ASSUME NEW s \in Seq(Record), NEW r \in Record
    PROVE  ToSet(Append(s, r)) = ToSet(s) \cup {r}
<1>1. /\ Len(s) \in Nat /\ DOMAIN s = 1..Len(s)
      /\ DOMAIN Append(s, r) = 1..(Len(s) + 1) /\ Append(s, r)[Len(s) + 1] = r
      /\ \A i \in 1..Len(s) : Append(s, r)[i] = s[i]
  OBVIOUS
<1>2. ASSUME NEW x \in ToSet(Append(s, r)) PROVE x \in ToSet(s) \cup {r}
  BY <1>1 DEF ToSet
<1>3. ASSUME NEW x \in ToSet(s) \cup {r} PROVE x \in ToSet(Append(s, r))
  <2>1. CASE x = r
    BY <1>1, <2>1 DEF ToSet
  <2>2. CASE x \in ToSet(s)
    <3>1. PICK i \in 1..Len(s) : x = s[i]
      BY <1>1, <2>2 DEF ToSet
    <3>2. i \in 1..(Len(s) + 1) /\ x = Append(s, r)[i]
      BY <1>1, <3>1
    <3> QED
      BY <1>1, <3>2 DEF ToSet
  <2> QED
    BY <2>1, <2>2
<1> QED
  BY <1>2, <1>3

LEMMA SetOfNone == ToSet(<<>>) = {}
BY DEF ToSet

\* When the entry is written the file has it, and what else it had but for what it
\* loses at the cursor.
LEMMA WriteKeeps ==
    ASSUME TypeOK, NEW w, w = [wal EXCEPT ![cursor] = current]
    PROVE  /\ ToSet(current) \subseteq RecordsOn(w) /\ RecordsOn(w) \subseteq Written
           /\ w[cursor] = current
           /\ \A r \in RecordsOn(wal) :
                r \in RecordsOn(w) \/ r.tx = 0 \/ r.tx \in Overwritten(cursor, current)
<1>1. \A p \in Pages : w[p] = IF p = cursor THEN current ELSE wal[p]
  BY DEF TypeOK
<1>2. cursor \in Pages
  BY DEF TypeOK
<1>3. ToSet(current) \subseteq RecordsOn(w)
  BY <1>1, <1>2 DEF RecordsOn
<1>4. RecordsOn(w) \subseteq Written
  BY <1>1 DEF RecordsOn, Written
<1>5. ASSUME NEW r \in RecordsOn(wal), r \notin RecordsOn(w)
      PROVE  r.tx = 0 \/ r.tx \in Overwritten(cursor, current)
  <2>1. PICK p \in Pages : r \in ToSet(wal[p])
    BY DEF RecordsOn
  <2>2. p = cursor
    BY <1>1, <1>5, <2>1 DEF RecordsOn
  <2>3. r \notin ToSet(current)
    BY <1>3, <1>5
  <2> QED
    BY <2>1, <2>2, <2>3 DEF Overwritten, TxsIn
<1> QED
  BY <1>1, <1>2, <1>3, <1>4, <1>5

\* Every record written has a place in the order of the file.
LEMMA WrittenRanked ==
    ASSUME TypeOK, FileInv, NEW r \in Written
    PROVE  r.index \in 1..lastIndex /\ r.tx <= lastTx /\ (r.op = "commit" => r.tx # 0)
<1>1. ASSUME NEW s, Ranked(s, lastIndex, lastTx), r \in ToSet(s)
      PROVE  r.index \in 1..lastIndex /\ r.tx <= lastTx /\ (r.op = "commit" => r.tx # 0)
  <2>1. PICK i \in DOMAIN s : r = s[i]
    BY <1>1 DEF ToSet
  <2> QED
    BY <1>1, <2>1 DEF Ranked
<1>2. CASE r \in ToSet(current)
  BY <1>1, <1>2 DEF FileInv
<1>3. CASE r \in RecordsOn(wal)
  <2>1. PICK p \in Pages : r \in ToSet(wal[p])
    BY <1>3 DEF RecordsOn
  <2> QED
    BY <1>1, <2>1 DEF FileInv, FileIn
<1> QED
  BY <1>2, <1>3 DEF Written

\* A step that announces nothing and exposes whatever leaves the file or the batch.
LEMMA ReadKept ==
    ASSUME TypeOK, ReadInv, Young', Unwritten', UNCHANGED <<snapOf, lastIndex, commitAt>>,
           Written' \subseteq Written, exposed \subseteq exposed',
           \A r \in Written : r \in Written' \/ r.tx = 0 \/ r.tx \in exposed',
           \/ UNCHANGED <<ioPc, batch>>
           \/ ioPc = "switch" => \A t \in Tx : batch[t] # <<>> => t \in exposed'
    PROVE  ReadInv'
<1>1. Above'
  BY DEF ReadInv, Above
<1>2. ASSUME NEW t \in Tx, commitAt[t] > 0 PROVE Announced(t)'
  <2>1. Announced(t)
    BY <1>2 DEF ReadInv
  <2>2. CASE t \in exposed
    BY <2>2 DEF Announced
  <2>3. CASE /\ ioPc = "switch" /\ IsFirst(batch, t) /\ Head(batch[t]).op = "commit"
             /\ commitAt[t] = lastIndex + 1
    <3>1. CASE UNCHANGED <<ioPc, batch>>
      BY <2>3, <3>1 DEF Announced, IsFirst
    <3>2. CASE \A u \in Tx : batch[u] # <<>> => u \in exposed'
      BY <2>3, <3>2 DEF Announced, IsFirst
    <3> QED
      BY <2>3, <3>1, <3>2
  <2>4. ASSUME NEW r \in Written, CommitOf(r, t), r.index = commitAt[t] PROVE Announced(t)'
    <3>1. r.tx = t /\ t # 0
      BY <2>4 DEF CommitOf, Tx
    <3> QED
      BY <2>4, <3>1 DEF Announced
  <2> QED
    BY <2>1, <2>2, <2>3, <2>4 DEF Announced
<1> QED
  BY <1>1, <1>2 DEF ReadInv

LEMMA ClientRead ==
    ASSUME TypeInv, FileInv, ReadInv, NEW c \in Clients, Client(c)
    PROVE  ReadInv'
<1> USE DEF TypeInv
<1>1. /\ pc \in [Clients -> {"idle", "check", "flush", "send", "await", "snapshot", "open"}]
      /\ op \in [Clients -> {"none", "begin", "insert", "commit"}]
      /\ tx \in [Clients -> 0..MaxTx]
      /\ lastTx \in Nat /\ lastIndex \in Nat
  BY BoundsNatural DEF TypeOK
<1>2. UNCHANGED <<wal, current, cursor, lastIndex, commitAt, ioPc, batch>>
      /\ exposed \subseteq exposed'
  BY DEF Client, Begin, Update, Check, Flush, CommitDrain, Send, Snapshot, Abandon, ioVars,
         history, coverage
<1>3. Written' = Written /\ Unwritten'
  BY <1>2 DEF Written, RecordsOn, ReadInv, Unwritten
<1>4. \A d \in Clients : d # c => pc'[d] = pc[d] /\ op'[d] = op[d] /\ tx'[d] = tx[d]
  BY <1>1 DEF Client, Begin, Update, Check, Flush, CommitDrain, Send, Snapshot, Abandon
<1>5. /\ pc'[c] = "snapshot" => op'[c] = "begin"
      /\ op'[c] = "begin" => \A r \in Written : ~ CommitOf(r, tx'[c])
  <2>1. CASE Begin(c)
    <3>1. pc'[c] = "check" /\ tx'[c] = lastTx + 1
      BY <1>1, <2>1 DEF Begin
    <3>2. \A r \in Written : r.tx <= lastTx
      BY WrittenRanked
    <3>3. \A k : k <= lastTx => k # lastTx + 1
      BY <1>1
    <3> QED
      BY <3>1, <3>2, <3>3 DEF CommitOf
  <2>2. CASE Update(c) \/ CommitDrain(c) \/ Abandon(c)
    BY <1>1, <2>2 DEF Update, CommitDrain, Abandon
  <2>3. CASE Check(c) \/ Flush(c) \/ Send(c) \/ Snapshot(c)
    <3>1. op' = op /\ tx' = tx
      BY <2>3 DEF Check, Flush, Send, Snapshot
    <3>2. pc'[c] = "snapshot" => op[c] = "begin"
      BY <1>1, <2>3 DEF Check, Flush, Send, Snapshot, Resume
    <3> QED
      BY <3>1, <3>2 DEF ReadInv, Young
  <2> QED
    BY <2>1, <2>2, <2>3 DEF Client
<1>6. Young'
  BY <1>3, <1>4, <1>5 DEF ReadInv, Young
<1>7. CASE ~ Snapshot(c)
  <2>1. snapOf' = snapOf
    BY <1>7 DEF Client, Begin, Update, Check, Flush, CommitDrain, Send, Abandon, history, coverage
  <2> QED
    BY <1>2, <1>3, <1>6, <2>1, ReadKept
<1>8. CASE Snapshot(c)
  <2>1. /\ pc[c] = "snapshot" /\ snapOf' = [snapOf EXCEPT ![tx[c]] = lastIndex]
        /\ UNCHANGED exposed
    BY <1>8 DEF Snapshot
  <2>2. \A r \in Written : ~ CommitOf(r, tx[c])
    BY <2>1 DEF ReadInv, Young
  <2>3. \A t \in Tx : snapOf'[t] = IF t = tx[c] THEN lastIndex ELSE snapOf[t]
    BY <2>1 DEF TypeOK
  <2>4. ASSUME NEW t \in Tx
        PROVE  snapOf'[t] <= lastIndex /\ \A r \in Written : CommitOf(r, t) => snapOf'[t] < r.index
    <3>1. CASE t = tx[c]
      <4>1. snapOf'[t] = lastIndex
        BY <2>3, <3>1
      <4> QED
        BY <1>1, <2>2, <3>1, <4>1
    <3>2. CASE t # tx[c]
      <4>1. snapOf'[t] = snapOf[t]
        BY <2>3, <3>2
      <4> QED
        BY <4>1 DEF ReadInv, Above
    <3> QED
      BY <3>1, <3>2
  <2>5. Above'
    BY <1>2, <1>3, <2>4 DEF Above
  <2>6. \A t \in Tx : Announced(t) => Announced(t)'
    BY <1>2, <1>3, <2>1 DEF Announced, IsFirst
  <2> QED
    BY <1>2, <1>3, <1>6, <2>5, <2>6 DEF ReadInv
<1> QED
  BY <1>7, <1>8

\* An answer makes no commit of a transaction that has no snapshot.
LEMMA AnswerYoung ==
    ASSUME TypeInv, Young, ioPc # "recv", AnswerOk \/ AnswerErr, Written' \subseteq Written
    PROVE  Young'
<1> USE DEF TypeInv
<1>1. /\ pc \in [Clients -> {"idle", "check", "flush", "send", "await", "snapshot", "open"}]
      /\ op \in [Clients -> {"none", "begin", "insert", "commit"}]
      /\ tx \in [Clients -> 0..MaxTx]
  BY DEF TypeOK
<1>2. ASSUME NEW c \in Clients
      PROVE  /\ pc'[c] = "snapshot" => op'[c] = "begin"
             /\ op'[c] = "begin" => op[c] = "begin" /\ tx'[c] = tx[c]
  <2>1. CASE c # ioFrom
    <3>1. pc'[c] = pc[c] /\ op'[c] = op[c] /\ tx'[c] = tx[c]
      BY <1>1, <2>1 DEF AnswerOk, AnswerErr
    <3> QED
      BY <3>1 DEF Young
  <2>2. CASE c = ioFrom /\ AnswerOk
    BY <1>1, <2>2 DEF AnswerOk, Resume
  <2>3. CASE c = ioFrom /\ AnswerErr
    BY <1>1, <2>3 DEF AnswerErr
  <2> QED
    BY <2>1, <2>2, <2>3
<1> QED
  BY <1>2 DEF Young

\* The io thread places the first record of its batch in an entry, after a write of the
\* page or without one.
LEMMA ReadPlaced ==
    ASSUME TypeInv, CommitInv, IdsInv, FileInv, ReadInv, NEW t \in 0..MaxTx, IsFirst(batch, t),
           ioPc # "recv",
           NEW entry \in Seq(Record), Place(t, entry), UNCHANGED <<op, tx, snapOf>>,
           \A c \in Clients : pc'[c] = pc[c],
           RecordsOn(wal') \cup ToSet(entry) \subseteq Written, exposed \subseteq exposed',
           \A r \in Written : \/ r \in RecordsOn(wal') \cup ToSet(entry)
                              \/ r.tx = 0 \/ r.tx \in exposed',
           \A r \in ToSet(entry) \ ToSet(wal'[cursor']) : \A s \in RecordsOn(wal') :
              s.index < r.index,
           \A u \in Tx : commitAt'[u] = commitAt[u]
                         \/ (u = t /\ Head(batch[t]).op = "commit" /\ commitAt'[u] = lastIndex + 1)
    PROVE  ReadInv'
<1> USE DEF TypeInv
<1> DEFINE r == [Head(batch[t]) EXCEPT !.index = lastIndex + 1]
<1>1. /\ Head(batch[t]) \in Record /\ Head(batch[t]).tx = t
      /\ t = 0 => Head(batch[t]).op = "checkpoint"
  BY KeyedFirst DEF IdsInv
<1>2. lastIndex \in Nat /\ lastIndex' = lastIndex + 1 /\ current' = Append(entry, r)
  BY DEF TypeOK, Place
<1>3. r \in Record /\ r.index = lastIndex + 1 /\ r.tx = t /\ r.op = Head(batch[t]).op
  <2>1. Head(batch[t]) \in [index : Nat, tx : 0..MaxTx, op : Operations, n : Nat]
    BY <1>1 DEF Record
  <2>2. lastIndex + 1 \in Nat
    BY <1>2
  <2>3. /\ r \in [index : Nat, tx : 0..MaxTx, op : Operations, n : Nat]
        /\ r.index = lastIndex + 1 /\ r.tx = Head(batch[t]).tx /\ r.op = Head(batch[t]).op
    BY <2>1, <2>2
  <2> QED
    BY <1>1, <2>3 DEF Record
<1> HIDE DEF r
<1>4. ToSet(current') = ToSet(entry) \cup {r} /\ Written' = RecordsOn(wal') \cup ToSet(entry) \cup {r}
  BY <1>2, <1>3, SetOfAppend DEF Written
<1>5. ASSUME r.op = "commit" PROVE t \in Tx /\ \A c \in Clients : op[c] = "begin" => tx[c] # t
  <2>1. t \in Tx
    <3>1. t # 0
      BY <1>1, <1>3, <1>5
    <3> QED
      BY <3>1, BoundsNatural DEF Tx
  <2>2. HasCommit(batch, t)
    BY <1>3, <1>5, HeadIsCommit
  <2>3. ioFrom \in Clients /\ op[ioFrom] = "commit" /\ tx[ioFrom] = t
    BY <2>1, <2>2 DEF CommitInv, BatchInv, Committing
  <2>4. t # 0
    BY <2>1 DEF Tx
  <2> QED
    BY <2>1, <2>3, <2>4 DEF CommitInv, IdsUnique
<1>6. Young'
  <2>1. ASSUME NEW c \in Clients, op[c] = "begin", NEW x \in Written' PROVE ~ CommitOf(x, tx[c])
    <3>1. CASE x = r
      BY <1>3, <1>5, <2>1, <3>1 DEF CommitOf
    <3>2. CASE x # r
      <4>1. x \in Written
        BY <1>4, <3>2
      <4> QED
        BY <2>1, <4>1 DEF ReadInv, Young
    <3> QED
      BY <3>1, <3>2
  <2> QED
    BY <2>1 DEF ReadInv, Young
<1>7. Above'
  <2> SUFFICES ASSUME NEW u \in Tx
               PROVE  snapOf[u] <= lastIndex'
                      /\ \A x \in Written' : CommitOf(x, u) => snapOf[u] < x.index
    BY DEF Above
  <2>1. snapOf[u] \in Int /\ snapOf[u] <= lastIndex
    BY DEF TypeOK, ReadInv, Above
  <2>2. ASSUME NEW x \in Written', CommitOf(x, u) PROVE snapOf[u] < x.index
    <3>1. CASE x = r
      BY <1>2, <1>3, <2>1, <3>1
    <3>2. CASE x # r
      <4>1. x \in Written
        BY <1>4, <3>2
      <4> QED
        BY <2>2, <4>1 DEF ReadInv, Above
    <3> QED
      BY <3>1, <3>2
  <2>3. snapOf[u] <= lastIndex'
    BY <1>2, <2>1
  <2> QED
    BY <2>2, <2>3
<1>8. Unwritten'
  <2> SUFFICES ASSUME NEW x \in ToSet(current') \ ToSet(wal'[cursor']), NEW s \in RecordsOn(wal')
               PROVE  s.index < x.index
    BY DEF Unwritten
  <2>1. s.index \in 1..lastIndex
    BY WrittenRanked
  <2>2. CASE x = r
    BY <1>2, <1>3, <2>1, <2>2
  <2>3. CASE x # r
    <3>1. x \in ToSet(entry) \ ToSet(wal'[cursor'])
      BY <1>4, <2>3
    <3> QED
      BY <3>1
  <2> QED
    BY <2>2, <2>3
<1>9. ASSUME NEW u \in Tx, commitAt'[u] > 0 PROVE Announced(u)'
  <2>1. CASE u = t /\ Head(batch[t]).op = "commit" /\ commitAt'[u] = lastIndex + 1
    <3>1. r \in Written' /\ CommitOf(r, u) /\ r.index = commitAt'[u]
      BY <1>3, <1>4, <2>1 DEF CommitOf
    <3> QED
      BY <3>1 DEF Announced
  <2>2. CASE commitAt'[u] = commitAt[u]
    <3>1. Announced(u)
      BY <1>9, <2>2 DEF ReadInv
    <3>2. CASE u \in exposed
      BY <3>2 DEF Announced
    <3>3. CASE /\ IsFirst(batch, u) /\ Head(batch[u]).op = "commit"
               /\ commitAt[u] = lastIndex + 1
      <4>1. u = t
        <5>1. u \in 0..MaxTx
          BY BoundsNatural DEF Tx
        <5> QED
          BY <3>3, <5>1, FirstUnique
      <4>2. r \in Written' /\ CommitOf(r, u) /\ r.index = commitAt'[u]
        BY <1>3, <1>4, <2>2, <3>3, <4>1 DEF CommitOf
      <4> QED
        BY <4>2 DEF Announced
    <3>4. ASSUME NEW x \in Written, CommitOf(x, u), x.index = commitAt[u] PROVE Announced(u)'
      <4>1. x.tx = u /\ u # 0
        BY <3>4 DEF CommitOf, Tx
      <4>2. x \in Written' \/ u \in exposed'
        BY <1>4, <4>1
      <4> QED
        BY <2>2, <3>4, <4>2 DEF Announced
    <3> QED
      BY <3>1, <3>2, <3>3, <3>4 DEF Announced
  <2> QED
    BY <1>9, <2>1, <2>2
<1> QED
  BY <1>6, <1>7, <1>8, <1>9 DEF ReadInv

LEMMA IoRead ==
    ASSUME TypeInv, CommitInv, IdsInv, FileInv, ReadInv, Io
    PROVE  ReadInv'
<1> USE DEF TypeInv
<1> DEFINE w == [wal EXCEPT ![cursor] = current]
<1>1. /\ current \in Seq(Record) /\ wal \in [Pages -> Seq(Record)] /\ cursor \in Pages
      /\ commitAt \in [Tx -> Nat] /\ lastIndex \in Nat
  BY DEF TypeOK
<1>2. /\ ToSet(current) \subseteq RecordsOn(w) /\ RecordsOn(w) \subseteq Written
      /\ w[cursor] = current
      /\ \A r \in RecordsOn(wal) :
           r \in RecordsOn(w) \/ r.tx = 0 \/ r.tx \in Overwritten(cursor, current)
  BY WriteKeeps
<1> HIDE DEF w
<1>3. CASE IoRecv
  <2>1. /\ ioPc = "recv"
        /\ UNCHANGED <<pc, op, tx, wal, current, cursor, lastIndex, snapOf, commitAt, exposed>>
    BY <1>3 DEF IoRecv, clientVars, history, coverage
  <2>2. Written' = Written /\ Unwritten'
    BY <2>1 DEF Written, RecordsOn, ReadInv, Unwritten
  <2>3. Young'
    BY <2>1, <2>2 DEF ReadInv, Young
  <2> QED
    BY <2>1, <2>2, <2>3, ReadKept
<1>4. CASE IoRecord
  <2>1. PICK t \in 0..MaxTx :
          /\ IsFirst(batch, t)
          /\ commitAt' = IF Head(batch[t]).op = "commit"
                         THEN [commitAt EXCEPT ![t] = lastIndex + 1] ELSE commitAt
          /\ \/ Place(t, current) /\ ioPc' = ioPc
             \/ ioPc' = "switch" /\ UNCHANGED <<current, batch, lastIndex>>
    BY <1>4 DEF IoRecord
  <2>2. ioPc = "loop" /\ UNCHANGED <<pc, op, tx, wal, cursor, snapOf, exposed>>
    BY <1>4 DEF IoRecord, clientVars
  <2>3. ASSUME NEW u \in Tx
        PROVE  \/ commitAt'[u] = commitAt[u]
               \/ u = t /\ Head(batch[t]).op = "commit" /\ commitAt'[u] = lastIndex + 1
    BY <1>1, <2>1
  <2>4. RecordsOn(wal') = RecordsOn(wal) /\ wal'[cursor'] = wal[cursor]
    BY <2>2 DEF RecordsOn
  <2>5. CASE Place(t, current)
    <3>1. /\ RecordsOn(wal') \cup ToSet(current) \subseteq Written
          /\ \A r \in Written : r \in RecordsOn(wal') \cup ToSet(current)
      BY <2>4 DEF Written
    <3>2. \A r \in ToSet(current) \ ToSet(wal'[cursor']) : \A s \in RecordsOn(wal') :
            s.index < r.index
      BY <2>4 DEF ReadInv, Unwritten
    <3> QED
      BY <1>1, <2>1, <2>2, <2>3, <2>5, <3>1, <3>2, ReadPlaced
  <2>6. CASE ioPc' = "switch" /\ UNCHANGED <<current, batch, lastIndex>>
    <3>1. Written' = Written
      BY <2>4, <2>6 DEF Written
    <3>2. Young' /\ Above' /\ Unwritten'
      BY <2>2, <2>4, <2>6, <3>1 DEF ReadInv, Young, Above, Unwritten
    <3>3. ASSUME NEW u \in Tx, commitAt'[u] > 0 PROVE Announced(u)'
      <4>1. CASE u = t /\ Head(batch[t]).op = "commit" /\ commitAt'[u] = lastIndex + 1
        BY <2>1, <2>6, <4>1 DEF Announced, IsFirst
      <4>2. CASE commitAt'[u] = commitAt[u]
        <5>1. Announced(u)
          BY <3>3, <4>2 DEF ReadInv
        <5> QED
          BY <2>2, <3>1, <4>2, <5>1 DEF Announced
      <4> QED
        BY <2>3, <4>1, <4>2
    <3> QED
      BY <3>2, <3>3 DEF ReadInv
  <2> QED
    BY <2>1, <2>5, <2>6
<1>5. CASE SwitchDone
  <2>1. PICK t \in 0..MaxTx : IsFirst(batch, t) /\ Place(t, <<>>)
    BY <1>5 DEF SwitchDone
  <2>2. /\ ioPc = "switch" /\ UNCHANGED <<pc, op, tx, snapOf, commitAt>> /\ wal' = w
        /\ exposed' = exposed \cup Overwritten(cursor, current)
    BY <1>5 DEF SwitchDone, clientVars, w
  <2>3. /\ RecordsOn(wal') \cup ToSet(<<>>) \subseteq Written
        /\ \A r \in Written : \/ r \in RecordsOn(wal') \cup ToSet(<<>>)
                              \/ r.tx = 0 \/ r.tx \in exposed'
    BY <1>2, <2>2, SetOfNone DEF Written
  <2>4. \A r \in ToSet(<<>>) \ ToSet(wal'[cursor']) : \A s \in RecordsOn(wal') :
          s.index < r.index
    BY SetOfNone
  <2> QED
    BY <1>1, <2>1, <2>2, <2>3, <2>4, ReadPlaced, EmptySeq
<1>6. CASE SwitchFail
  <2>1. /\ ioPc = "switch" /\ AnswerErr /\ UNCHANGED <<lastIndex, snapOf, commitAt>>
        /\ current' = <<>> /\ wal' \in {wal, w}
        /\ exposed' = exposed \cup Overwritten(cursor, current)
                      \cup TxsIn(ToSet(current)) \cup {t \in Tx : batch[t] # <<>>}
    BY <1>6 DEF SwitchFail, w
  <2>2. Written' = RecordsOn(wal')
    BY <2>1, SetOfNone DEF Written
  <2>3. RecordsOn(wal') \subseteq Written
    BY <1>2, <2>1 DEF Written
  <2>4. ASSUME NEW r \in Written PROVE r \in Written' \/ r.tx = 0 \/ r.tx \in exposed'
    <3>1. CASE r \in ToSet(current)
      BY <2>1, <3>1 DEF TxsIn
    <3>2. CASE r \in RecordsOn(wal)
      BY <1>2, <2>1, <2>2, <3>2
    <3> QED
      BY <3>1, <3>2 DEF Written
  <2>5. Unwritten'
    BY <2>1, SetOfNone DEF Unwritten
  <2>6. Young'
    BY <2>1, <2>2, <2>3, AnswerYoung DEF ReadInv
  <2> QED
    BY <2>1, <2>2, <2>3, <2>4, <2>5, <2>6, ReadKept
<1>7. CASE WriteDone \/ WriteFail
  <2>1. /\ ioPc = "loop" /\ (AnswerOk \/ AnswerErr)
        /\ UNCHANGED <<lastIndex, snapOf, commitAt, current, cursor>> /\ wal' \in {wal, w}
        /\ exposed' = exposed \cup Overwritten(cursor, current)
    BY <1>7 DEF WriteDone, WriteFail, Writing, w
  <2>2. Written' \subseteq Written
    BY <1>2, <2>1 DEF Written
  <2>3. ASSUME NEW r \in Written PROVE r \in Written' \/ r.tx = 0 \/ r.tx \in exposed'
    BY <1>2, <2>1 DEF Written
  <2>4. Unwritten'
    <3>1. CASE wal' = wal
      <4>1. RecordsOn(wal') = RecordsOn(wal)
        BY <3>1 DEF RecordsOn
      <4> QED
        BY <2>1, <3>1, <4>1 DEF ReadInv, Unwritten
    <3>2. CASE wal' = w
      BY <1>2, <2>1, <3>2 DEF Unwritten
    <3> QED
      BY <2>1, <3>1, <3>2
  <2>5. Young'
    BY <2>1, <2>2, AnswerYoung DEF ReadInv
  <2> QED
    BY <2>1, <2>2, <2>3, <2>4, <2>5, ReadKept
<1> QED
  BY <1>3, <1>4, <1>5, <1>6, <1>7 DEF Io

LEMMA OtherRead ==
    ASSUME TypeInv, FileInv, ReadInv, Checkpoint \/ Restart
    PROVE  ReadInv'
<1> USE DEF TypeInv
<1>1. CASE Checkpoint
  <2>1. /\ UNCHANGED <<pc, op, tx, wal, current, cursor, lastIndex, snapOf, commitAt, ioPc,
                       batch>>
        /\ exposed \subseteq exposed'
    BY <1>1 DEF Checkpoint, CkWake, CkNothing, CkDrain, CkFlushed, CkFailed, clientVars, ioVars, history, coverage
  <2>2. Written' = Written /\ Unwritten'
    BY <2>1 DEF Written, RecordsOn, ReadInv, Unwritten
  <2>3. Young'
    BY <2>1, <2>2 DEF ReadInv, Young
  <2> QED
    BY <2>1, <2>2, <2>3, ReadKept
<1>2. CASE Restart
  <2>1. /\ pc' = [c \in Clients |-> "idle"] /\ op' = [c \in Clients |-> "none"]
        /\ current' = <<>>
        /\ commitAt' = [t \in Tx |-> 0] /\ snapOf' = [t \in Tx |-> -1]
    BY <1>2 DEF Restart
  <2>2. Young'
    BY <2>1 DEF Young
  <2>3. Unwritten'
    BY <2>1, SetOfNone DEF Unwritten
  <2>4. TypeOK' /\ FileInv'
    BY <1>2, RestartTypeOK, OtherFile
  <2>5. \A r \in Written' : r.index \in 1..lastIndex'
    <3>1. \A r \in RecordsOn(wal') : \E p \in Pages : r \in ToSet(wal'[p])
      BY DEF RecordsOn
    <3>2. Written' = RecordsOn(wal')
      BY <2>1, SetOfNone DEF Written
    <3>3. \A p \in Pages : \A i \in DOMAIN wal'[p] : wal'[p][i].index \in 1..lastIndex'
      BY <2>4 DEF FileInv, FileIn, Ranked
    <3> QED
      BY <3>1, <3>2, <3>3 DEF ToSet
  <2>6. Above'
    <3>1. lastIndex' \in Nat /\ \A t \in Tx : snapOf'[t] = -1
      BY <2>1, <2>4 DEF TypeOK
    <3>2. -1 <= lastIndex' /\ \A n \in 1..lastIndex' : -1 < n
      BY <3>1
    <3> QED
      BY <2>5, <3>1, <3>2 DEF Above
  <2>7. \A t \in Tx : ~(commitAt'[t] > 0)
    BY <2>1
  <2> QED
    BY <2>2, <2>3, <2>6, <2>7 DEF ReadInv
<1> QED
  BY <1>1, <1>2

\* No transaction that a crash leaves in the file could read one it does not leave.
LEMMA ReadsRecovered == TypeOK /\ FileInv /\ ReadInv => RecoverableReads
<1> SUFFICES ASSUME TypeOK, FileInv, ReadInv, NEW image \in CrashImages, NEW a \in Tx,
                    NEW b \in CommittedOn(image), commitAt[a] > 0, commitAt[a] <= snapOf[b]
             PROVE  a \in CommittedOn(image) \cup exposed \cup LostIn(image)
  BY DEF RecoverableReads
<1> DEFINE w == [wal EXCEPT ![cursor] = current]
<1>1. image = wal \/ image = w
  BY DEF CrashImages
<1>2. /\ ToSet(current) \subseteq RecordsOn(w) /\ RecordsOn(w) \subseteq Written
      /\ w[cursor] = current /\ cursor \in Pages
      /\ \A r \in RecordsOn(wal) :
           r \in RecordsOn(w) \/ r.tx = 0 \/ r.tx \in Overwritten(cursor, current)
  BY WriteKeeps DEF TypeOK
<1> HIDE DEF w
<1>3. PICK s \in RecordsOn(image) : s.tx = b /\ s.op = "commit"
  BY DEF CommittedOn
<1>4. s \in Written
  BY <1>1, <1>2, <1>3 DEF Written
<1>5. b \in Tx
  <2>1. s \in Record
    BY <1>3, ImageType
  <2>2. b \in 0..MaxTx /\ b # 0
    BY <1>3, <1>4, <2>1, WrittenRanked DEF Record
  <2> QED
    BY <2>2, BoundsNatural DEF Tx
<1>6. /\ snapOf[b] < s.index /\ snapOf[b] <= lastIndex /\ snapOf[b] \in Int
      /\ commitAt[a] \in Nat /\ lastIndex \in Nat /\ s.index \in 1..lastIndex
  BY <1>3, <1>4, <1>5, WrittenRanked DEF TypeOK, ReadInv, Above, CommitOf
<1>7. commitAt[a] < s.index /\ commitAt[a] # lastIndex + 1
  BY <1>6
<1>8. a \in exposed \/ \E r \in Written : CommitOf(r, a) /\ r.index = commitAt[a]
  BY <1>7 DEF ReadInv, Announced
<1>9. ASSUME NEW r \in Written, CommitOf(r, a), r.index = commitAt[a]
      PROVE  a \in CommittedOn(image) \cup LostIn(image)
  <2>1. r.tx = a /\ r.op = "commit" /\ a # 0
    BY <1>9 DEF CommitOf, Tx
  <2>2. CASE r \in RecordsOn(image)
    BY <2>1, <2>2 DEF CommittedOn
  <2>3. CASE r \notin RecordsOn(image)
    <3>1. CASE image = wal
      <4>1. r \in ToSet(current) \ ToSet(wal[cursor])
        <5>1. r \notin ToSet(wal[cursor])
          BY <1>2, <2>3, <3>1 DEF RecordsOn
        <5> QED
          BY <2>3, <3>1, <5>1 DEF Written
      <4>2. s.index < r.index
        BY <1>3, <3>1, <4>1 DEF ReadInv, Unwritten
      <4>3. FALSE
        BY <1>6, <1>7, <1>9, <4>2
      <4> QED
        BY <4>3
    <3>2. CASE image = w
      <4>1. r \in RecordsOn(wal) /\ a \in Overwritten(cursor, current)
        BY <1>2, <2>1, <2>3, <3>2 DEF Written
      <4>2. a \in TxsIn(ToSet(wal[cursor]) \ ToSet(image[cursor]))
        BY <1>2, <3>2, <4>1 DEF Overwritten
      <4> QED
        BY <1>2, <4>2 DEF LostIn
    <3> QED
      BY <1>1, <3>1, <3>2
  <2> QED
    BY <2>2, <2>3
<1> QED
  BY <1>8, <1>9

------------------------------------------------------------------------------
(* The size of the buffer.                                                 *)

Starts(b) == {t \in Tx : \E i \in DOMAIN b[t] : b[t][i].op = "start"}
Inserts(b) == {e \in Tx \X (1..MaxWrites + 1) :
                 /\ e[2] \in DOMAIN b[e[1]]
                 /\ b[e[1]][e[2]].op = "insert"}
Total(b) == RecordSize["start"] * Cardinality(Starts(b))
            + RecordSize["insert"] * Cardinality(Inserts(b))

LEMMA TotalIs ==
    ASSUME NEW b
    PROVE  /\ IsFiniteSet(Starts(b)) /\ Cardinality(Starts(b)) \in Nat
           /\ IsFiniteSet(Inserts(b)) /\ Cardinality(Inserts(b)) \in Nat
           /\ Total(b) \in Nat
<1>1. IsFiniteSet(Tx) /\ IsFiniteSet(1..MaxWrites + 1)
  BY FS_Interval, BoundsNatural DEF Tx
<1>2. IsFiniteSet(Tx \X (1..MaxWrites + 1))
  BY <1>1, FS_Product
<1>3. IsFiniteSet(Starts(b)) /\ IsFiniteSet(Inserts(b))
  BY <1>1, <1>2, FS_Subset DEF Starts, Inserts
<1>4. Cardinality(Starts(b)) \in Nat /\ Cardinality(Inserts(b)) \in Nat
  BY <1>3, FS_CardinalityType
<1>5. RecordSize["start"] \in Nat /\ RecordSize["insert"] \in Nat
  BY SizesNatural DEF Operations
<1> QED
  BY <1>3, <1>4, <1>5 DEF Total

LEMMA TotalNone == Total(NoBatch) = 0
<1>1. DOMAIN <<>> = {}
  OBVIOUS
<1>2. \A t \in Tx : NoBatch[t] = <<>>
  BY BoundsNatural DEF NoBatch, Tx
<1>3. Starts(NoBatch) = {} /\ Inserts(NoBatch) = {}
  BY <1>1, <1>2 DEF Starts, Inserts
<1>4. RecordSize["start"] \in Nat /\ RecordSize["insert"] \in Nat
  BY SizesNatural DEF Operations
<1> QED
  BY <1>3, <1>4, FS_EmptySet DEF Total

\* A Start in a place that had no record.
LEMMA TotalStart ==
    ASSUME NEW b \in Batches, NEW t \in Tx, b[t] = <<>>, NEW r \in Record, r.op = "start"
    PROVE  Total([b EXCEPT ![t] = <<r>>]) = Total(b) + RecordSize["start"]
<1> DEFINE a == [b EXCEPT ![t] = <<r>>]
<1>1. t \in 0..MaxTx
  BY BoundsNatural DEF Tx
<1>2. a[t] = <<r>> /\ \A u \in Tx : u # t => a[u] = b[u]
  BY <1>1, BoundsNatural DEF Batches, Tx
<1>3. DOMAIN b[t] = {} /\ DOMAIN a[t] = {1} /\ a[t][1] = r
  BY <1>2
<1> HIDE DEF a
<1>4. Starts(a) = Starts(b) \cup {t} /\ t \notin Starts(b)
  BY <1>2, <1>3 DEF Starts
<1>5. Inserts(a) = Inserts(b)
  <2>1. ASSUME NEW e \in Tx \X (1..MaxWrites + 1)
        PROVE  (e[2] \in DOMAIN a[e[1]] /\ a[e[1]][e[2]].op = "insert")
               <=> (e[2] \in DOMAIN b[e[1]] /\ b[e[1]][e[2]].op = "insert")
    <3>1. CASE e[1] = t
      BY <1>3, <3>1
    <3>2. CASE e[1] # t
      BY <1>2, <3>2
    <3> QED
      BY <3>1, <3>2
  <2> QED
    BY <2>1 DEF Inserts
<1>6. Cardinality(Starts(a)) = Cardinality(Starts(b)) + 1
  BY <1>4, TotalIs, FS_AddElement
<1>7. RecordSize["start"] \in Nat /\ RecordSize["insert"] \in Nat
  BY SizesNatural DEF Operations
<1>8. \A m, n, k \in Nat : m * (n + 1) + k = (m * n + k) + m
  OBVIOUS
<1>9. Cardinality(Starts(b)) \in Nat
      /\ RecordSize["insert"] * Cardinality(Inserts(b)) \in Nat
  BY <1>7, TotalIs
<1>10. Total(a) = Total(b) + RecordSize["start"]
  BY <1>5, <1>6, <1>7, <1>8, <1>9 DEF Total
<1> QED
  BY <1>10 DEF a

\* An insert behind the records of its transaction.
LEMMA TotalInsert ==
    ASSUME NEW b \in Batches, NEW t \in Tx, Len(b[t]) <= MaxWrites, NEW r \in Record,
           r.op = "insert"
    PROVE  Total([b EXCEPT ![t] = Append(b[t], r)]) = Total(b) + RecordSize["insert"]
<1> DEFINE a == [b EXCEPT ![t] = Append(b[t], r)]
           e == <<t, Len(b[t]) + 1>>
<1>1. t \in 0..MaxTx
  BY BoundsNatural DEF Tx
<1>2. a[t] = Append(b[t], r) /\ b[t] \in Seq(Record) /\ \A u \in Tx : u # t => a[u] = b[u]
  BY <1>1, BoundsNatural DEF Batches, Tx
<1>3. /\ Len(b[t]) \in Nat /\ DOMAIN b[t] = 1..Len(b[t])
      /\ DOMAIN a[t] = 1..(Len(b[t]) + 1) /\ a[t][Len(b[t]) + 1] = r
      /\ \A i \in 1..Len(b[t]) : a[t][i] = b[t][i]
  BY <1>2
<1> HIDE DEF a
<1>4. Starts(a) = Starts(b)
  <2>1. ASSUME NEW u \in Tx
        PROVE  (\E i \in DOMAIN a[u] : a[u][i].op = "start")
               <=> (\E i \in DOMAIN b[u] : b[u][i].op = "start")
    <3>1. CASE u = t
      BY <1>3, <3>1
    <3>2. CASE u # t
      BY <1>2, <3>2
    <3> QED
      BY <3>1, <3>2
  <2> QED
    BY <2>1 DEF Starts
<1>5. e \in Tx \X (1..MaxWrites + 1) /\ e[1] = t /\ e[2] = Len(b[t]) + 1
  BY <1>3, BoundsNatural
<1>6. e \notin Inserts(b)
  BY <1>3, <1>5 DEF Inserts
<1>7. Inserts(a) = Inserts(b) \cup {e}
  <2>1. ASSUME NEW x \in Tx \X (1..MaxWrites + 1)
        PROVE  (x[2] \in DOMAIN a[x[1]] /\ a[x[1]][x[2]].op = "insert")
               <=> (x = e \/ (x[2] \in DOMAIN b[x[1]] /\ b[x[1]][x[2]].op = "insert"))
    <3>1. CASE x[1] # t
      BY <1>2, <1>5, <3>1
    <3>2. CASE x[1] = t /\ x[2] # Len(b[t]) + 1
      <4>1. x # e
        BY <1>5, <3>2
      <4>2. x[2] \in DOMAIN a[t] <=> x[2] \in DOMAIN b[t]
        BY <1>3, <3>2
      <4> QED
        BY <1>3, <3>2, <4>1, <4>2
    <3>3. CASE x[1] = t /\ x[2] = Len(b[t]) + 1
      <4>1. x = e
        BY <3>3
      <4>2. x[2] \in DOMAIN a[t] /\ a[t][x[2]].op = "insert"
        BY <1>3, <3>3
      <4> QED
        BY <3>3, <4>1, <4>2
    <3> QED
      BY <3>1, <3>2, <3>3
  <2> HIDE DEF e
  <2> QED
    BY <1>5, <2>1 DEF Inserts
<1> HIDE DEF e
<1>8. Cardinality(Inserts(a)) = Cardinality(Inserts(b)) + 1
  BY <1>6, <1>7, TotalIs, FS_AddElement
<1>9. RecordSize["start"] \in Nat /\ RecordSize["insert"] \in Nat
  BY SizesNatural DEF Operations
<1>10. \A m, n, k \in Nat : k + m * (n + 1) = (k + m * n) + m
  OBVIOUS
<1>11. Cardinality(Inserts(b)) \in Nat
       /\ RecordSize["start"] * Cardinality(Starts(b)) \in Nat
  BY <1>9, TotalIs
<1>12. Total(a) = Total(b) + RecordSize["insert"]
  <2>1. RecordSize["start"] * Cardinality(Starts(b))
          + RecordSize["insert"] * (Cardinality(Inserts(b)) + 1)
        = (RecordSize["start"] * Cardinality(Starts(b))
             + RecordSize["insert"] * Cardinality(Inserts(b))) + RecordSize["insert"]
    BY <1>9, <1>10, <1>11
  <2> QED
    BY <1>4, <1>8, <2>1, Zenon DEF Total
<1> QED
  BY <1>12 DEF a

\* The size of one transaction's records, and what is left without them.
LEMMA TotalDrain ==
    ASSUME NEW b \in Batches, NEW t \in Tx, Buffered(b[t], MaxWrites + 1)
    PROVE  Total([b EXCEPT ![t] = <<>>]) = Total(b) - SizeOf(b[t])
<1> DEFINE a == [b EXCEPT ![t] = <<>>]
           mine == {e \in Inserts(b) : e[1] = t}
           here == {i \in DOMAIN b[t] : b[t][i].op = "insert"}
           first == {i \in DOMAIN b[t] : b[t][i].op = "start"}
<1>1. t \in 0..MaxTx
  BY BoundsNatural DEF Tx
<1>2. a[t] = <<>> /\ b[t] \in Seq(Record) /\ \A u \in Tx : u # t => a[u] = b[u]
  BY <1>1, BoundsNatural DEF Batches, Tx
<1>3. DOMAIN a[t] = {} /\ Len(b[t]) \in Nat /\ DOMAIN b[t] = 1..Len(b[t])
      /\ IsFiniteSet(DOMAIN b[t])
  <2>1. Len(b[t]) \in Nat /\ DOMAIN b[t] = 1..Len(b[t])
    BY <1>2
  <2>2. IsFiniteSet(1..Len(b[t]))
    BY <2>1, FS_Interval
  <2> QED
    BY <1>2, <2>1, <2>2
<1> HIDE DEF a
<1>4. Starts(a) = Starts(b) \ {t}
  BY <1>2, <1>3 DEF Starts
<1>5. Inserts(a) = Inserts(b) \ mine
  <2>1. ASSUME NEW x \in Tx \X (1..MaxWrites + 1)
        PROVE  (x[2] \in DOMAIN a[x[1]] /\ a[x[1]][x[2]].op = "insert")
               <=> (x[2] \in DOMAIN b[x[1]] /\ b[x[1]][x[2]].op = "insert" /\ x[1] # t)
    <3>1. CASE x[1] = t
      BY <1>3, <3>1
    <3>2. CASE x[1] # t
      BY <1>2, <3>2
    <3> QED
      BY <3>1, <3>2
  <2> QED
    BY <2>1 DEF Inserts
<1>6. Cardinality(mine) = Cardinality(here) /\ Cardinality(here) \in Nat /\ IsFiniteSet(mine)
  <2>1. IsFiniteSet(here) /\ Cardinality(here) \in Nat
    BY <1>3, FS_Subset, FS_CardinalityType
  <2> DEFINE f == [i \in here |-> <<t, i>>]
  <2>2. \A i \in here : <<t, i>> \in mine
    <3>1. ASSUME NEW i \in here PROVE i \in 1..MaxWrites + 1
      BY <1>3, BoundsNatural DEF Buffered
    <3>2. ASSUME NEW i \in here PROVE <<t, i>>[1] = t /\ <<t, i>>[2] = i
      OBVIOUS
    <3> QED
      BY <3>1, <3>2 DEF Inserts
  <2>3. \A e \in mine : \E i \in here : <<t, i>> = e
    <3> SUFFICES ASSUME NEW e \in mine PROVE \E i \in here : <<t, i>> = e
      OBVIOUS
    <3>1. e \in Tx \X (1..MaxWrites + 1) /\ e[1] = t /\ e[2] \in here
      BY DEF Inserts
    <3>2. <<t, e[2]>> = e
      BY <3>1
    <3> QED
      BY <3>1, <3>2
  <2>4. \A i, j \in here : <<t, i>> = <<t, j>> => i = j
    OBVIOUS
  <2> HIDE DEF mine, here
  <2>5. f \in [here -> mine]
    BY <2>2
  <2>6. f \in Bijection(here, mine)
    <3>1. f \in Injection(here, mine)
      BY <2>4, <2>5 DEF Injection, IsInjective
    <3>2. f \in Surjection(here, mine)
      BY <2>3, <2>5 DEF Surjection
    <3> QED
      BY <3>1, <3>2 DEF Bijection
  <2>7. ExistsBijection(here, mine)
    BY <2>6 DEF ExistsBijection
  <2> QED
    BY <2>1, <2>7, FS_Bijection
<1>7. Cardinality(Inserts(a)) = Cardinality(Inserts(b)) - Cardinality(here)
  <2>1. Inserts(b) \cap mine = mine
    OBVIOUS
  <2>2. Cardinality(Inserts(b) \ mine) = Cardinality(Inserts(b)) - Cardinality(Inserts(b) \cap mine)
    BY TotalIs, FS_Difference
  <2> HIDE DEF mine, here
  <2> QED
    BY <1>5, <1>6, <2>1, <2>2
<1>8. Cardinality(Starts(a)) = Cardinality(Starts(b)) - Cardinality(first)
      /\ Cardinality(first) \in Nat
  <2>1. CASE t \in Starts(b)
    <3>1. first = {1}
      BY <2>1 DEF Starts, Buffered
    <3> HIDE DEF first
    <3>2. Cardinality(first) = 1
      BY <3>1, FS_Singleton
    <3>3. Cardinality(Starts(b) \ {t}) = Cardinality(Starts(b)) - 1
      BY <2>1, TotalIs, FS_RemoveElement
    <3> QED
      BY <1>4, <3>2, <3>3
  <2>2. CASE t \notin Starts(b)
    <3>1. first = {}
      BY <2>2 DEF Starts
    <3> HIDE DEF first
    <3>2. Cardinality(first) = 0
      BY <3>1, FS_EmptySet
    <3>3. Starts(b) \ {t} = Starts(b)
      BY <2>2
    <3> QED
      BY <1>4, <3>2, <3>3, TotalIs
  <2> QED
    BY <2>1, <2>2
<1>9. SizeOf(b[t]) = RecordSize["start"] * Cardinality(first)
                     + RecordSize["insert"] * Cardinality(here)
  <2>1. {i \in DOMAIN b[t] : b[t][i].op = "commit"} = {}
        /\ {i \in DOMAIN b[t] : b[t][i].op = "checkpoint"} = {}
    BY DEF Buffered
  <2>2. KindSize(b[t], "commit") = 0 /\ KindSize(b[t], "checkpoint") = 0
    <3>1. RecordSize["commit"] * 0 = 0 /\ RecordSize["checkpoint"] * 0 = 0
      BY SizesNatural DEF Operations
    <3>2. Cardinality({}) = 0
      BY FS_EmptySet
    <3> QED
      BY <2>1, <3>1, <3>2, Zenon DEF KindSize
  <2>3. KindSize(b[t], "start") = RecordSize["start"] * Cardinality(first)
        /\ KindSize(b[t], "insert") = RecordSize["insert"] * Cardinality(here)
    BY DEF KindSize
  <2>4. RecordSize["start"] * Cardinality(first) \in Nat
        /\ RecordSize["insert"] * Cardinality(here) \in Nat
    <3>1. RecordSize["start"] \in Nat /\ RecordSize["insert"] \in Nat
      BY SizesNatural DEF Operations
    <3> HIDE DEF first, here
    <3> QED
      BY <1>6, <1>8, <3>1
  <2> HIDE DEF first, here
  <2> QED
    BY <2>2, <2>3, <2>4 DEF SizeOf
<1> HIDE DEF first, here, mine
<1>10. RecordSize["start"] \in Nat /\ RecordSize["insert"] \in Nat
  BY SizesNatural DEF Operations
<1>11. \A m, k, x, y, z, w \in Int :
         m * (x - y) + k * (z - w) = (m * x + k * z) - (m * y + k * w)
  OBVIOUS
<1>12. Total(a) = Total(b) - SizeOf(b[t])
  <2>1. /\ Cardinality(Starts(b)) \in Int /\ Cardinality(Inserts(b)) \in Int
        /\ Cardinality(first) \in Int /\ Cardinality(here) \in Int
        /\ RecordSize["start"] \in Int /\ RecordSize["insert"] \in Int
    BY <1>6, <1>8, <1>10, TotalIs
  <2> QED
    BY <1>7, <1>8, <1>9, <1>11, <2>1 DEF Total
<1> QED
  BY <1>12 DEF a

LEMMA ClientSize ==
    ASSUME TypeInv, IdsInv, BufferInv, SizeExact, NEW c \in Clients, Client(c)
    PROVE  BufferInv' /\ SizeExact'
<1> USE DEF TypeInv
<1>1. /\ logs \in Batches /\ lastTx \in Nat /\ writes \in [Tx -> Nat] /\ size \in Int
      /\ \A t \in Tx : t \in 0..MaxTx
  BY BoundsNatural DEF TypeOK, Tx
<1>2. \A t \in Tx : logs[t] \in Seq(Record) /\ Len(logs[t]) \in Nat /\ writes[t] \in Nat
  BY <1>1 DEF Batches
<1>3. pc[c] # "idle" => tx[c] \in Tx
  BY DEF Protocol, RunsTx
<1>4. size = Total(logs)
  BY DEF SizeExact, Total, Starts, Inserts
<1>5. ASSUME size' = Total(logs') PROVE SizeExact'
  BY <1>5 DEF SizeExact, Total, Starts, Inserts
<1>6. DOMAIN <<>> = {} /\ Len(<<>>) = 0
  OBVIOUS
<1>7. CASE Begin(c)
  <2> DEFINE t == lastTx + 1
             r == Rec(t, "start", 0)
  <2>1. /\ logs' = [logs EXCEPT ![t] = <<r>>] /\ size' = size + RecordSize["start"]
        /\ writes' = [writes EXCEPT ![t] = 0]
    BY <1>7 DEF Begin
  <2>2. t \in Tx
    BY <1>1, <1>7, BoundsNatural DEF Begin, Tx
  <2>3. r \in Record /\ r.op = "start"
    BY <1>1, <2>2, RecType DEF Operations, Rec
  <2>4. logs[t] = <<>>
    <3>1. ASSUME NEW i \in DOMAIN logs[t] PROVE FALSE
      <4>1. t <= lastTx
        BY <1>1, <2>2 DEF IdsInv, Keyed
      <4> QED
        BY <1>1, <4>1
    <3> HIDE DEF t
    <3>2. Len(logs[t]) = 0
      <4>1. Len(logs[t]) \in Nat /\ DOMAIN logs[t] = 1..Len(logs[t])
        BY <1>2, <2>2
      <4>2. Len(logs[t]) > 0 => 1 \in DOMAIN logs[t]
        BY <4>1
      <4> QED
        BY <3>1, <4>1, <4>2
    <3>3. logs[t] \in Seq(Record)
      BY <1>2, <2>2
    <3> QED
      BY <3>2, <3>3, EmptySeq
  <2> HIDE DEF r, t
  <2>5. size' = Total(logs')
    BY <1>1, <1>4, <2>1, <2>2, <2>3, <2>4, TotalStart
  <2>6. ASSUME NEW u \in Tx PROVE writes'[u] <= MaxWrites /\ Buffered(logs'[u], writes'[u] + 1)
    <3>1. CASE u = t
      <4>1. logs'[u] = <<r>> /\ writes'[u] = 0
        BY <1>1, <2>1, <3>1 DEF Batches
      <4>2. DOMAIN <<r>> = {1} /\ <<r>>[1] = r /\ Len(<<r>>) = 1
        OBVIOUS
      <4>3. Buffered(<<r>>, 0 + 1)
        BY <2>3, <4>2 DEF Buffered
      <4> QED
        BY <4>1, <4>3, BoundsNatural
    <3>2. CASE u # t
      <4>1. logs'[u] = logs[u] /\ writes'[u] = writes[u]
        BY <1>1, <2>1, <3>2 DEF Batches
      <4> QED
        BY <4>1 DEF BufferInv
    <3> QED
      BY <3>1, <3>2
  <2> QED
    BY <1>5, <2>5, <2>6 DEF BufferInv
<1>8. CASE Update(c)
  <2> DEFINE t == tx[c]
             r == Rec(t, "insert", writes[t] + 1)
  <2>1. /\ t \in Tx /\ writes[t] < MaxWrites
        /\ logs' = [logs EXCEPT ![t] = Append(logs[t], r)] /\ size' = size + RecordSize["insert"]
        /\ writes' = [writes EXCEPT ![t] = writes[t] + 1]
    BY <1>3, <1>8 DEF Update
  <2>2. r \in Record /\ r.op = "insert"
    <3>1. t \in 0..MaxTx /\ writes[t] + 1 \in Nat /\ "insert" \in Operations
      BY <1>1, <1>2, <2>1 DEF Operations
    <3> QED
      BY <3>1, RecType DEF Rec
  <2> HIDE DEF r, t
  <2>3. Buffered(logs[t], writes[t] + 1)
    BY <2>1 DEF BufferInv
  <2>4. Len(logs[t]) <= MaxWrites
    BY <1>2, <2>1, <2>3, BoundsNatural DEF Buffered
  <2>5. size' = Total(logs')
    BY <1>1, <1>4, <2>1, <2>2, <2>4, TotalInsert
  <2>6. ASSUME NEW u \in Tx PROVE writes'[u] <= MaxWrites /\ Buffered(logs'[u], writes'[u] + 1)
    <3>1. CASE u = t
      <4>1. logs'[u] = Append(logs[t], r) /\ writes'[u] = writes[t] + 1
        BY <1>1, <2>1, <3>1 DEF Batches
      <4>2. /\ Len(Append(logs[t], r)) = Len(logs[t]) + 1
            /\ DOMAIN Append(logs[t], r) = 1..(Len(logs[t]) + 1)
            /\ DOMAIN logs[t] = 1..Len(logs[t])
            /\ Append(logs[t], r)[Len(logs[t]) + 1] = r
            /\ \A i \in 1..Len(logs[t]) : Append(logs[t], r)[i] = logs[t][i]
        <5>1. logs[t] \in Seq(Record)
          BY <1>2, <2>1
        <5> QED
          BY <5>1
      <4>3. Len(logs[t]) + 1 <= (writes[t] + 1) + 1
        BY <1>2, <2>1, <2>3 DEF Buffered
      <4>4. \A i \in 1..(Len(logs[t]) + 1) : i = Len(logs[t]) + 1 \/ i \in 1..Len(logs[t])
        BY <1>2, <2>1
      <4>5. Buffered(Append(logs[t], r), (writes[t] + 1) + 1)
        BY <2>2, <2>3, <4>2, <4>3, <4>4 DEF Buffered
      <4>6. writes[t] + 1 <= MaxWrites
        BY <1>2, <2>1, BoundsNatural
      <4> QED
        BY <4>1, <4>5, <4>6
    <3>2. CASE u # t
      <4>1. logs'[u] = logs[u] /\ writes'[u] = writes[u]
        BY <1>1, <2>1, <3>2 DEF Batches
      <4> QED
        BY <4>1 DEF BufferInv
    <3> QED
      BY <3>1, <3>2
  <2> QED
    BY <1>5, <2>5, <2>6 DEF BufferInv
<1>9. CASE Flush(c)
  <2>1. logs' = NoBatch /\ size' = 0 /\ writes' = writes
    BY <1>9 DEF Flush, history, coverage
  <2>2. ASSUME NEW t \in Tx PROVE Buffered(logs'[t], writes[t] + 1)
    <3>1. logs'[t] = <<>>
      BY <1>1, <2>1 DEF NoBatch
    <3>2. 0 <= writes[t] + 1
      BY <1>2
    <3> QED
      BY <1>6, <3>1, <3>2 DEF Buffered
  <2> QED
    BY <1>5, <2>1, <2>2, TotalNone DEF BufferInv
<1>10. CASE CommitDrain(c)
  <2> DEFINE t == tx[c]
  <2>1. /\ t \in Tx /\ logs' = [logs EXCEPT ![t] = <<>>] /\ size' = size - SizeOf(logs[t])
        /\ writes' = writes
    BY <1>3, <1>10 DEF CommitDrain
  <2> HIDE DEF t
  <2>2. Buffered(logs[t], MaxWrites + 1)
    <3>1. Buffered(logs[t], writes[t] + 1) /\ writes[t] <= MaxWrites
      BY <2>1 DEF BufferInv
    <3>2. Len(logs[t]) <= MaxWrites + 1
      BY <1>2, <2>1, <3>1, BoundsNatural DEF Buffered
    <3> QED
      BY <3>1, <3>2 DEF Buffered
  <2>3. size' = Total(logs')
    BY <1>1, <1>4, <2>1, <2>2, TotalDrain
  <2>4. ASSUME NEW u \in Tx PROVE Buffered(logs'[u], writes[u] + 1)
    <3>1. CASE u = t
      <4>1. logs'[u] = <<>>
        BY <1>1, <2>1, <3>1 DEF Batches
      <4>2. 0 <= writes[u] + 1
        BY <1>2
      <4> QED
        BY <1>6, <4>1, <4>2 DEF Buffered
    <3>2. CASE u # t
      <4>1. logs'[u] = logs[u]
        BY <1>1, <2>1, <3>2 DEF Batches
      <4> QED
        BY <4>1 DEF BufferInv
    <3> QED
      BY <3>1, <3>2
  <2> QED
    BY <1>5, <2>1, <2>3, <2>4 DEF BufferInv
<1>11. CASE Check(c) \/ Send(c) \/ Snapshot(c) \/ Abandon(c)
  <2>1. UNCHANGED <<logs, size, writes>>
    BY <1>11 DEF Check, Send, Snapshot, Abandon, bufferVars, history, coverage
  <2> QED
    BY <1>4, <1>5, <2>1 DEF BufferInv
<1> QED
  BY <1>7, <1>8, <1>9, <1>10, <1>11 DEF Client

LEMMA OtherSize ==
    ASSUME TypeInv, BufferInv, SizeExact, Io \/ Checkpoint \/ Restart
    PROVE  BufferInv' /\ SizeExact'
<1> USE DEF TypeInv
<1>1. CASE Io \/ Checkpoint
  <2>1. UNCHANGED <<logs, size, writes>>
    BY <1>1 DEF Io, IoRecv, IoRecord, SwitchDone, SwitchFail, WriteDone, WriteFail, Checkpoint,
                CkWake, CkNothing, CkDrain, CkFlushed, CkFailed, bufferVars, history, coverage
  <2> QED
    BY <2>1 DEF BufferInv, SizeExact
<1>2. CASE Restart
  <2>1. logs' = NoBatch /\ size' = 0 /\ writes' = writes
    BY <1>2 DEF Restart
  <2>2. size' = Total(logs')
    BY <2>1, TotalNone
  <2>3. SizeExact'
    BY <2>2 DEF SizeExact, Total, Starts, Inserts
  <2>4. ASSUME NEW t \in Tx PROVE Buffered(logs'[t], writes[t] + 1)
    <3>1. logs'[t] = <<>> /\ writes[t] \in Nat
      BY <2>1, BoundsNatural DEF NoBatch, Tx, TypeOK
    <3>2. DOMAIN <<>> = {} /\ Len(<<>>) = 0 /\ 0 <= writes[t] + 1
      BY <3>1
    <3> QED
      BY <3>1, <3>2 DEF Buffered
  <2> QED
    BY <2>1, <2>3, <2>4 DEF BufferInv
<1> QED
  BY <1>1, <1>2

------------------------------------------------------------------------------
(* The theorems.                                                           *)

FileInvariants == IdsInv /\ FileInv /\ ReadInv /\ BufferInv /\ SizeExact

\* The records of every transaction, from the buffer to the file: whose they are, in
\* which order they are written and which commits were announced.
THEOREM LogInvariant == Spec => []FileInvariants
<1>1. Init => FileInvariants
  <2> SUFFICES ASSUME Init PROVE FileInvariants
    OBVIOUS
  <2>1. /\ logs = NoBatch /\ hand = [c \in Clients |-> NoBatch] /\ ioq = <<>>
        /\ batch = NoBatch /\ wal = [p \in Pages |-> <<>>] /\ current = <<>>
        /\ pc = [c \in Clients |-> "idle"] /\ op = [c \in Clients |-> "none"]
        /\ commitAt = [t \in Tx |-> 0] /\ snapOf = [t \in Tx |-> -1] /\ lastIndex = 0
        /\ writes = [t \in Tx |-> 0] /\ size = 0
    BY DEF Init
  <2>2. DOMAIN <<>> = {} /\ Len(<<>>) = 0
    OBVIOUS
  <2>3. IdsInv
    BY <2>1, <2>2, NoneKeyed DEF IdsInv
  <2>4. FileInv
    BY <2>1, NoneRanked DEF FileInv, FileIn
  <2>5. Written = {}
    BY <2>1, SetOfNone DEF Written, RecordsOn
  <2>6. ReadInv
    BY <2>1, <2>5, SetOfNone DEF ReadInv, Young, Above, Unwritten
  <2>7. BufferInv
    <3>1. \A t \in Tx : logs[t] = <<>> /\ writes[t] = 0
      BY <2>1, BoundsNatural DEF NoBatch, Tx
    <3> QED
      BY <2>2, <3>1, BoundsNatural DEF BufferInv, Buffered
  <2>8. SizeExact
    BY <2>1, TotalNone DEF SizeExact, Total, Starts, Inserts
  <2> QED
    BY <2>3, <2>4, <2>6, <2>7, <2>8 DEF FileInvariants
<1>2. TypeInv /\ CommitInv /\ FileInvariants /\ [Next]_vars => FileInvariants'
  <2> SUFFICES ASSUME TypeInv, CommitInv, FileInvariants, [Next]_vars PROVE FileInvariants'
    OBVIOUS
  <2>1. IdsInv /\ FileInv /\ ReadInv /\ BufferInv /\ SizeExact
    BY DEF FileInvariants
  <2>2. ASSUME NEW c \in Clients, Client(c) PROVE FileInvariants'
    BY <2>1, <2>2, ClientIds, OtherFile, ClientRead, ClientSize DEF FileInvariants
  <2>3. CASE Io
    BY <2>1, <2>3, ThreadIds, IoFile, IoRead, OtherSize DEF FileInvariants
  <2>4. CASE Checkpoint
    BY <2>1, <2>4, ThreadIds, OtherFile, OtherRead, OtherSize DEF FileInvariants
  <2>5. CASE Restart
    BY <2>1, <2>5, RestartIds, OtherFile, OtherRead, OtherSize DEF FileInvariants
  <2>6. CASE UNCHANGED vars
    <3>1. UNCHANGED <<lastTx, logs, size, pc, op, tx, hand, ioq, ioPc, batch, current, cursor,
                      lastIndex, wal, commitAt, snapOf, writes, exposed>>
      BY <2>6 DEF vars, bufferVars, clientVars, ioVars, history, coverage
    <3>2. IdsInv' /\ FileInv' /\ BufferInv' /\ SizeExact'
      BY <2>1, <3>1 DEF IdsInv, FileInv, BufferInv, SizeExact
    <3>3. Written' = Written
      BY <3>1 DEF Written, RecordsOn
    <3>4. Young' /\ Unwritten'
      BY <2>1, <3>1, <3>3 DEF ReadInv, Young, Unwritten, RecordsOn
    <3>5. TypeOK
      BY DEF TypeInv
    <3>6. ReadInv'
      BY <2>1, <3>1, <3>3, <3>4, <3>5, ReadKept
    <3> QED
      BY <3>2, <3>6 DEF FileInvariants
  <2>7. Quiescent => UNCHANGED vars
    BY DEF Quiescent
  <2> QED
    BY <2>2, <2>3, <2>4, <2>5, <2>6, <2>7 DEF Next
<1> QED
  BY <1>1, <1>2, TypeInvariant, CommitInvariant, PTL DEF Spec

\* Whatever a crash leaves in wal.db, no two records share an index, a page has them in
\* their order, and the counters are above all of them, through failed writes, wraps of
\* the ring and restarts.
THEOREM IndexesOrdered == Spec => []IndexOrder
<1>1. FileInvariants => FileInv
  BY DEF FileInvariants
<1> QED
  BY <1>1, FileOrder, TypeCorrect, LogInvariant, PTL

\* No transaction survives a crash without those it could read from, although commits are
\* announced before they are on disk.
THEOREM ReadsSurvive == Spec => []RecoverableReads
<1>1. FileInvariants => FileInv /\ ReadInv
  BY DEF FileInvariants
<1> QED
  BY <1>1, ReadsRecovered, TypeCorrect, LogInvariant, PTL

\* The size by which the log buffer decides on a flush is that of the records it holds,
\* however commits and flushes of other clients drain it.
THEOREM SizeKept == Spec => []SizeExact
<1>1. FileInvariants => SizeExact
  BY DEF FileInvariants
<1> QED
  BY <1>1, LogInvariant, PTL

==============================================================================
