---------------------------- MODULE FinderProofs ----------------------------
(***************************************************************************)
(* Proofs about Finder for any callers, pages, write threads, batch size   *)
(* and bounds: a write in progress is in exactly one place, and Finder     *)
(* implements PageStore.                                                   *)
(***************************************************************************)
EXTENDS Finder, SequenceTheorems, TLAPS

-----------------------------------------------------------------------------
(* Sequences without repetition: the channels and the `wait`s.             *)

Distinct(s) == \A i, j \in 1..Len(s) : s[i] = s[j] => i = j

\* A new element goes to the end, and the head stays what it was.
LEMMA AppendDistinct ==
    ASSUME NEW S, NEW s \in Seq(S), NEW e \in S, Distinct(s), e \notin Elements(s)
    PROVE  /\ Append(s, e) \in Seq(S)
           /\ Append(s, e) # <<>>
           /\ Elements(Append(s, e)) = Elements(s) \cup {e}
           /\ Distinct(Append(s, e))
           /\ Len(Append(s, e)) = Len(s) + 1
           /\ s # <<>> => Head(Append(s, e)) = Head(s)
           /\ s = <<>> => Head(Append(s, e)) = e
<1> DEFINE a == Append(s, e)
<1>1. /\ a \in Seq(S) /\ Len(a) = Len(s) + 1 /\ Len(s) \in Nat
      /\ \A i \in 1..Len(s) : a[i] = s[i]
      /\ a[Len(s) + 1] = e
  OBVIOUS
<1>2. DOMAIN s = 1..Len(s) /\ DOMAIN a = 1..Len(s) + 1
  BY <1>1, LenProperties
<1>3. Elements(a) = Elements(s) \cup {e}
  <2>1. ASSUME NEW x \in Elements(a) PROVE x \in Elements(s) \cup {e}
    BY <1>1, <1>2 DEF Elements
  <2>2. ASSUME NEW x \in Elements(s) PROVE x \in Elements(a)
    BY <1>1, <1>2 DEF Elements
  <2>3. e \in Elements(a)
    BY <1>1, <1>2 DEF Elements
  <2> QED
    BY <2>1, <2>2, <2>3
<1>4. \A i \in 1..Len(s) : s[i] # e
  BY <1>2 DEF Elements
<1>5. Distinct(a)
  BY <1>1, <1>4 DEF Distinct
<1>6. s # <<>> => Len(s) > 0
  BY EmptySeq, <1>1
<1> QED
  BY <1>1, <1>3, <1>5, <1>6

\* The head leaves, and is nowhere in the tail.
LEMMA TailDistinct ==
    ASSUME NEW S, NEW s \in Seq(S), Distinct(s), s # <<>>
    PROVE  /\ Head(s) \in S /\ Head(s) \in Elements(s)
           /\ Tail(s) \in Seq(S)
           /\ Elements(Tail(s)) = Elements(s) \ {Head(s)}
           /\ Distinct(Tail(s))
<1>1. /\ Len(s) \in Nat \ {0} /\ Head(s) = s[1] /\ Head(s) \in S
      /\ Tail(s) \in Seq(S) /\ Len(Tail(s)) = Len(s) - 1
      /\ \A i \in 1..Len(Tail(s)) : Tail(s)[i] = s[i + 1]
  BY HeadTailProperties, EmptySeq
<1>2. DOMAIN s = 1..Len(s) /\ DOMAIN Tail(s) = 1..Len(s) - 1
  BY <1>1, LenProperties
<1>3. Head(s) \in Elements(s)
  BY <1>1, <1>2 DEF Elements
<1>4. ASSUME NEW x \in Elements(Tail(s)) PROVE x \in Elements(s) \ {Head(s)}
  <2>1. PICK i \in 1..Len(s) - 1 : x = s[i + 1]
    BY <1>1, <1>2 DEF Elements
  <2>2. i + 1 \in 1..Len(s) /\ i + 1 # 1
    BY <1>1
  <2> QED
    BY <2>1, <2>2, <1>1, <1>2 DEF Elements, Distinct
<1>5. ASSUME NEW x \in Elements(s), x # Head(s) PROVE x \in Elements(Tail(s))
  <2>1. PICK i \in 1..Len(s) : x = s[i]
    BY <1>2 DEF Elements
  <2>2. i - 1 \in 1..Len(s) - 1 /\ Tail(s)[i - 1] = s[i]
    BY <1>1, <1>5, <2>1
  <2> QED
    BY <2>1, <2>2, <1>2 DEF Elements
<1>6. Distinct(Tail(s))
  <2> SUFFICES ASSUME NEW i \in 1..Len(Tail(s)), NEW j \in 1..Len(Tail(s)),
                      Tail(s)[i] = Tail(s)[j]
               PROVE  i = j
    BY DEF Distinct
  <2>1. i + 1 \in 1..Len(s) /\ j + 1 \in 1..Len(s) /\ s[i + 1] = s[j + 1]
    BY <1>1
  <2> QED
    BY <2>1, <1>1 DEF Distinct
<1> QED
  BY <1>1, <1>3, <1>4, <1>5, <1>6

\* An empty channel or `wait`.
LEMMA EmptyDistinct ==
    ASSUME NEW S
    PROVE  <<>> \in Seq(S) /\ Elements(<<>>) = {} /\ Distinct(<<>>)
BY EmptySeq DEF Elements, Distinct

-----------------------------------------------------------------------------
(* The inductive invariant.                                                *)

Ops ==
  [kind : {"none"}]
    \cup [kind : {"write"}, page : Pages, at : Nat]
    \cup [kind : {"read"}, page : Pages, got : Nat \cup {-1}]
    \cup [kind : {"fsync"}, upto : [Pages -> Nat]]

TypeOK ==
  /\ applied \in [Pages -> Nat] /\ safe \in [Pages -> Nat]
  /\ op \in [Callers -> Ops]
  /\ write_c \in Threads
  /\ queue \in [Threads -> Seq(Callers)] /\ wait \in [Threads -> Seq(Callers)]
  /\ wst \in [Threads -> {"off", "waiting", "asking", "syncing", "acking"}]
  /\ flush \in Seq(Callers \cup Threads) /\ synced \in BOOLEAN
  /\ closing \in 0..FlushThread

\* What is safe, written or to be synced is not ahead of the file.
NotAhead ==
  /\ \A p \in Pages : safe[p] <= applied[p]
  /\ \A c \in Callers :
       /\ op[c].kind = "write" => op[c].at <= applied[op[c].page]
       /\ op[c].kind = "fsync" => \A p \in Pages : op[c].upto[p] <= applied[p]

\* No caller is in two of the sequences, or twice in one.
Once(f) ==
  \A t \in Threads :
    /\ Distinct(f[t])
    /\ \A u \in Threads \ {t} : Elements(f[t]) \cap Elements(f[u]) = {}

In(f, c) == \E t \in Threads : c \in Elements(f[t])

\* A caller is in a channel exactly while pwrite has not seen its write, and in
\* a `wait` exactly from then on.
Placed ==
  /\ Once(queue) /\ Once(wait)
  /\ \A c \in Callers :
       /\ In(queue, c) <=> op[c].kind = "write" /\ op[c].at = 0
       /\ In(wait, c) <=> op[c].kind = "write" /\ op[c].at # 0

\* Whoever is in the channel of the flush thread is there once and waits for it.
Flushing ==
  /\ Distinct(flush)
  /\ \A t \in Threads : t \in Elements(flush) => wst[t] = "syncing"
  /\ \A c \in Callers : c \in Elements(flush) => op[c].kind = "fsync"

SafeWait(t) == \A c \in Elements(wait[t]) : op[c].at <= safe[op[c].page]

\* A batch that is being answered is safe, and so is what the fsync done for the
\* head of the flush thread's channel covers.
Covered ==
  /\ \A t \in Threads : wst[t] = "acking" => SafeWait(t)
  /\ synced => /\ flush # <<>>
               /\ Head(flush) \in Threads => SafeWait(Head(flush))
               /\ Head(flush) \in Callers =>
                    \A p \in Pages : op[Head(flush)].upto[p] <= safe[p]

Inv == TypeOK /\ NotAhead /\ Placed /\ Flushing /\ Covered

-----------------------------------------------------------------------------
(* Calls.                                                                  *)

\* A call of each kind has the fields of its kind.
LEMMA OpFields ==
    ASSUME NEW o \in Ops
    PROVE  /\ o.kind \in {"none", "write", "read", "fsync"}
           /\ o.kind = "none" => o = None
           /\ o.kind = "write" => o.page \in Pages /\ o.at \in Nat
           /\ o.kind = "read" => o.page \in Pages /\ o.got \in Nat \cup {-1}
           /\ o.kind = "fsync" => o.upto \in [Pages -> Nat]
BY DEF Ops, None

\* What the constructors of calls build.
LEMMA OpsMade ==
    /\ None \in Ops /\ None.kind = "none"
    /\ \A p \in Pages : \A i \in Nat :
         /\ WriteOp(p, i) \in Ops /\ WriteOp(p, i).kind = "write"
         /\ WriteOp(p, i).page = p /\ WriteOp(p, i).at = i
    /\ \A p \in Pages : \A i \in Nat \cup {-1} :
         /\ ReadOp(p, i) \in Ops /\ ReadOp(p, i).kind = "read"
    /\ \A u \in [Pages -> Nat] :
         /\ FsyncOp(u) \in Ops /\ FsyncOp(u).kind = "fsync" /\ FsyncOp(u).upto = u
BY DEF Ops, None, WriteOp, ReadOp, FsyncOp

\* A caller is not a thread.
LEMMA NoThread == Callers \cap Threads = {}
BY CallersAssumption, ThreadsAssumption DEF Threads

\* Nothing is in progress at first.
LEMMA InitInv == Init => Inv
<1> SUFFICES ASSUME Init PROVE Inv
  OBVIOUS
<1>1. 1 \in Threads /\ 0 \in 0..FlushThread
  BY ThreadsAssumption DEF Threads, FlushThread
<1>2. TypeOK
  BY <1>1, OpsMade, EmptyDistinct DEF Init, TypeOK
<1>3. NotAhead
  BY OpsMade DEF Init, NotAhead
<1>4. Placed
  BY OpsMade, EmptyDistinct DEF Init, Placed, Once, In
<1>5. Flushing /\ Covered
  BY EmptyDistinct DEF Init, Flushing, Covered
<1> QED
  BY <1>2, <1>3, <1>4, <1>5 DEF Inv

-----------------------------------------------------------------------------
(* What a caller that enters or leaves a channel or a `wait` changes.      *)

\* A caller that is nowhere in a family of sequences goes to the end of one.
LEMMA FamilyAppend ==
    ASSUME NEW f \in [Threads -> Seq(Callers)], Once(f),
           NEW t \in Threads, NEW c \in Callers, ~In(f, c),
           NEW g \in [Threads -> Seq(Callers)], g[t] = Append(f[t], c),
           \A u \in Threads \ {t} : g[u] = f[u]
    PROVE  /\ Once(g)
           /\ \A u \in Threads :
                Elements(g[u]) = IF u = t THEN Elements(f[t]) \cup {c} ELSE Elements(f[u])
           /\ \A d \in Callers : In(g, d) <=> In(f, d) \/ d = c
<1>1. \A u \in Threads : c \notin Elements(f[u])
  BY DEF In
<1>2. /\ Append(f[t], c) \in Seq(Callers) /\ Distinct(Append(f[t], c))
      /\ Elements(Append(f[t], c)) = Elements(f[t]) \cup {c}
  BY <1>1, AppendDistinct DEF Once
<1>3. \A u \in Threads :
        Elements(g[u]) = IF u = t THEN Elements(f[t]) \cup {c} ELSE Elements(f[u])
  BY <1>2
<1>4. Once(g)
  <2> SUFFICES ASSUME NEW u \in Threads
               PROVE  /\ Distinct(g[u])
                      /\ \A v \in Threads \ {u} : Elements(g[u]) \cap Elements(g[v]) = {}
    BY DEF Once
  <2>1. Distinct(g[u])
    BY <1>2 DEF Once
  <2>2. ASSUME NEW v \in Threads \ {u} PROVE Elements(g[u]) \cap Elements(g[v]) = {}
    <3>1. Elements(f[u]) \cap Elements(f[v]) = {}
      BY DEF Once
    <3> QED
      BY <3>1, <1>1, <1>3
  <2> QED
    BY <2>1, <2>2
<1>5. \A d \in Callers : In(g, d) <=> In(f, d) \/ d = c
  BY <1>3 DEF In
<1> QED
  BY <1>3, <1>4, <1>5

\* The head of one sequence of a family leaves it.
LEMMA FamilyTail ==
    ASSUME NEW f \in [Threads -> Seq(Callers)], Once(f),
           NEW t \in Threads, f[t] # <<>>,
           NEW g \in [Threads -> Seq(Callers)], g[t] = Tail(f[t]),
           \A u \in Threads \ {t} : g[u] = f[u]
    PROVE  /\ Once(g)
           /\ Head(f[t]) \in Elements(f[t])
           /\ \A u \in Threads :
                Elements(g[u]) = IF u = t THEN Elements(f[t]) \ {Head(f[t])}
                                 ELSE Elements(f[u])
           /\ \A d \in Callers : In(g, d) <=> In(f, d) /\ d # Head(f[t])
<1> DEFINE c == Head(f[t])
<1>1. /\ c \in Callers /\ c \in Elements(f[t])
      /\ Tail(f[t]) \in Seq(Callers) /\ Distinct(Tail(f[t]))
      /\ Elements(Tail(f[t])) = Elements(f[t]) \ {c}
  BY TailDistinct DEF Once
<1>2. In(f, c)
  BY <1>1 DEF In
<1>3. \A u \in Threads :
        Elements(g[u]) = IF u = t THEN Elements(f[t]) \ {c} ELSE Elements(f[u])
  BY <1>1
<1>4. Once(g)
  <2> SUFFICES ASSUME NEW u \in Threads
               PROVE  /\ Distinct(g[u])
                      /\ \A v \in Threads \ {u} : Elements(g[u]) \cap Elements(g[v]) = {}
    BY DEF Once
  <2>1. Distinct(g[u])
    BY <1>1 DEF Once
  <2>2. ASSUME NEW v \in Threads \ {u} PROVE Elements(g[u]) \cap Elements(g[v]) = {}
    <3>1. Elements(f[u]) \cap Elements(f[v]) = {}
      BY DEF Once
    <3> QED
      BY <3>1, <1>3
  <2> QED
    BY <2>1, <2>2
<1>5. \A u \in Threads \ {t} : c \notin Elements(f[u])
  BY <1>1 DEF Once
<1>6. \A d \in Callers : In(g, d) <=> In(f, d) /\ d # c
  BY <1>3, <1>5 DEF In
<1> QED
  BY <1>1, <1>2, <1>3, <1>4, <1>6

\* Elements of the sequences are callers, and threads of the flush channel.
LEMMA ElementsType ==
    ASSUME TypeOK
    PROVE  /\ \A t \in Threads : Elements(queue[t]) \subseteq Callers
           /\ \A t \in Threads : Elements(wait[t]) \subseteq Callers
           /\ Elements(flush) \subseteq Callers \cup Threads
BY LenProperties, ElementOfSeq DEF TypeOK, Elements

\* Who is where does not change with the other calls.
LEMMA PlacedKept ==
    ASSUME Placed, queue' = queue, wait' = wait,
           \A d \in Callers : \/ op'[d] = op[d]
                              \/ op'[d].kind # "write" /\ op[d].kind # "write"
    PROVE  Placed'
<1>1. /\ Once(queue') /\ Once(wait')
      /\ \A d \in Callers : (In(queue', d) <=> In(queue, d)) /\ (In(wait', d) <=> In(wait, d))
  BY DEF Placed
<1> QED
  BY <1>1 DEF Placed

\* What is covered stays so when no batch that is asked for or answered gets a
\* caller or loses what its callers wait for, and the flush thread goes on.
LEMMA CoveredKept ==
    ASSUME Inv,
           \A t \in Threads : wst[t] \in {"syncing", "acking"} =>
             /\ Elements(wait'[t]) \subseteq Elements(wait[t])
             /\ \A d \in Elements(wait'[t]) : op'[d] = op[d],
           \A t \in Threads : wst'[t] = "acking" => wst[t] = "acking",
           safe' = safe,
           synced' => synced,
           synced' => flush' # <<>> /\ Head(flush') = Head(flush),
           synced' /\ Head(flush) \in Callers => op'[Head(flush)] = op[Head(flush)]
    PROVE  Covered'
<1>1. \A t \in Threads : wst[t] \in {"syncing", "acking"} /\ SafeWait(t) => SafeWait(t)'
  BY DEF SafeWait
<1>2. synced => Head(flush) \in Elements(flush)
  BY TailDistinct DEF Inv, TypeOK, Flushing, Covered
<1>3. synced /\ Head(flush) \in Threads => wst[Head(flush)] = "syncing"
  BY <1>2 DEF Inv, Flushing
<1>4. \A t \in Threads : wst'[t] = "acking" => SafeWait(t)'
  BY <1>1 DEF Inv, Covered
<1>5. synced' => /\ flush' # <<>>
                 /\ Head(flush') \in Threads => SafeWait(Head(flush))'
                 /\ Head(flush') \in Callers =>
                      \A p \in Pages : op'[Head(flush')].upto[p] <= safe'[p]
  <2> SUFFICES ASSUME synced'
               PROVE  /\ flush' # <<>>
                      /\ Head(flush') \in Threads => SafeWait(Head(flush))'
                      /\ Head(flush') \in Callers =>
                           \A p \in Pages : op'[Head(flush')].upto[p] <= safe'[p]
    OBVIOUS
  <2>1. synced /\ flush' # <<>> /\ Head(flush') = Head(flush)
    OBVIOUS
  <2>2. ASSUME Head(flush) \in Threads
        PROVE  \A d \in Elements(wait'[Head(flush)]) : op'[d].at <= safe'[op'[d].page]
    <3>1. SafeWait(Head(flush))
      BY <2>1, <2>2 DEF Inv, Covered
    <3> QED
      BY <2>1, <2>2, <3>1, <1>3 DEF SafeWait
  <2>3. ASSUME Head(flush) \in Callers
        PROVE  \A p \in Pages : op'[Head(flush)].upto[p] <= safe'[p]
    BY <2>1, <2>3 DEF Inv, Covered
  <2> QED
    BY <2>1, <2>2, <2>3 DEF SafeWait
<1> QED
  BY <1>4, <1>5 DEF Covered, SafeWait

-----------------------------------------------------------------------------
(* The steps of callers.                                                   *)

\* Calls that are neither writes nor fsyncs are in nobody's hands.
LEMMA OtherCall ==
    ASSUME Inv, NEW c \in Callers, NEW o \in Ops, Op(c, o),
           op[c].kind \notin {"write", "fsync"}, o.kind \notin {"write", "fsync"},
           UNCHANGED <<file, writers, flusher, closing>>
    PROVE  Inv'
<1> USE DEF file, writers, flusher
<1>1. /\ op' \in [Callers -> Ops] /\ op'[c] = o
      /\ \A d \in Callers \ {c} : op'[d] = op[d]
  BY DEF Inv, TypeOK, Op
<1>2. TypeOK'
  BY <1>1 DEF Inv, TypeOK
<1>3. NotAhead'
  BY <1>1 DEF Inv, NotAhead
<1>4. Placed'
  BY <1>1 DEF Inv, Placed, Once, In
<1>5. Flushing'
  BY <1>1 DEF Inv, Flushing
<1>6. \A t \in Threads : c \notin Elements(wait[t])
  BY DEF Inv, Placed, In
<1>7. \A t \in Threads : SafeWait(t) => SafeWait(t)'
  <2> SUFFICES ASSUME NEW t \in Threads, SafeWait(t), NEW d \in Elements(wait[t])
               PROVE  op'[d].at <= safe[op'[d].page]
    BY DEF SafeWait
  <2>1. d \in Callers
    BY LenProperties, ElementOfSeq DEF Inv, TypeOK, Elements
  <2> QED
    BY <2>1, <1>1, <1>6 DEF SafeWait
<1>8. flush # <<>> => Head(flush) # c
  BY TailDistinct DEF Inv, TypeOK, Flushing
<1>9. Covered'
  BY <1>1, <1>7, <1>8 DEF Inv, TypeOK, Covered
<1> QED
  BY <1>2, <1>3, <1>4, <1>5, <1>9 DEF Inv

\* A new write is in one channel, and in no other place.
LEMMA WriteInv ==
    ASSUME Inv, NEW c \in Callers, NEW p \in Pages, Write(c, p)
    PROVE  Inv'
<1> USE DEF file, flusher
<1>1. /\ op[c].kind = "none" /\ op' \in [Callers -> Ops] /\ op'[c] = WriteOp(p, 0)
      /\ \A d \in Callers \ {c} : op'[d] = op[d]
  BY OpsMade DEF Inv, TypeOK, Write, Op
<1>2. op'[c].kind = "write" /\ op'[c].at = 0 /\ op'[c].page = p
  BY <1>1, OpsMade
<1>3. ~In(queue, c) /\ ~In(wait, c) /\ c \notin Elements(flush)
  BY <1>1 DEF Inv, Placed, Flushing
<1>4. /\ queue' \in [Threads -> Seq(Callers)] /\ Once(queue')
      /\ \A d \in Callers : In(queue', d) <=> In(queue, d) \/ d = c
  <2>1. /\ queue \in [Threads -> Seq(Callers)] /\ Once(queue) /\ write_c \in Threads
        /\ queue' \in [Threads -> Seq(Callers)]
        /\ queue'[write_c] = Append(queue[write_c], c)
        /\ \A u \in Threads \ {write_c} : queue'[u] = queue[u]
    BY DEF Inv, TypeOK, Placed, Write
  <2> QED
    BY <1>3, <2>1, FamilyAppend
<1>5. write_c' \in Threads
  BY ThreadsAssumption DEF Inv, TypeOK, Write, Threads
<1>6. \A t \in Threads : wst'[t] = wst[t] \/ (wst[t] = "off" /\ wst'[t] = "waiting")
  BY DEF Inv, TypeOK, Write
<1>7. TypeOK'
  BY <1>1, <1>4, <1>5 DEF Inv, TypeOK, Write
<1>8. NotAhead'
  <2>1. applied' = applied /\ safe' = safe /\ 0 <= applied[p]
    BY DEF Inv, TypeOK, Write
  <2> QED
    BY <1>1, <1>2, <2>1 DEF Inv, NotAhead
<1>9. Placed'
  <2>1. Once(wait') /\ \A d \in Callers : In(wait', d) <=> In(wait, d)
    BY DEF Inv, Placed, Write, Once, In
  <2> QED
    BY <1>1, <1>2, <1>3, <1>4, <2>1 DEF Inv, Placed
<1>10. Flushing'
  BY <1>1, <1>3, <1>6 DEF Inv, Flushing, Write
<1>11. \A t \in Threads : c \notin Elements(wait[t])
  BY <1>3 DEF In
<1>12. synced => Head(flush) # c /\ flush # <<>>
  BY <1>3, TailDistinct DEF Inv, TypeOK, Flushing, Covered
<1>13. \A t \in Threads : Elements(wait[t]) \subseteq Callers
  BY ElementsType DEF Inv
<1>14. Covered'
  BY <1>1, <1>6, <1>11, <1>12, <1>13, CoveredKept DEF Write
<1> QED
  BY <1>7, <1>8, <1>9, <1>10, <1>14 DEF Inv

\* An fsync goes to the end of the flush thread's channel, once.
LEMMA FsyncInv ==
    ASSUME Inv, NEW c \in Callers, Fsync(c)
    PROVE  Inv'
<1> USE DEF file, writers
<1>1. /\ op[c].kind = "none" /\ op' \in [Callers -> Ops] /\ op'[c] = FsyncOp(applied)
      /\ \A d \in Callers \ {c} : op'[d] = op[d]
  BY OpsMade DEF Inv, TypeOK, Fsync, Op
<1>2. op'[c].kind = "fsync" /\ op'[c].upto = applied
  BY <1>1, OpsMade DEF Inv, TypeOK
<1>3. ~In(queue, c) /\ ~In(wait, c) /\ c \notin Elements(flush)
  BY <1>1 DEF Inv, Placed, Flushing
<1>4. /\ flush' \in Seq(Callers \cup Threads) /\ Distinct(flush')
      /\ Elements(flush') = Elements(flush) \cup {c} /\ flush' # <<>>
      /\ flush # <<>> => Head(flush') = Head(flush)
  BY <1>3, AppendDistinct DEF Inv, TypeOK, Flushing, Fsync
<1>5. TypeOK'
  BY <1>1, <1>4 DEF Inv, TypeOK, Fsync
<1>6. NotAhead'
  <2>1. applied' = applied /\ safe' = safe
    BY DEF Fsync
  <2>2. \A p \in Pages : op'[c].upto[p] <= applied[p]
    BY <1>2 DEF Inv, TypeOK
  <2> QED
    BY <1>1, <1>2, <2>1, <2>2 DEF Inv, NotAhead
<1>7. Placed'
  BY <1>1, <1>2, PlacedKept DEF Inv, Fsync
<1>8. Flushing'
  BY <1>1, <1>2, <1>4, NoThread DEF Inv, Flushing, Fsync
<1>9. \A t \in Threads : c \notin Elements(wait[t])
  BY <1>3 DEF In
<1>10. synced => Head(flush) # c /\ flush # <<>>
  BY <1>3, TailDistinct DEF Inv, TypeOK, Flushing, Covered
<1>11. \A t \in Threads : Elements(wait[t]) \subseteq Callers
  BY ElementsType DEF Inv
<1>12. Covered'
  BY <1>1, <1>4, <1>9, <1>10, <1>11, CoveredKept DEF Fsync
<1> QED
  BY <1>5, <1>6, <1>7, <1>8, <1>12 DEF Inv

-----------------------------------------------------------------------------
(* The steps of a write thread.                                            *)

\* The head of a channel is a caller with a write that is not applied.
LEMMA HeadOfQueue ==
    ASSUME Inv, NEW t \in Threads, queue[t] # <<>>, NEW c, c = Head(queue[t])
    PROVE  /\ c \in Callers
           /\ op[c] \in Ops /\ op[c].kind = "write" /\ op[c].at = 0 /\ op[c].page \in Pages
           /\ ~In(wait, c) /\ c \notin Elements(flush)
<1>1. Distinct(queue[t]) /\ queue[t] \in Seq(Callers)
  BY DEF Inv, TypeOK, Placed, Once
<1>2. c \in Callers /\ In(queue, c)
  BY <1>1, TailDistinct DEF In
<1>3. op[c] \in Ops /\ op[c].kind = "write" /\ op[c].at = 0
  BY <1>2 DEF Inv, TypeOK, Placed
<1> QED
  BY <1>2, <1>3, OpFields DEF Inv, Placed, Flushing

\* pwrite takes the head out of the channel, whatever it returns.
LEMMA QueueTail ==
    ASSUME Inv, NEW t \in Threads, PwriteOk(t) \/ PwriteErr(t)
    PROVE  /\ queue' \in [Threads -> Seq(Callers)] /\ Once(queue')
           /\ \A d \in Callers : In(queue', d) <=> In(queue, d) /\ d # Head(queue[t])
<1>1. /\ queue \in [Threads -> Seq(Callers)] /\ Once(queue) /\ queue[t] # <<>>
      /\ Tail(queue[t]) \in Seq(Callers)
      /\ queue' = [queue EXCEPT ![t] = Tail(@)]
  BY TailDistinct DEF Inv, TypeOK, Placed, Once, PwriteOk, PwriteErr
<1>2. /\ queue' \in [Threads -> Seq(Callers)] /\ queue'[t] = Tail(queue[t])
      /\ \A u \in Threads \ {t} : queue'[u] = queue[u]
  BY <1>1
<1>3. queue \in [Threads -> Seq(Callers)] /\ Once(queue) /\ queue[t] # <<>>
  BY <1>1
<1> QED
  BY <1>2, <1>3, FamilyTail

\* pwrite moves the head of a channel to the `wait` of the same thread.
LEMMA PwriteOkInv ==
    ASSUME Inv, NEW t \in Threads, PwriteOk(t)
    PROVE  Inv'
<1> DEFINE c == Head(queue[t])
           p == op[c].page
<1>1. wst[t] = "waiting" /\ queue[t] # <<>>
  BY DEF PwriteOk
<1>2. /\ c \in Callers /\ op[c].kind = "write" /\ op[c].at = 0 /\ p \in Pages
      /\ ~In(wait, c) /\ c \notin Elements(flush)
  BY <1>1, HeadOfQueue
<1>3. /\ applied' \in [Pages -> Nat] /\ applied'[p] = applied[p] + 1
      /\ \A q \in Pages \ {p} : applied'[q] = applied[q]
  BY <1>2 DEF Inv, TypeOK, PwriteOk
<1>4. /\ op' \in [Callers -> Ops] /\ op'[c].kind = "write"
      /\ op'[c].page = p /\ op'[c].at = applied[p] + 1
      /\ \A d \in Callers \ {c} : op'[d] = op[d]
  <2>1. applied[p] + 1 \in Nat
    BY <1>2 DEF Inv, TypeOK
  <2>2. op' = [op EXCEPT ![c] = WriteOp(p, applied[p] + 1)]
    BY DEF PwriteOk, Op
  <2>3. op'[c] = WriteOp(p, applied[p] + 1) /\ \A d \in Callers \ {c} : op'[d] = op[d]
    BY <1>2, <2>2 DEF Inv, TypeOK
  <2>4. op' \in [Callers -> Ops]
    BY <1>2, <2>1, <2>2, OpsMade DEF Inv, TypeOK
  <2> QED
    BY <1>2, <2>1, <2>3, <2>4, OpsMade
<1>5. /\ queue' \in [Threads -> Seq(Callers)] /\ Once(queue')
      /\ \A d \in Callers : In(queue', d) <=> In(queue, d) /\ d # c
  BY QueueTail
<1>6. /\ wait' \in [Threads -> Seq(Callers)] /\ Once(wait')
      /\ \A u \in Threads \ {t} : wait'[u] = wait[u]
      /\ \A d \in Callers : In(wait', d) <=> In(wait, d) \/ d = c
  <2>1. /\ wait \in [Threads -> Seq(Callers)] /\ Once(wait)
        /\ wait' \in [Threads -> Seq(Callers)]
        /\ wait'[t] = Append(wait[t], c)
        /\ \A u \in Threads \ {t} : wait'[u] = wait[u]
    BY <1>2 DEF Inv, TypeOK, Placed, PwriteOk
  <2> QED
    BY <1>2, <2>1, FamilyAppend
<1>7. /\ wst' \in [Threads -> {"off", "waiting", "asking", "syncing", "acking"}]
      /\ wst'[t] \in {"waiting", "asking"} /\ \A u \in Threads \ {t} : wst'[u] = wst[u]
  BY <1>1 DEF Inv, TypeOK, PwriteOk
<1>8. /\ UNCHANGED <<safe, write_c, flush, synced, closing>>
  BY DEF PwriteOk, flusher
<1>9. TypeOK'
  BY <1>3, <1>4, <1>5, <1>6, <1>7, <1>8 DEF Inv, TypeOK
<1>10. NotAhead'
  <2>1. \A q \in Pages : applied[q] <= applied'[q] /\ applied[q] \in Nat /\ applied'[q] \in Nat
    <3> SUFFICES ASSUME NEW q \in Pages
                 PROVE  applied[q] <= applied'[q] /\ applied[q] \in Nat /\ applied'[q] \in Nat
      OBVIOUS
    <3>1. applied[q] \in Nat /\ applied'[q] \in Nat
      BY <1>3 DEF Inv, TypeOK
    <3>2. applied'[q] = applied[q] \/ applied'[q] = applied[q] + 1
      BY <1>3
    <3> QED
      BY <3>1, <3>2
  <2>2. \A q \in Pages : safe'[q] <= applied'[q]
    BY <2>1, <1>8 DEF Inv, TypeOK, NotAhead
  <2>3. ASSUME NEW d \in Callers \ {c}, op[d].kind = "write"
        PROVE  op[d].at <= applied'[op[d].page]
    BY <2>1, <2>3, OpFields DEF Inv, TypeOK, NotAhead
  <2>4. ASSUME NEW d \in Callers \ {c}, op[d].kind = "fsync", NEW q \in Pages
        PROVE  op[d].upto[q] <= applied'[q]
    BY <2>1, <2>4, OpFields DEF Inv, TypeOK, NotAhead
  <2> QED
    BY <2>1, <2>2, <2>3, <2>4, <1>2, <1>3, <1>4 DEF NotAhead
<1>11. Placed'
  <2>1. op'[c].at # 0
    BY <1>2, <1>4 DEF Inv, TypeOK
  <2> QED
    BY <1>2, <1>4, <1>5, <1>6, <2>1 DEF Inv, Placed
<1>12. Flushing'
  BY <1>1, <1>2, <1>4, <1>7, <1>8 DEF Inv, Flushing
<1>13. \A u \in Threads : c \notin Elements(wait[u]) /\ Elements(wait[u]) \subseteq Callers
  BY <1>2, ElementsType DEF In, Inv
<1>14. synced => Head(flush) # c /\ flush # <<>>
  BY <1>2, TailDistinct DEF Inv, TypeOK, Flushing, Covered
<1>15. Covered'
  BY <1>1, <1>4, <1>6, <1>7, <1>8, <1>13, <1>14, CoveredKept
<1> QED
  BY <1>9, <1>10, <1>11, <1>12, <1>15 DEF Inv

\* A failed pwrite takes the head of a channel out of everything.
LEMMA PwriteErrInv ==
    ASSUME Inv, NEW t \in Threads, PwriteErr(t)
    PROVE  Inv'
<1> DEFINE c == Head(queue[t])
<1>1. wst[t] = "waiting" /\ queue[t] # <<>>
  BY DEF PwriteErr
<1>2. c \in Callers /\ op[c].kind = "write" /\ op[c].at = 0 /\ ~In(wait, c) /\ c \notin Elements(flush)
  BY <1>1, HeadOfQueue
<1>3. /\ op' \in [Callers -> Ops] /\ op'[c].kind = "none"
      /\ \A d \in Callers \ {c} : op'[d] = op[d]
  BY <1>2, OpsMade DEF Inv, TypeOK, PwriteErr, Op
<1>4. /\ queue' \in [Threads -> Seq(Callers)] /\ Once(queue')
      /\ \A d \in Callers : In(queue', d) <=> In(queue, d) /\ d # c
  BY QueueTail
<1>5. UNCHANGED <<applied, safe, write_c, wait, wst, flush, synced, closing>>
  BY DEF PwriteErr, file, flusher
<1>6. TypeOK'
  BY <1>3, <1>4, <1>5 DEF Inv, TypeOK
<1>7. NotAhead'
  BY <1>2, <1>3, <1>5 DEF Inv, NotAhead
<1>8. Placed'
  <2>1. Once(wait') /\ \A d \in Callers : In(wait', d) <=> In(wait, d)
    BY <1>5 DEF Inv, Placed
  <2> QED
    BY <1>2, <1>3, <1>4, <2>1 DEF Inv, Placed
<1>9. Flushing'
  BY <1>2, <1>3, <1>5 DEF Inv, Flushing
<1>10. \A u \in Threads : c \notin Elements(wait[u]) /\ Elements(wait[u]) \subseteq Callers
  BY <1>2, ElementsType DEF In, Inv
<1>11. synced => Head(flush) # c /\ flush # <<>>
  BY <1>2, TailDistinct DEF Inv, TypeOK, Flushing, Covered
<1>12. Covered'
  BY <1>3, <1>5, <1>10, <1>11, CoveredKept
<1> QED
  BY <1>6, <1>7, <1>8, <1>9, <1>12 DEF Inv

\* The answer of a batch takes its head out of `wait`.
LEMMA AckOut ==
    ASSUME Inv, NEW t \in Threads, Ack(t)
    PROVE  /\ wst[t] = "acking"
           /\ Head(wait[t]) \in Callers /\ Head(wait[t]) \in Elements(wait[t])
           /\ wait' \in [Threads -> Seq(Callers)] /\ Once(wait')
           /\ \A u \in Threads : Elements(wait'[u]) \subseteq Elements(wait[u])
           /\ \A d \in Callers : In(wait', d) <=> In(wait, d) /\ d # Head(wait[t])
<1>1. /\ wait \in [Threads -> Seq(Callers)] /\ Once(wait) /\ wait[t] # <<>>
      /\ Tail(wait[t]) \in Seq(Callers) /\ Head(wait[t]) \in Callers
      /\ wait' = [wait EXCEPT ![t] = Tail(@)] /\ wst[t] = "acking"
  BY TailDistinct DEF Inv, TypeOK, Placed, Once, Ack
<1>2. /\ wait' \in [Threads -> Seq(Callers)] /\ wait'[t] = Tail(wait[t])
      /\ \A u \in Threads \ {t} : wait'[u] = wait[u]
  BY <1>1
<1>3. wait \in [Threads -> Seq(Callers)] /\ Once(wait) /\ wait[t] # <<>>
  BY <1>1
<1>4. /\ Once(wait') /\ Head(wait[t]) \in Elements(wait[t])
      /\ \A u \in Threads :
           Elements(wait'[u]) = IF u = t THEN Elements(wait[t]) \ {Head(wait[t])}
                                ELSE Elements(wait[u])
      /\ \A d \in Callers : In(wait', d) <=> In(wait, d) /\ d # Head(wait[t])
  BY <1>2, <1>3, FamilyTail
<1> QED
  BY <1>1, <1>2, <1>4

\* A batch that is answered leaves its `wait` one by one; the rest stays safe.
LEMMA AckInv ==
    ASSUME Inv, NEW t \in Threads, Ack(t)
    PROVE  Inv'
<1> DEFINE c == Head(wait[t])
<1>1. /\ wst[t] = "acking" /\ c \in Callers /\ In(wait, c)
      /\ wait' \in [Threads -> Seq(Callers)] /\ Once(wait')
      /\ \A u \in Threads : Elements(wait'[u]) \subseteq Elements(wait[u])
      /\ \A d \in Callers : In(wait', d) <=> In(wait, d) /\ d # c
  BY AckOut DEF In
<1>2. op[c].kind = "write" /\ op[c].at # 0 /\ ~In(queue, c) /\ c \notin Elements(flush)
  BY <1>1 DEF Inv, Placed, Flushing
<1>3. /\ op' \in [Callers -> Ops] /\ op'[c].kind = "none"
      /\ \A d \in Callers \ {c} : op'[d] = op[d]
  BY <1>1, OpsMade DEF Inv, TypeOK, Ack, Op
<1>4. UNCHANGED <<applied, safe, write_c, queue, wst, flush, synced, closing>>
  BY DEF Ack, file, flusher
<1>5. TypeOK'
  BY <1>1, <1>3, <1>4 DEF Inv, TypeOK
<1>6. NotAhead'
  BY <1>2, <1>3, <1>4 DEF Inv, NotAhead
<1>7. Placed'
  <2>1. Once(queue') /\ \A d \in Callers : In(queue', d) <=> In(queue, d)
    BY <1>4 DEF Inv, Placed
  <2> QED
    BY <1>1, <1>2, <1>3, <2>1 DEF Inv, Placed
<1>8. Flushing'
  BY <1>2, <1>3, <1>4 DEF Inv, Flushing
<1>9. \A u \in Threads : \A d \in Elements(wait'[u]) : d \in Callers /\ d # c
  <2>1. \A u \in Threads : c \notin Elements(wait'[u])
    BY <1>1 DEF In
  <2> QED
    BY <2>1, <1>1, ElementsType DEF Inv
<1>10. synced => Head(flush) # c /\ flush # <<>>
  BY <1>2, TailDistinct DEF Inv, TypeOK, Flushing, Covered
<1>11. Covered'
  BY <1>1, <1>3, <1>4, <1>9, <1>10, CoveredKept
<1> QED
  BY <1>5, <1>6, <1>7, <1>8, <1>11 DEF Inv

\* A thread that is not waiting for a fsync goes on; it answers only what is safe.
LEMMA GoOn ==
    ASSUME Inv, NEW t \in Threads, NEW s \in {"off", "waiting", "asking", "syncing", "acking"},
           wst' = [wst EXCEPT ![t] = s], t \notin Elements(flush), s # "acking",
           UNCHANGED <<applied, safe, op, write_c, queue, wait, flush, synced>>,
           closing' \in 0..FlushThread
    PROVE  Inv'
<1>1. /\ wst' \in [Threads -> {"off", "waiting", "asking", "syncing", "acking"}]
      /\ wst'[t] = s /\ \A u \in Threads \ {t} : wst'[u] = wst[u]
  BY DEF Inv, TypeOK
<1>2. TypeOK'
  BY <1>1 DEF Inv, TypeOK
<1>3. NotAhead'
  BY DEF Inv, NotAhead
<1>4. Placed'
  BY PlacedKept DEF Inv
<1>5. Flushing'
  BY <1>1 DEF Inv, Flushing
<1>6. Covered'
  BY <1>1, CoveredKept DEF Inv, Covered
<1> QED
  BY <1>2, <1>3, <1>4, <1>5, <1>6 DEF Inv

\* A write thread asks for an fsync once and then waits for it.
LEMMA AskInv ==
    ASSUME Inv, NEW t \in Threads, Ask(t)
    PROVE  Inv'
<1>1. t \notin Elements(flush) /\ wst[t] = "asking"
  BY DEF Inv, Flushing, Ask
<1>2. /\ wst' \in [Threads -> {"off", "waiting", "asking", "syncing", "acking"}]
      /\ wst'[t] = "syncing" /\ \A u \in Threads \ {t} : wst'[u] = wst[u]
  BY DEF Inv, TypeOK, Ask
<1>3. UNCHANGED <<applied, safe, op, write_c, queue, wait, synced, closing>>
  BY DEF Ask, file
<1>4. /\ flush' \in Seq(Callers \cup Threads) /\ Distinct(flush')
      /\ Elements(flush') = Elements(flush) \cup {t} /\ flush' # <<>>
      /\ flush # <<>> => Head(flush') = Head(flush)
  <2>1. /\ flush \in Seq(Callers \cup Threads) /\ Distinct(flush) /\ t \in Callers \cup Threads
        /\ flush' = Append(flush, t)
    BY DEF Inv, TypeOK, Flushing, Ask
  <2> QED
    BY <1>1, <2>1, AppendDistinct
<1>5. TypeOK'
  BY <1>2, <1>3, <1>4 DEF Inv, TypeOK
<1>6. NotAhead'
  BY <1>3 DEF Inv, NotAhead
<1>7. Placed'
  BY <1>3, PlacedKept DEF Inv
<1>8. Flushing'
  BY <1>2, <1>3, <1>4, NoThread DEF Inv, Flushing
<1>9. Covered'
  BY <1>2, <1>3, <1>4, CoveredKept DEF Inv, Covered
<1> QED
  BY <1>5, <1>6, <1>7, <1>8, <1>9 DEF Inv

\* The steps of a write thread.
LEMMA WriterInv ==
    ASSUME Inv, NEW t \in Threads, Writer(t)
    PROVE  Inv'
<1>1. wst[t] # "syncing" => t \notin Elements(flush)
  BY DEF Inv, Flushing
<1>2. closing \in 0..FlushThread
  BY DEF Inv, TypeOK
<1>3. CASE PwriteOk(t)
  BY <1>3, PwriteOkInv
<1>4. CASE PwriteErr(t)
  BY <1>4, PwriteErrInv
<1>5. CASE Tick(t)
  <2>1. /\ wst[t] = "waiting" /\ wst' = [wst EXCEPT ![t] = "asking"]
        /\ UNCHANGED <<applied, safe, op, write_c, queue, wait, flush, synced>>
        /\ closing' = closing
    BY <1>5 DEF Tick, file, flusher
  <2> QED
    BY <1>1, <1>2, <2>1, GoOn
<1>6. CASE Ask(t)
  BY <1>6, AskInv
<1>7. CASE Ack(t)
  BY <1>7, AckInv
<1>8. CASE AckEnd(t)
  <2>1. /\ wst[t] = "acking" /\ wst' = [wst EXCEPT ![t] = "waiting"]
        /\ UNCHANGED <<applied, safe, op, write_c, queue, wait, flush, synced>>
        /\ closing' = closing
    BY <1>8 DEF AckEnd, file, flusher
  <2> QED
    BY <1>1, <1>2, <2>1, GoOn
<1> QED
  BY <1>3, <1>4, <1>5, <1>6, <1>7, <1>8 DEF Writer

-----------------------------------------------------------------------------
(* The steps of the flush thread, of close, and the crash.                 *)

\* An fsync makes safe all that was applied, so all its requester waits for.
LEMMA FlushOkInv ==
    ASSUME Inv, FlushOk
    PROVE  Inv'
<1>1. /\ safe' = applied /\ synced' = TRUE /\ flush # <<>>
      /\ UNCHANGED <<applied, op, write_c, queue, wait, wst, flush, closing>>
  BY DEF FlushOk, writers
<1>2. TypeOK'
  BY <1>1 DEF Inv, TypeOK
<1>3. NotAhead'
  BY <1>1 DEF Inv, TypeOK, NotAhead
<1>4. Placed'
  BY <1>1, PlacedKept DEF Inv
<1>5. Flushing'
  BY <1>1 DEF Inv, Flushing
<1>6. \A t \in Threads : \A d \in Elements(wait[t]) : op[d].at <= applied[op[d].page]
  <2> SUFFICES ASSUME NEW t \in Threads, NEW d \in Elements(wait[t])
               PROVE  op[d].at <= applied[op[d].page]
    OBVIOUS
  <2>1. d \in Callers /\ In(wait, d)
    BY ElementsType DEF Inv, In
  <2> QED
    BY <2>1 DEF Inv, Placed, NotAhead
<1>7. Head(flush) \in Callers => \A p \in Pages : op[Head(flush)].upto[p] <= applied[p]
  BY <1>1, TailDistinct DEF Inv, TypeOK, Flushing, NotAhead
<1>8. Covered'
  BY <1>1, <1>6, <1>7 DEF Covered, SafeWait
<1> QED
  BY <1>2, <1>3, <1>4, <1>5, <1>8 DEF Inv

\* The flush thread answers the head of its channel, which leaves it.
LEMMA AnswerInv ==
    ASSUME Inv, flush # <<>>, NEW next \in {"acking", "waiting"}, Answer(next),
           next = "acking" => synced, synced' = FALSE
    PROVE  Inv'
<1> DEFINE h == Head(flush)
<1>1. /\ h \in Callers \cup Threads /\ h \in Elements(flush)
      /\ flush' \in Seq(Callers \cup Threads) /\ Distinct(flush')
      /\ Elements(flush') = Elements(flush) \ {h}
  BY TailDistinct DEF Inv, TypeOK, Flushing, Answer
<1>2. UNCHANGED <<applied, safe, write_c, queue, wait, closing>>
  BY DEF Answer, file
<1>3. CASE h \in Threads
  <2>1. op' = op /\ wst' = [wst EXCEPT ![h] = next]
    BY <1>3, NoThread DEF Answer
  <2>2. /\ wst' \in [Threads -> {"off", "waiting", "asking", "syncing", "acking"}]
        /\ wst'[h] = next /\ \A u \in Threads \ {h} : wst'[u] = wst[u]
    BY <1>3, <2>1 DEF Inv, TypeOK
  <2>3. TypeOK'
    BY <1>1, <1>2, <2>1, <2>2 DEF Inv, TypeOK
  <2>4. NotAhead'
    BY <1>2, <2>1 DEF Inv, NotAhead
  <2>5. Placed'
    BY <1>2, <2>1, PlacedKept DEF Inv
  <2>6. Flushing'
    BY <1>1, <2>1, <2>2 DEF Inv, Flushing
  <2>7. next = "acking" => SafeWait(h)
    BY <1>3 DEF Inv, Covered
  <2>8. Covered'
    BY <1>2, <1>3, <2>1, <2>2, <2>7 DEF Inv, Covered, SafeWait
  <2> QED
    BY <2>3, <2>4, <2>5, <2>6, <2>8 DEF Inv
<1>4. CASE h \in Callers
  <2>1. op' = [op EXCEPT ![h] = None] /\ wst' = wst
    BY <1>4, NoThread DEF Answer, Op
  <2>2. op[h].kind = "fsync" /\ ~In(wait, h)
    BY <1>1, <1>4 DEF Inv, Flushing, Placed
  <2>3. /\ op' \in [Callers -> Ops] /\ op'[h].kind = "none"
        /\ \A d \in Callers \ {h} : op'[d] = op[d]
    BY <1>4, <2>1, OpsMade DEF Inv, TypeOK
  <2>4. TypeOK'
    BY <1>1, <1>2, <2>1, <2>3 DEF Inv, TypeOK
  <2>5. NotAhead'
    BY <1>2, <2>3 DEF Inv, NotAhead
  <2>6. Placed'
    BY <1>2, <2>2, <2>3, PlacedKept DEF Inv
  <2>7. Flushing'
    BY <1>1, <2>1, <2>3 DEF Inv, Flushing
  <2>8. \A u \in Threads : h \notin Elements(wait[u]) /\ Elements(wait[u]) \subseteq Callers
    BY <2>2, ElementsType DEF In, Inv
  <2>9. Covered'
    BY <1>2, <2>1, <2>3, <2>8, CoveredKept
  <2> QED
    BY <2>4, <2>5, <2>6, <2>7, <2>9 DEF Inv
<1> QED
  BY <1>1, <1>3, <1>4

\* The steps of the flush thread.
LEMMA FlusherInv ==
    ASSUME Inv, Flusher
    PROVE  Inv'
<1>1. CASE FlushOk
  BY <1>1, FlushOkInv
<1>2. CASE FlushAnswer
  <2>1. flush # <<>> /\ synced /\ synced' = FALSE /\ Answer("acking")
    BY <1>2 DEF FlushAnswer
  <2> QED
    BY <2>1, AnswerInv
<1>3. CASE FlushErr
  <2>1. flush # <<>> /\ ~synced /\ synced' = synced /\ Answer("waiting")
    BY <1>3 DEF FlushErr
  <2>2. synced' = FALSE
    BY <2>1 DEF Inv, TypeOK
  <2> QED
    BY <2>1, <2>2, AnswerInv
<1> QED
  BY <1>1, <1>2, <1>3 DEF Flusher

\* close moves no caller and no `done`.
LEMMA CloserInv ==
    ASSUME Inv, Closer
    PROVE  Inv'
<1>1. closing \in 0..FlushThread /\ FlushThread \in Nat /\ Threads = 1..FlushThread - 1
  BY ThreadsAssumption DEF Inv, TypeOK, FlushThread, Threads
<1>2. CASE CloseWriter
  <2>1. /\ closing \in Threads /\ wst[closing] # "syncing"
        /\ wst' = [wst EXCEPT ![closing] = "off"]
        /\ UNCHANGED <<applied, safe, op, write_c, queue, wait, flush, synced>>
        /\ closing' = closing + 1
    BY <1>2 DEF CloseWriter, file, flusher
  <2>2. closing \notin Elements(flush) /\ closing' \in 0..FlushThread
    BY <1>1, <2>1 DEF Inv, Flushing
  <2> QED
    BY <2>1, <2>2, GoOn
<1>3. CASE Close \/ CloseFlush
  <2>1. /\ UNCHANGED <<applied, safe, op, write_c, queue, wait, wst, flush, synced>>
        /\ closing' \in {0, 1}
    BY <1>3 DEF Close, CloseFlush, file, writers, flusher
  <2>2. closing' \in 0..FlushThread
    BY <1>1, <2>1, ThreadsAssumption DEF FlushThread
  <2>3. TypeOK' /\ NotAhead' /\ Flushing'
    BY <2>1, <2>2 DEF Inv, TypeOK, NotAhead, Flushing
  <2>4. Placed'
    BY <2>1, PlacedKept DEF Inv
  <2>5. Covered'
    BY <2>1, CoveredKept DEF Inv, Covered
  <2> QED
    BY <2>3, <2>4, <2>5 DEF Inv
<1> QED
  BY <1>2, <1>3 DEF Closer

\* After a crash nothing is in progress, and the file is not behind what was safe.
LEMMA CrashInv ==
    ASSUME Inv, Crash
    PROVE  Inv'
<1>1. PICK v \in [Pages -> 0..MaxWrites] :
        /\ \A p \in Pages : v[p] \in safe[p]..applied[p]
        /\ applied' = v /\ safe' = v
  BY DEF Crash
<1>2. /\ op' = [c \in Callers |-> None] /\ write_c' = 1
      /\ queue' = [t \in Threads |-> <<>>] /\ wait' = [t \in Threads |-> <<>>]
      /\ wst' = [t \in Threads |-> "off"] /\ flush' = <<>> /\ synced' = FALSE
      /\ closing' = 0
  BY DEF Crash
<1>3. applied' \in [Pages -> Nat] /\ safe' = applied'
  <2>1. \A p \in Pages : v[p] \in Nat
    BY <1>1 DEF Inv, TypeOK
  <2> QED
    BY <1>1, <2>1
<1>4. 1 \in Threads /\ 0 \in 0..FlushThread
  BY ThreadsAssumption DEF Threads, FlushThread
<1>5. TypeOK'
  BY <1>2, <1>3, <1>4, OpsMade, EmptyDistinct DEF TypeOK
<1>6. NotAhead'
  BY <1>2, <1>3, OpsMade DEF NotAhead
<1>7. Placed'
  BY <1>2, OpsMade, EmptyDistinct DEF Placed, Once, In
<1>8. Flushing' /\ Covered'
  BY <1>2, EmptyDistinct DEF Flushing, Covered
<1> QED
  BY <1>5, <1>6, <1>7, <1>8 DEF Inv

-----------------------------------------------------------------------------
(* Every step keeps the invariant; the theorems.                           *)

\* The steps of a caller.
LEMMA CallerInv ==
    ASSUME Inv, NEW c \in Callers, Caller(c)
    PROVE  Inv'
<1>1. op[c] \in Ops
  BY DEF Inv, TypeOK
<1>2. ASSUME NEW p \in Pages, Write(c, p) PROVE Inv'
  BY <1>2, WriteInv
<1>3. ASSUME NEW p \in Pages, Read(c, p) PROVE Inv'
  <2>1. op[c].kind = "none" /\ ReadOp(p, -1) \in Ops /\ ReadOp(p, -1).kind = "read"
    BY <1>3, OpsMade DEF Read
  <2> QED
    BY <1>3, <2>1, OtherCall DEF Read
<1>4. CASE Pread(c)
  <2> DEFINE o == ReadOp(op[c].page, applied[op[c].page])
  <2>1. op[c].kind = "read" /\ op[c].page \in Pages
    BY <1>1, <1>4, OpFields DEF Pread
  <2>2. o \in Ops /\ o.kind = "read"
    BY <2>1, OpsMade DEF Inv, TypeOK
  <2> QED
    BY <1>4, <2>1, <2>2, OtherCall DEF Pread
<1>5. CASE PreadErr(c) \/ ReadReturn(c)
  <2>1. /\ op[c].kind = "read" /\ Op(c, None)
        /\ UNCHANGED <<file, writers, flusher, closing>>
    BY <1>5 DEF PreadErr, ReadReturn
  <2> QED
    BY <2>1, OpsMade, OtherCall
<1>6. CASE Fsync(c)
  BY <1>6, FsyncInv
<1> QED
  BY <1>2, <1>3, <1>4, <1>5, <1>6 DEF Caller

\* Inv is inductive.
LEMMA NextInv ==
    ASSUME Inv, [Next]_vars
    PROVE  Inv'
<1>1. CASE UNCHANGED vars
  BY <1>1, PlacedKept
     DEF vars, Inv, TypeOK, NotAhead, Flushing, Covered, SafeWait
<1>2. CASE \E c \in Callers : Caller(c)
  BY <1>2, CallerInv
<1>3. CASE \E t \in Threads : Writer(t)
  BY <1>3, WriterInv
<1>4. CASE Flusher
  BY <1>4, FlusherInv
<1>5. CASE Closer
  BY <1>5, CloserInv
<1>6. CASE Crash
  BY <1>6, CrashInv
<1>7. CASE Rest
  BY <1>1, <1>7 DEF Rest
<1> QED
  BY <1>1, <1>2, <1>3, <1>4, <1>5, <1>6, <1>7 DEF Next

\* The invariant of the page file: every variable has its type, each write in
\* progress is where its `done` says, and what is about to be acknowledged is
\* safe, through timers, failed calls, close and crashes.
THEOREM FinderInvariant == Spec => []Inv
<1>1. Init => Inv
  BY InitInv
<1>2. Inv /\ [Next]_vars => Inv'
  BY NextInv
<1> QED
  BY <1>1, <1>2, PTL DEF Spec

\* A write in progress sits in exactly one place, the channel or the `wait` of
\* one write thread: no caller of Finder::write loses its answer.
THEOREM WritesKept == Spec => []NoWriteForgotten
<1>1. Inv => NoWriteForgotten
  <2> SUFFICES ASSUME Inv, NEW c \in Callers, op[c].kind = "write"
               PROVE  \E t \in Threads :
                        /\ IF op[c].at = 0 THEN c \in Elements(queue[t])
                                           ELSE c \in Elements(wait[t])
                        /\ \A u \in Threads \ {t} :
                             c \notin Elements(queue[u]) \cup Elements(wait[u])
    BY DEF NoWriteForgotten
  <2>1. CASE op[c].at = 0
    <3>1. In(queue, c) /\ ~In(wait, c)
      BY <2>1 DEF Inv, Placed
    <3>2. PICK t \in Threads : c \in Elements(queue[t])
      BY <3>1 DEF In
    <3>3. \A u \in Threads \ {t} : c \notin Elements(queue[u])
      BY <3>2 DEF Inv, Placed, Once
    <3> QED
      BY <2>1, <3>1, <3>2, <3>3 DEF In
  <2>2. CASE op[c].at # 0
    <3>1. In(wait, c) /\ ~In(queue, c)
      BY <2>2 DEF Inv, Placed
    <3>2. PICK t \in Threads : c \in Elements(wait[t])
      BY <3>1 DEF In
    <3>3. \A u \in Threads \ {t} : c \notin Elements(wait[u])
      BY <3>2 DEF Inv, Placed, Once
    <3> QED
      BY <2>2, <3>1, <3>2, <3>3 DEF In
  <2> QED
    BY <2>1, <2>2
<1> QED
  BY <1>1, FinderInvariant, PTL

-----------------------------------------------------------------------------
(* Finder implements PageStore: the variables applied, safe and op are      *)
(* those of the promise.                                                   *)

\* The calls are the same records in both modules.
LEMMA SameCalls ==
    /\ Store!None = None
    /\ \A p, i : Store!WriteOp(p, i) = WriteOp(p, i) /\ Store!ReadOp(p, i) = ReadOp(p, i)
    /\ \A u : Store!FsyncOp(u) = FsyncOp(u)
    /\ \A c, o : Store!Op(c, o) <=> Op(c, o)
BY DEF Store!None, None, Store!WriteOp, WriteOp, Store!ReadOp, ReadOp,
       Store!FsyncOp, FsyncOp, Store!Op, Op

\* A step that moves neither the file nor a call is a stutter of the promise.
LEMMA Stutter ==
    ASSUME UNCHANGED <<applied, safe, op>>
    PROVE  [Store!Next]_(Store!vars)
BY DEF Store!vars

\* A caller's step is a step of the promise.
LEMMA CallerStep ==
    ASSUME Inv, NEW c \in Callers, Caller(c)
    PROVE  Store!Call(c)
<1> USE SameCalls DEF file
<1>1. ASSUME NEW p \in Pages, Write(c, p) PROVE Store!Write(c, p)
  BY <1>1 DEF Write, Store!Write
<1>2. ASSUME NEW p \in Pages, Read(c, p) PROVE Store!Read(c, p)
  BY <1>2 DEF Read, Store!Read
<1>3. CASE Pread(c)
  BY <1>3 DEF Pread, Store!Fetch, Store!Call
<1>4. CASE PreadErr(c) \/ ReadReturn(c)
  BY <1>4 DEF PreadErr, ReadReturn, Store!ReadEnd, Store!Call
<1>5. CASE Fsync(c)
  BY <1>5 DEF Fsync, Store!Fsync, Store!Call
<1> QED
  BY <1>1, <1>2, <1>3, <1>4, <1>5 DEF Caller, Store!Call

\* A write thread applies a write, answers one, or stutters.
LEMMA WriterStep ==
    ASSUME Inv, NEW t \in Threads, Writer(t)
    PROVE  [Store!Next]_(Store!vars)
<1> USE SameCalls DEF file
<1>1. CASE PwriteOk(t)
  <2> DEFINE c == Head(queue[t])
  <2>1. c \in Callers /\ op[c].kind = "write" /\ op[c].at = 0
    BY <1>1, HeadOfQueue DEF PwriteOk
  <2>2. Store!Apply(c)
    BY <1>1, <2>1 DEF PwriteOk, Store!Apply
  <2> QED
    BY <2>1, <2>2 DEF Store!Next, Store!Call
<1>2. CASE PwriteErr(t)
  <2> DEFINE c == Head(queue[t])
  <2>1. c \in Callers /\ op[c].kind = "write" /\ op[c].at = 0
    BY <1>2, HeadOfQueue DEF PwriteErr
  <2>2. Store!WriteErr(c)
    BY <1>2, <2>1 DEF PwriteErr, Store!WriteErr
  <2> QED
    BY <2>1, <2>2 DEF Store!Next, Store!Call
<1>3. CASE Ack(t)
  <2> DEFINE c == Head(wait[t])
  <2>1. wst[t] = "acking" /\ c \in Callers /\ c \in Elements(wait[t])
    BY <1>3, AckOut
  <2>2. op[c].kind = "write" /\ op[c].at # 0
    BY <2>1 DEF Inv, Placed, In
  <2>3. op[c].at <= safe[op[c].page]
    BY <2>1 DEF Inv, Covered, SafeWait
  <2>4. Store!WriteOk(c)
    BY <1>3, <2>2, <2>3 DEF Ack, Store!WriteOk
  <2> QED
    BY <2>1, <2>4 DEF Store!Next, Store!Call
<1>4. CASE Tick(t) \/ Ask(t) \/ AckEnd(t)
  BY <1>4, Stutter DEF Tick, Ask, AckEnd
<1> QED
  BY <1>1, <1>2, <1>3, <1>4 DEF Writer

\* The flush thread makes writes safe, answers an fsync, or stutters.
LEMMA FlusherStep ==
    ASSUME Inv, Flusher
    PROVE  [Store!Next]_(Store!vars)
<1> USE SameCalls DEF file
<1> DEFINE h == Head(flush)
<1>1. CASE FlushOk
  BY <1>1 DEF FlushOk, Store!Sync, Store!Next
<1>2. ASSUME flush # <<>>, NEW next, Answer(next), h \in Threads
      PROVE  UNCHANGED <<applied, safe, op>>
  BY <1>2, NoThread DEF Answer
<1>3. ASSUME flush # <<>>, NEW next, Answer(next), h \in Callers
      PROVE  /\ op[h].kind = "fsync" /\ Op(h, None)
             /\ UNCHANGED <<applied, safe>>
  <2>1. h \in Elements(flush)
    BY <1>3, TailDistinct DEF Inv, TypeOK, Flushing
  <2> QED
    BY <1>3, <2>1, NoThread DEF Answer, Inv, Flushing
<1>4. flush # <<>> => h \in Threads \/ h \in Callers
  BY HeadTailProperties DEF Inv, TypeOK
<1>5. CASE FlushAnswer
  <2>1. flush # <<>> /\ synced /\ Answer("acking")
    BY <1>5 DEF FlushAnswer
  <2>2. CASE h \in Threads
    BY <1>2, <2>1, <2>2, Stutter
  <2>3. CASE h \in Callers
    <3>1. \A p \in Pages : op[h].upto[p] <= safe[p]
      BY <2>1, <2>3 DEF Inv, Covered
    <3>2. Store!FsyncOk(h)
      BY <1>3, <2>1, <2>3, <3>1 DEF Store!FsyncOk
    <3> QED
      BY <2>3, <3>2 DEF Store!Next, Store!Call
  <2> QED
    BY <1>4, <2>1, <2>2, <2>3
<1>6. CASE FlushErr
  <2>1. flush # <<>> /\ Answer("waiting")
    BY <1>6 DEF FlushErr
  <2>2. CASE h \in Threads
    BY <1>2, <2>1, <2>2, Stutter
  <2>3. CASE h \in Callers
    <3>1. Store!FsyncErr(h)
      BY <1>3, <2>1, <2>3 DEF Store!FsyncErr
    <3> QED
      BY <2>3, <3>1 DEF Store!Next, Store!Call
  <2> QED
    BY <1>4, <2>1, <2>2, <2>3
<1> QED
  BY <1>1, <1>5, <1>6 DEF Flusher

\* A crash leaves each page at or after its safe write.
LEMMA CrashStep ==
    ASSUME Inv, Crash
    PROVE  Store!Crash
<1>1. PICK v \in [Pages -> 0..MaxWrites] :
        /\ \A p \in Pages : v[p] \in safe[p]..applied[p]
        /\ applied' = v /\ safe' = v
  BY DEF Crash
<1>2. applied' = [p \in Pages |-> applied'[p]] /\ safe' = applied'
  BY <1>1
<1> QED
  BY <1>1, <1>2, SameCalls DEF Crash, Store!Crash

\* The page file keeps its promise: a write answered Ok survives every crash,
\* one answered Err never reached the file, an fsync answered Ok made all the
\* writes before it safe, and a read sees the last write applied.
THEOREM FinderImplementsPageStore == Spec => Implements
<1>1. Init => Store!Init
  BY SameCalls DEF Init, Store!Init
<1>2. ASSUME Inv, [Next]_vars PROVE [Store!Next]_(Store!vars)
  <2>1. CASE UNCHANGED vars \/ Rest \/ Closer
    BY <2>1, Stutter DEF vars, file, Rest, Closer, Close, CloseWriter, CloseFlush
  <2>2. CASE \E c \in Callers : Caller(c)
    BY <1>2, <2>2, CallerStep DEF Store!Next
  <2>3. CASE \E t \in Threads : Writer(t)
    BY <1>2, <2>3, WriterStep
  <2>4. CASE Flusher
    BY <1>2, <2>4, FlusherStep
  <2>5. CASE Crash
    BY <1>2, <2>5, CrashStep DEF Store!Next
  <2> QED
    BY <1>2, <2>1, <2>2, <2>3, <2>4, <2>5 DEF Next
<1> QED
  BY <1>1, <1>2, FinderInvariant, PTL DEF Spec, Implements, Store!Spec
=============================================================================
