-------------------------- MODULE BufferPoolProofs --------------------------
(***************************************************************************)
(* Proofs about BufferPool for any number of clients, pages, transactions, *)
(* insertions, flushes and failed disk calls, any cache sizes and any      *)
(* layout.                                                                 *)
(***************************************************************************)
EXTENDS BufferPool, SequenceTheorems, FiniteSetTheorems, WellFoundedInduction, TLAPS

-----------------------------------------------------------------------------
(* The inductive invariant.                                                *)

Blank == [commit : Nat, tx : Nat, undo : Nat, data : Nat]
Log == [at : Nat, log : Blank]
Write == [page : Pages, block : Blank]
Maker == [page : Pages, tx : Tx]
Steps == {"idle", "read", "fill", "walk", "done", "find", "append", "new", "mark"}
Client == [pc : Steps, tx : Nat, snap : Nat, page : Nat, got : Blank, cur : Nat, first : Nat]
Committer == [pc : {"page", "read", "fill", "walk"}, tx : Nat, at : Nat, pages : Seq(Pages),
              got : Blank, cur : Nat, first : Nat]

PoolType ==
  /\ cached \in Seq(Pages) /\ evicted \in SUBSET Pages
  /\ dirty \in SUBSET Pages /\ IsFiniteSet(dirty)
  /\ block \in [Pages -> Blank] /\ disk \in [Pages -> Blank] /\ writes \in Seq(Write)
  /\ fl \in [pc : {"idle", "wait", "synced"}, cover : SUBSET Nat]
BookType ==
  /\ undo \in Seq(Blank) /\ undoCached \in Seq(Log)
  /\ owner \in Seq(Maker) /\ commitAt \in [Tx -> Nat] /\ exposed \in SUBSET Pages
UserType ==
  /\ uncommitted \in [Tx -> Seq(Pages)]
  /\ cl \in [Clients -> Client] /\ cm \in Committer
  /\ commits \in Seq([tx : Tx, at : Nat])
  /\ lastTx \in Nat /\ lastIndex \in Nat
  /\ left \in [tx : Nat, pages : SUBSET Pages, inserts : Nat, errors : Nat, flushes : Nat]
  /\ lastTx + left.tx <= MaxTx

\* A block of zeros, or a version of page p: the history knows its writer, its commit
\* index is the writer's, and its undo log u holds the version of p before it, unless
\* the code has lost one.
Version(b, p, u, o, a, x) ==
  \/ b = ZeroBlock
  \/ /\ b \in [commit : Nat, tx : Tx, undo : 1..Len(u), data : 1..Len(o)]
     /\ o[b.data] = [page |-> p, tx |-> b.tx]
     /\ b.commit \in {0, a[b.tx]}
     /\ u[b.undo].data \in 0..(b.data - 1)
     /\ u[b.undo].data # 0 => o[u[b.undo].data].page = p
     /\ p \in x \/ \A v \in 1..Len(o) : o[v].page = p /\ v < b.data => v <= u[b.undo].data
Here(b, p) == Version(b, p, undo, owner, commitAt, exposed)

\* Whatever is cached, on disk, on its way there or kept in an undo log is one or
\* the other, and undo logs link to older ones.
PagesStored == \A p \in Pages : Here(block[p], p) /\ Here(disk[p], p)
WritesStored == \A i \in 1..Len(writes) : Here(writes[i].block, writes[i].page)
LogsStored == \A i \in 1..Len(undo) : undo[i].undo < i /\ \E p \in Nat : Here(undo[i], p)
Copy(e, u) == e.at \in 1..Len(u) /\ e.log.data = u[e.at].data /\ e.log.undo = u[e.at].undo
CacheStored == \A k \in 1..Len(undoCached) :
  Copy(undoCached[k], undo) /\ \E p \in Nat : Here(undoCached[k].log, p)
Stored == PagesStored /\ WritesStored /\ LogsStored /\ CacheStored

\* So is what a client holds, and a search is at logs of its page.
Holds(w, u, o, a, x) ==
  /\ w.pc \in {"fill", "append", "new"} => Version(w.got, w.page, u, o, a, x)
  /\ w.pc = "new" => w.cur \in 1..Len(u) /\ u[w.cur].data = w.got.data
  /\ w.pc = "walk" => /\ w.cur \in 1..Len(u) /\ Version(u[w.cur], w.page, u, o, a, x)
                      /\ w.first \in 1..Len(u) /\ Version(u[w.first], w.page, u, o, a, x)

\* The versions of p a snapshot covers, and a search that has not passed the newest.
Shown(p, snap, o, a) == {v \in 1..Len(o) : o[v].page = p /\ a[o[v].tx] \in 1..snap}
Finds(w, u, o, a, x) ==
  w.page \notin x => \A v \in Shown(w.page, w.snap, o, a) :
    /\ w.pc = "done" => v <= w.got.data
    /\ w.pc = "walk" => v <= u[w.cur].data /\ v <= u[w.first].data

ClientOK(w, u, o, a, x) ==
  /\ w.pc # "idle" => w.page \in Pages /\ w.tx # 0
  /\ Holds(w, u, o, a, x) /\ Finds(w, u, o, a, x)
InHand == \A c \in Clients : ClientOK(cl[c], undo, owner, commitAt, exposed)

\* What the commit thread is told of a transaction is true, and so is what it holds.
Informed ==
  /\ cm.pc # "page" => cm.pages # <<>>
  /\ cm.pc = "fill" => Here(cm.got, Head(cm.pages))
  /\ cm.pc = "walk" => cm.cur \in 1..Len(undo) /\ cm.first \in 1..Len(undo)
  /\ cm.pages # <<>> => cm.tx \in Tx /\ cm.at # 0 /\ cm.at = commitAt[cm.tx]
  /\ \A i \in 1..Len(commits) :
       commits[i].at # 0 /\ commits[i].at = commitAt[commits[i].tx]

\* A transaction that runs has one client and no commit index, and its snapshot is
\* older than every index still to be given out.
Transactions ==
  /\ \A c \in Clients : /\ cl[c].tx \in 0..lastTx /\ cl[c].snap <= lastIndex
                        /\ cl[c].tx # 0 => commitAt[cl[c].tx] = 0
  /\ \A c, d \in Clients : c # d /\ cl[c].tx # 0 => cl[c].tx # cl[d].tx
  /\ \A t \in Tx : commitAt[t] <= lastIndex /\ (t > lastTx => commitAt[t] = 0)

\* The newest version of a page that is not exposed is where a reader looks first,
\* and blocks reach data.db from the older to the newer.
Latest == \A p \in Pages \ exposed : \A v \in 1..Len(owner) :
            owner[v].page = p => v <= Newest(p)
Ordered ==
  \A i \in 1..Len(writes) : writes[i].page \notin exposed =>
    /\ disk[writes[i].page].data <= writes[i].block.data
    /\ \A j \in 1..Len(writes) : writes[j].page = writes[i].page /\ i <= j =>
         writes[i].block.data <= writes[j].block.data

\* What flush_all took is on its way while it waits, and there once it is synced.
Covered ==
  /\ fl.pc # "idle" => fl.cover \subseteq 1..Len(owner)
  /\ fl.pc = "wait" => \A v \in fl.cover : \A p \in Pages :
       owner[v].page = p => p \in exposed \/ v <= LastWritten(p)
  /\ FlushIsSafe

PoolInv == PoolType /\ DirtyIsHeld /\ CleanIsWritten /\ Latest /\ Ordered /\ Covered
UserInv == UserType /\ InHand /\ Informed /\ Transactions

Inv == PoolInv /\ BookType /\ Stored /\ UserInv

-----------------------------------------------------------------------------
(* Sequences.                                                              *)

LEMMA NoEntry ==
    ASSUME NEW S
    PROVE  <<>> \in Seq(S) /\ Len(<<>>) = 0
BY EmptySeq

LEMMA AppendLast ==
    ASSUME NEW S, NEW s \in Seq(S), NEW e \in S
    PROVE  /\ Append(s, e) \in Seq(S) /\ Len(Append(s, e)) = Len(s) + 1 /\ Len(s) \in Nat
           /\ \A i \in 1..Len(s) : Append(s, e)[i] = s[i]
           /\ Append(s, e)[Len(s) + 1] = e
OBVIOUS

LEMMA HeadLeaves ==
    ASSUME NEW S, NEW s \in Seq(S), s # <<>>
    PROVE  /\ Len(s) \in Nat \ {0} /\ Head(s) = s[1] /\ Head(s) \in S
           /\ Tail(s) \in Seq(S) /\ Len(Tail(s)) = Len(s) - 1
           /\ \A i \in 1..Len(Tail(s)) : Tail(s)[i] = s[i + 1]
BY HeadTailProperties, EmptySeq

\* An entry is taken out of the middle.
LEMMA Removed ==
    ASSUME NEW S, NEW s \in Seq(S), NEW k \in 1..Len(s)
    PROVE  /\ RemoveAt(s, k) \in Seq(S) /\ Len(RemoveAt(s, k)) = Len(s) - 1 /\ Len(s) \in Nat
           /\ \A i \in 1..(Len(s) - 1) :
                RemoveAt(s, k)[i] = IF i < k THEN s[i] ELSE s[i + 1]
<1> DEFINE a == SubSeq(s, 1, k - 1)
           b == SubSeq(s, k + 1, Len(s))
<1>1. Len(s) \in Nat /\ \A i \in 1..Len(s) : s[i] \in S
  BY LenProperties, ElementOfSeq
<1>2. /\ a \in Seq(S) /\ Len(a) = k - 1
      /\ \A i \in 1..(k - 1) : a[i] = s[i]
  <2>1. 1 \in Int /\ k - 1 \in Int /\ \A i \in 1..(k - 1) : s[i] \in S
    BY <1>1
  <2>2. /\ a \in Seq(S) /\ Len(a) = (IF 1 <= k - 1 THEN (k - 1) - 1 + 1 ELSE 0)
        /\ \A i \in 1..((k - 1) - 1 + 1) : a[i] = s[1 + i - 1]
    BY <2>1, SubSeqProperties
  <2>3. \A i \in 1..(k - 1) : 1 + i - 1 = i
    OBVIOUS
  <2> QED
    BY <1>1, <2>2, <2>3
<1>3. /\ b \in Seq(S) /\ Len(b) = Len(s) - k
      /\ \A i \in 1..(Len(s) - k) : b[i] = s[k + i]
  <2>1. k + 1 \in Int /\ Len(s) \in Int /\ \A i \in (k + 1)..Len(s) : s[i] \in S
    BY <1>1
  <2>2. /\ b \in Seq(S) /\ Len(b) = (IF k + 1 <= Len(s) THEN Len(s) - (k + 1) + 1 ELSE 0)
        /\ \A i \in 1..(Len(s) - (k + 1) + 1) : b[i] = s[(k + 1) + i - 1]
    BY <2>1, SubSeqProperties
  <2>3. \A i \in Int : (k + 1) + i - 1 = k + i
    OBVIOUS
  <2> QED
    BY <1>1, <2>2, <2>3
<1>4. RemoveAt(s, k) = a \o b
  BY DEF RemoveAt
<1>5. /\ a \o b \in Seq(S) /\ Len(a \o b) = Len(a) + Len(b)
      /\ \A i \in 1..(Len(a) + Len(b)) :
           (a \o b)[i] = IF i <= Len(a) THEN a[i] ELSE b[i - Len(a)]
  BY <1>2, <1>3, ConcatProperties
<1> HIDE DEF a, b
<1>6. ASSUME NEW i \in 1..(Len(s) - 1)
      PROVE  (a \o b)[i] = IF i < k THEN s[i] ELSE s[i + 1]
  <2>1. i \in 1..(Len(a) + Len(b))
    BY <1>1, <1>2, <1>3
  <2>2. CASE i < k
    BY <1>1, <1>2, <1>5, <2>1, <2>2
  <2>3. CASE ~(i < k)
    <3>1. i - (k - 1) \in 1..(Len(s) - k) /\ k + (i - (k - 1)) = i + 1
      BY <1>1, <2>3
    <3>2. ~(i <= Len(a)) /\ i - Len(a) = i - (k - 1)
      BY <1>2, <2>3
    <3>3. (a \o b)[i] = b[i - (k - 1)]
      BY <1>5, <2>1, <3>2
    <3> QED
      BY <1>3, <2>3, <3>1, <3>3
  <2> QED
    BY <2>2, <2>3
<1> QED
  BY <1>1, <1>2, <1>3, <1>4, <1>5, <1>6

\* m is s without its entry k, up to the last one.
Closed(m, s, k) == \A i \in 1..(Len(s) - 1) : m[i] = IF i < k THEN s[i] ELSE s[i + 1]

\* m is what an LRU cache holds after x is used: what it held, and x at the end.
MovedTo(m, S, s, old, x) ==
  /\ m \in Seq(S) /\ Len(m) \in Nat \ {0} /\ m[Len(m)] = x /\ Len(s) \in Nat
  /\ Len(m) = IF old = {} THEN Len(s) + 1 ELSE Len(s)
  /\ old = {} => \A i \in 1..Len(s) : m[i] = s[i]
  /\ old # {} => \E k \in old : Closed(m, s, k)

LEMMA Moved ==
    ASSUME NEW S, NEW s \in Seq(S), NEW old \in SUBSET (1..Len(s)), NEW x \in S
    PROVE  MovedTo(MoveLast(s, old, x), S, s, old, x)
<1> DEFINE m == MoveLast(s, old, x)
<1>1. CASE old = {}
  <2>1. m = Append(s, x)
    BY <1>1 DEF MoveLast
  <2> QED
    BY <1>1, <2>1, AppendLast DEF MovedTo
<1>2. CASE old # {}
  <2> DEFINE k == CHOOSE k \in old : TRUE
             r == RemoveAt(s, k)
  <2>1. k \in old /\ k \in 1..Len(s)
    BY <1>2
  <2>2. m = Append(r, x)
    BY <1>2 DEF MoveLast
  <2> HIDE DEF k, m
  <2>3. /\ r \in Seq(S) /\ Len(r) = Len(s) - 1 /\ Len(s) \in Nat
        /\ \A i \in 1..(Len(s) - 1) : r[i] = IF i < k THEN s[i] ELSE s[i + 1]
    BY <2>1, Removed
  <2> HIDE DEF r
  <2>4. /\ m \in Seq(S) /\ Len(m) = Len(r) + 1 /\ Len(r) \in Nat
        /\ \A i \in 1..Len(r) : m[i] = r[i]
        /\ m[Len(r) + 1] = x
    BY <2>2, <2>3, AppendLast
  <2>5. Len(m) = Len(s) /\ Len(s) # 0
    BY <2>3, <2>4
  <2>6. Closed(m, s, k)
    BY <2>3, <2>4 DEF Closed
  <2> QED
    BY <1>2, <2>1, <2>3, <2>4, <2>5, <2>6 DEF m, MovedTo
<1> QED
  BY <1>1, <1>2

Distinct(s) == \A i, j \in 1..Len(s) : s[i] = s[j] => i = j

\* An LRU cache holds a key once, the one just used at the end.
LEMMA UsedOnce ==
    ASSUME NEW S, NEW s \in Seq(S), Distinct(s), NEW x \in S
    PROVE  LET m == Used(s, x) IN
           /\ m \in Seq(S) /\ Distinct(m) /\ ToSet(m) = ToSet(s) \cup {x}
           /\ Len(m) \in 1..(Len(s) + 1) /\ (x \in ToSet(s) => Len(m) = Len(s))
           /\ Len(s) \in Nat /\ m[Len(m)] = x
<1> DEFINE old == {k \in DOMAIN s : s[k] = x}
           m == MoveLast(s, old, x)
<1>1. Len(s) \in Nat
  BY LenProperties
<1>10. DOMAIN s = 1..Len(s)
  BY LenProperties
<1>2. old \in SUBSET (1..Len(s)) /\ (x \in ToSet(s) => old # {})
  BY <1>10 DEF ToSet
<1>3. \A k \in old : s[k] = x
  OBVIOUS
<1>4. \A k \in 1..Len(s) : s[k] = x => k \in old
  BY <1>10
<1>5. Used(s, x) = m
  BY DEF Used
<1> HIDE DEF old
<1>6. /\ m \in Seq(S) /\ Len(m) \in Nat \ {0} /\ m[Len(m)] = x
      /\ Len(m) = IF old = {} THEN Len(s) + 1 ELSE Len(s)
      /\ old = {} => \A i \in 1..Len(s) : m[i] = s[i]
      /\ old # {} => \E k \in old : Closed(m, s, k)
  <2>1. MovedTo(m, S, s, old, x)
    BY <1>2, Moved
  <2> QED
    BY <2>1 DEF MovedTo
<1> HIDE DEF m
<1>7. /\ ToSet(m) = {m[i] : i \in 1..Len(m)}
      /\ ToSet(s) = {s[i] : i \in 1..Len(s)}
  BY <1>6, <1>10, LenProperties DEF ToSet
<1>8. CASE old = {}
  <2>1. Distinct(m)
    BY <1>1, <1>4, <1>6, <1>8 DEF Distinct
  <2>2. ToSet(m) = ToSet(s) \cup {x}
    <3>1. Len(m) = Len(s) + 1 /\ \A i \in 1..Len(s) : m[i] = s[i]
      BY <1>6, <1>8
    <3>2. 1..Len(m) = (1..Len(s)) \cup {Len(m)}
      BY <1>1, <3>1
    <3> QED
      BY <1>6, <1>7, <3>1, <3>2
  <2>3. Len(m) = Len(s) + 1 /\ x \notin ToSet(s)
    BY <1>2, <1>6, <1>8
  <2> QED
    BY <1>1, <1>5, <1>6, <2>1, <2>2, <2>3
<1>9. CASE old # {}
  <2>1. PICK k \in old : Closed(m, s, k)
    BY <1>6, <1>9
  <2>10. \A i \in 1..(Len(s) - 1) : m[i] = IF i < k THEN s[i] ELSE s[i + 1]
    BY <2>1 DEF Closed
  <2>2. k \in 1..Len(s) /\ s[k] = x /\ Len(m) = Len(s)
    BY <1>2, <1>3, <1>6, <1>9
  <2>3. \A i \in 1..Len(s) : s[i] = x => i = k
    BY <2>2 DEF Distinct
  <2>4. ASSUME NEW i \in 1..Len(m), NEW j \in 1..Len(m), m[i] = m[j], i < j PROVE FALSE
    <3>1. i \in 1..(Len(s) - 1)
      BY <1>1, <2>2, <2>4
    <3>2. PICK a \in 1..Len(s) : m[i] = s[a] /\ a # k /\ a = IF i < k THEN i ELSE i + 1
      BY <1>1, <2>10, <2>2, <3>1
    <3>3. CASE j = Len(m)
      <4>1. s[a] = x
        BY <1>6, <2>4, <3>2, <3>3
      <4> QED
        BY <2>3, <3>2, <4>1
    <3>4. CASE j # Len(m)
      <4>1. j \in 1..(Len(s) - 1)
        BY <1>1, <2>2, <3>4
      <4>2. PICK b \in 1..Len(s) : m[j] = s[b] /\ b = IF j < k THEN j ELSE j + 1
        BY <1>1, <2>10, <2>2, <4>1
      <4>3. a = b
        BY <2>4, <3>2, <4>2 DEF Distinct
      <4> QED
        BY <1>1, <2>2, <2>4, <3>2, <4>2, <4>3
    <3> QED
      BY <3>3, <3>4
  <2>5. Distinct(m)
    <3> SUFFICES ASSUME NEW i \in 1..Len(m), NEW j \in 1..Len(m), m[i] = m[j] PROVE i = j
      BY DEF Distinct
    <3>1. ~(i < j) /\ ~(j < i)
      BY <2>4
    <3> QED
      BY <1>1, <2>2, <3>1
  <2>6. \A i \in 1..Len(m) : m[i] \in ToSet(s) \cup {x}
    <3>1. ASSUME NEW i \in 1..(Len(s) - 1) PROVE m[i] \in ToSet(s)
      BY <1>1, <1>7, <2>10, <2>2, <3>1
    <3> QED
      BY <1>1, <1>6, <2>2, <3>1
  <2>7. \A i \in 1..Len(s) : s[i] \in ToSet(m)
    <3>1. ASSUME NEW i \in 1..Len(s), i < k PROVE s[i] \in ToSet(m)
      <4>1. i \in 1..(Len(s) - 1) /\ i \in 1..Len(m) /\ m[i] = s[i]
        BY <1>1, <2>10, <2>2, <3>1
      <4> QED
        BY <1>7, <4>1
    <3>2. ASSUME NEW i \in 1..Len(s), i > k PROVE s[i] \in ToSet(m)
      <4>1. i - 1 \in 1..(Len(s) - 1) /\ ~(i - 1 < k) /\ (i - 1) + 1 = i
        BY <1>1, <2>2, <3>2
      <4>2. i - 1 \in 1..Len(m) /\ m[i - 1] = s[i]
        BY <1>1, <2>10, <2>2, <4>1
      <4> QED
        BY <1>7, <4>2
    <3>3. s[k] \in ToSet(m)
      BY <1>1, <1>6, <1>7, <2>2
    <3> QED
      BY <1>1, <2>2, <3>1, <3>2, <3>3
  <2>8. x \in ToSet(m)
    BY <2>2, <2>7
  <2>9. ToSet(m) = ToSet(s) \cup {x}
    BY <1>7, <2>6, <2>7, <2>8
  <2> QED
    BY <1>1, <1>5, <1>6, <2>2, <2>5, <2>9
<1> QED
  BY <1>8, <1>9

\* The oldest key leaves a cache that is full.
LEMMA Trimmed ==
    ASSUME NEW S, NEW s \in Seq(S), Distinct(s), s # <<>>
    PROVE  /\ Tail(s) \in Seq(S) /\ Distinct(Tail(s)) /\ Len(Tail(s)) = Len(s) - 1
           /\ ToSet(s) = ToSet(Tail(s)) \cup {Head(s)} /\ Head(s) \notin ToSet(Tail(s))
           /\ Len(s) \in Nat \ {0}
<1>1. /\ Len(s) \in Nat \ {0} /\ Head(s) = s[1] /\ Head(s) \in S
      /\ Tail(s) \in Seq(S) /\ Len(Tail(s)) = Len(s) - 1
      /\ \A i \in 1..Len(Tail(s)) : Tail(s)[i] = s[i + 1]
  BY HeadLeaves
<1>2. /\ ToSet(s) = {s[i] : i \in 1..Len(s)}
      /\ ToSet(Tail(s)) = {Tail(s)[i] : i \in 1..Len(Tail(s))}
  BY <1>1, LenProperties DEF ToSet
<1>3. \A i \in 1..Len(Tail(s)) : i + 1 \in 1..Len(s) /\ i + 1 # 1
  BY <1>1
<1>4. Distinct(Tail(s))
  <2> SUFFICES ASSUME NEW i \in 1..Len(Tail(s)), NEW j \in 1..Len(Tail(s)),
                      Tail(s)[i] = Tail(s)[j]
               PROVE  i = j
    BY DEF Distinct
  <2>1. i + 1 = j + 1
    BY <1>1, <1>3 DEF Distinct
  <2> QED
    BY <1>1, <2>1
<1>5. Head(s) \notin ToSet(Tail(s))
  <2> SUFFICES ASSUME NEW i \in 1..Len(Tail(s)), Tail(s)[i] = s[1] PROVE FALSE
    BY <1>1, <1>2
  <2>1. s[i + 1] = s[1] /\ i + 1 \in 1..Len(s) /\ i + 1 # 1 /\ 1 \in 1..Len(s)
    BY <1>1, <1>3
  <2> QED
    BY <2>1 DEF Distinct
<1>6. ToSet(s) = ToSet(Tail(s)) \cup {Head(s)}
  <2>1. \A i \in 1..Len(s) : s[i] \in ToSet(Tail(s)) \cup {Head(s)}
    <3>1. ASSUME NEW i \in 1..Len(s), i # 1 PROVE s[i] \in ToSet(Tail(s))
      <4>1. i - 1 \in 1..Len(Tail(s)) /\ (i - 1) + 1 = i
        BY <1>1, <3>1
      <4> QED
        BY <1>1, <1>2, <4>1
    <3> QED
      BY <1>1, <3>1
  <2>2. ToSet(Tail(s)) \subseteq ToSet(s) /\ Head(s) \in ToSet(s)
    BY <1>1, <1>2, <1>3
  <2> QED
    BY <1>2, <2>1, <2>2
<1> QED
  BY <1>1, <1>4, <1>5, <1>6

\* A key that is used or inserted is held afterwards, and nothing else leaves memory.
LEMMA PutHolds ==
    ASSUME PoolType, DirtyIsHeld, NEW p \in Pages, Put(p),
           dirty' \in {dirty, dirty \cup {p}}
    PROVE  /\ cached' \in Seq(Pages) /\ evicted' \in SUBSET Pages /\ Held' = Held \cup {p}
           /\ DirtyIsHeld'
<1> DEFINE order == Used(cached, p)
<1>1. cached \in Seq(Pages) /\ DOMAIN cached = 1..Len(cached)
  BY LenProperties DEF PoolType
<1>2. Distinct(cached) /\ Len(cached) < MaxCacheSize /\ ToSet(cached) \cap evicted = {}
      /\ dirty \subseteq Held /\ evicted \subseteq Pages
  BY <1>1 DEF DirtyIsHeld, Distinct, PoolType
<1>3. /\ order \in Seq(Pages) /\ Distinct(order) /\ ToSet(order) = ToSet(cached) \cup {p}
      /\ Len(order) \in 1..(Len(cached) + 1)
      /\ Len(cached) \in Nat
  BY <1>1, <1>2, UsedOnce
<1>4. MaxCacheSize \in Nat \ {0}
  BY CacheAssumption
<1>5. /\ cached' = Trim(order, MaxCacheSize)
      /\ evicted' = (evicted \ {p}) \cup {q \in {Head(order)} : Full(order, MaxCacheSize)}
  BY DEF Put
<1> HIDE DEF order
<1>6. order # <<>>
  BY <1>3, NoEntry
<1>7. /\ Tail(order) \in Seq(Pages) /\ Distinct(Tail(order))
      /\ Len(Tail(order)) = Len(order) - 1
      /\ ToSet(order) = ToSet(Tail(order)) \cup {Head(order)}
      /\ Head(order) \notin ToSet(Tail(order)) /\ Head(order) \in Pages
  BY <1>3, <1>6, Trimmed, HeadLeaves
<1>8. /\ cached' \in Seq(Pages) /\ evicted' \in SUBSET Pages
      /\ ToSet(cached') \cup evicted' = ToSet(order) \cup (evicted \ {p})
      /\ ToSet(cached') \cap evicted' = {} /\ Len(cached') < MaxCacheSize
      /\ Distinct(cached')
  <2>1. CASE Full(order, MaxCacheSize)
    <3>1. cached' = Tail(order) /\ evicted' = (evicted \ {p}) \cup {Head(order)}
      BY <1>5, <2>1 DEF Trim
    <3>2. Len(order) \in Nat /\ Len(order) <= MaxCacheSize
      BY <1>2, <1>3, <1>4
    <3>3. Len(cached') < MaxCacheSize
      BY <1>4, <1>7, <3>1, <3>2
    <3>4. ToSet(cached') \cap evicted' = {}
      BY <1>2, <1>3, <1>7, <3>1
    <3>5. ToSet(cached') \cup evicted' = ToSet(order) \cup (evicted \ {p})
      BY <1>7, <3>1
    <3> QED
      BY <1>2, <1>7, <3>1, <3>3, <3>4, <3>5
  <2>2. CASE ~Full(order, MaxCacheSize)
    <3>1. cached' = order /\ evicted' = evicted \ {p}
      BY <1>5, <2>2 DEF Trim
    <3>2. Len(cached') < MaxCacheSize
      BY <1>3, <1>4, <2>2, <3>1 DEF Full
    <3>3. ToSet(cached') \cap evicted' = {}
      BY <1>2, <1>3, <3>1
    <3> QED
      BY <1>2, <1>3, <3>1, <3>2, <3>3
  <2> QED
    BY <2>1, <2>2
<1>9. Held' = Held \cup {p}
  BY <1>3, <1>8 DEF Held
<1>10. DirtyIsHeld'
  <2>1. DOMAIN cached' = 1..Len(cached')
    BY <1>8, LenProperties
  <2>2. \A i, j \in DOMAIN cached' : cached'[i] = cached'[j] => i = j
    BY <1>8, <2>1 DEF Distinct
  <2>3. dirty' \subseteq Held'
    BY <1>2, <1>9
  <2> QED
    BY <1>8, <2>2, <2>3 DEF DirtyIsHeld
<1> QED
  BY <1>8, <1>9, <1>10

-----------------------------------------------------------------------------
(* The channel of the write thread.                                        *)

\* A set of positions has a greatest one.
LEMMA Greatest ==
    ASSUME NEW n \in Nat, NEW T \in SUBSET (1..n), T # {}
    PROVE  Max(T) \in T /\ \A i \in T : i <= Max(T)
<1> DEFINE R == OpToRel(<, Nat)
           D == {n - i : i \in T}
<1>1. IsWellFoundedOn(R, Nat)
  BY NatLessThanWellFounded
<1>2. \A x, y \in Nat : y < x => <<y, x>> \in R
  BY DEF OpToRel
<1> HIDE DEF R
<1>3. D \subseteq Nat /\ D # {}
  <2>1. \A i \in T : n - i \in Nat
    OBVIOUS
  <2>2. PICK i \in T : TRUE
    OBVIOUS
  <2>3. n - i \in D
    BY <2>2
  <2> QED
    BY <2>1, <2>3
<1>4. PICK d \in D : \A y \in D : ~(<<y, d>> \in R)
  BY <1>1, <1>3, WFMin
<1>5. PICK m \in T : d = n - m
  OBVIOUS
<1>6. \A i \in T : i <= m
  <2> SUFFICES ASSUME NEW i \in T, i > m PROVE FALSE
    BY <1>5
  <2>1. i \in 1..n /\ m \in 1..n
    BY <1>5
  <2>2. n - i < d
    BY <1>5, <2>1
  <2>3. n - i \in D
    OBVIOUS
  <2> QED
    BY <1>2, <1>3, <1>4, <2>2, <2>3
<1>7. \E x \in T : \A y \in T : x >= y
  BY <1>6
<1> QED
  BY <1>7 DEF Max

\* LastWritten, and the write it is of.
LastIn(p, ws, d) ==
  LET sent == {i \in DOMAIN ws : ws[i].page = p}
  IN IF sent = {} THEN d[p].data ELSE ws[Max(sent)].block.data
NotIn(p, ws) == \A i \in 1..Len(ws) : ws[i].page # p
IsLast(i, p, ws) == /\ i \in 1..Len(ws) /\ ws[i].page = p
                    /\ \A j \in 1..Len(ws) : ws[j].page = p => j <= i

LEMMA LastIs ==
    ASSUME NEW ws \in Seq(Write), NEW d, NEW p
    PROVE  /\ NotIn(p, ws) => LastIn(p, ws, d) = d[p].data
           /\ \A i : IsLast(i, p, ws) => LastIn(p, ws, d) = ws[i].block.data
           /\ NotIn(p, ws) \/ \E i \in 1..Len(ws) : IsLast(i, p, ws)
<1> DEFINE sent == {i \in DOMAIN ws : ws[i].page = p}
<1>1. sent = {i \in 1..Len(ws) : ws[i].page = p} /\ Len(ws) \in Nat
  BY LenProperties
<1>2. LastIn(p, ws, d) = IF sent = {} THEN d[p].data ELSE ws[Max(sent)].block.data
  BY DEF LastIn
<1>3. \A i \in 1..Len(ws) : i \in sent <=> ws[i].page = p
  BY <1>1
<1>4. sent \in SUBSET (1..Len(ws))
  BY <1>1
<1> HIDE DEF sent
<1>5. CASE sent = {}
  BY <1>2, <1>3, <1>5 DEF NotIn, IsLast
<1>6. CASE sent # {}
  <2>1. Max(sent) \in sent /\ \A i \in sent : i <= Max(sent)
    BY <1>1, <1>4, <1>6, Greatest
  <2>2. IsLast(Max(sent), p, ws) /\ Max(sent) \in 1..Len(ws) /\ ~NotIn(p, ws)
    BY <1>3, <1>4, <2>1 DEF IsLast, NotIn
  <2>3. \A i : IsLast(i, p, ws) => i = Max(sent)
    <3> SUFFICES ASSUME NEW i, IsLast(i, p, ws) PROVE i = Max(sent)
      OBVIOUS
    <3>1. i \in 1..Len(ws) /\ i \in sent /\ Max(sent) <= i
      BY <1>3, <2>2 DEF IsLast
    <3>2. i <= Max(sent)
      BY <2>1, <3>1
    <3> QED
      BY <1>1, <2>2, <3>1, <3>2
  <2> QED
    BY <1>2, <1>6, <2>2, <2>3
<1> QED
  BY <1>5, <1>6

\* The first write is done, or fails on a page nobody looks at.
LEMMA LastAfterHead ==
    ASSUME NEW ws \in Seq(Write), ws # <<>>, NEW d, NEW d2, NEW p,
           p = Head(ws).page => d2[p] = Head(ws).block,
           p # Head(ws).page => d2[p] = d[p]
    PROVE  LastIn(p, Tail(ws), d2) = LastIn(p, ws, d)
<1> DEFINE t == Tail(ws)
<1>1. /\ Len(ws) \in Nat \ {0} /\ Head(ws) = ws[1] /\ t \in Seq(Write)
      /\ Len(t) = Len(ws) - 1
      /\ \A i \in 1..Len(t) : t[i] = ws[i + 1]
  BY HeadLeaves
<1> HIDE DEF t
<1>2. \A i \in 1..Len(t) : i + 1 \in 1..Len(ws)
  BY <1>1
<1>3. \A i \in 1..Len(ws) : i # 1 => i - 1 \in 1..Len(t) /\ (i - 1) + 1 = i
  BY <1>1
<1>4. \A i \in 1..Len(ws) : i # 1 => ws[i] = t[i - 1]
  BY <1>1, <1>3
<1>5. CASE NotIn(p, t)
  <2>1. LastIn(p, t, d2) = d2[p].data
    BY <1>1, <1>5, LastIs
  <2>2. CASE p = Head(ws).page
    <3>1. IsLast(1, p, ws)
      BY <1>1, <1>3, <1>4, <1>5, <2>2 DEF IsLast, NotIn
    <3>2. LastIn(p, ws, d) = ws[1].block.data
      BY <3>1, LastIs
    <3> QED
      BY <1>1, <2>1, <2>2, <3>2 DEF t
  <2>3. CASE p # Head(ws).page
    <3>1. NotIn(p, ws)
      BY <1>1, <1>3, <1>4, <1>5, <2>3 DEF NotIn
    <3>2. LastIn(p, ws, d) = d[p].data
      BY <3>1, LastIs
    <3> QED
      BY <2>1, <2>3, <3>2 DEF t
  <2> QED
    BY <2>2, <2>3
<1>6. CASE ~NotIn(p, t)
  <2>1. PICK i \in 1..Len(t) : IsLast(i, p, t)
    BY <1>1, <1>6, LastIs
  <2>2. LastIn(p, t, d2) = t[i].block.data
    BY <1>1, <2>1, LastIs
  <2>3. IsLast(i + 1, p, ws)
    <3>1. i + 1 \in 1..Len(ws) /\ ws[i + 1].page = p
      BY <1>1, <1>2, <2>1 DEF IsLast
    <3>2. ASSUME NEW j \in 1..Len(ws), ws[j].page = p PROVE j <= i + 1
      <4>1. CASE j = 1
        BY <2>1, <4>1
      <4>2. CASE j # 1
        <5>1. j - 1 <= i
          BY <1>3, <1>4, <2>1, <3>2, <4>2 DEF IsLast
        <5> QED
          BY <1>1, <2>1, <5>1
      <4> QED
        BY <4>1, <4>2
    <3> QED
      BY <3>1, <3>2 DEF IsLast
  <2>4. LastIn(p, ws, d) = ws[i + 1].block.data
    BY <2>3, LastIs
  <2> QED
    BY <1>1, <2>1, <2>2, <2>4 DEF t
<1> QED
  BY <1>5, <1>6

\* Writes are sent: a page that is among them is last written by them.
LEMMA LastAfterSend ==
    ASSUME NEW ws \in Seq(Write), NEW bs \in Seq(Write), NEW d, NEW p
    PROVE  /\ NotIn(p, bs) => LastIn(p, ws \o bs, d) = LastIn(p, ws, d)
           /\ ~NotIn(p, bs) => \E i \in 1..Len(bs) :
                bs[i].page = p /\ LastIn(p, ws \o bs, d) = bs[i].block.data
<1> DEFINE all == ws \o bs
<1>1. /\ all \in Seq(Write) /\ Len(all) = Len(ws) + Len(bs)
      /\ Len(ws) \in Nat /\ Len(bs) \in Nat
      /\ \A i \in 1..(Len(ws) + Len(bs)) :
           all[i] = IF i <= Len(ws) THEN ws[i] ELSE bs[i - Len(ws)]
  BY ConcatProperties, LenProperties
<1> HIDE DEF all
<1>2. \A i \in 1..Len(ws) : i \in 1..Len(all) /\ all[i] = ws[i]
  BY <1>1
<1>3. \A i \in 1..Len(bs) : Len(ws) + i \in 1..Len(all) /\ all[Len(ws) + i] = bs[i]
  <2> SUFFICES ASSUME NEW i \in 1..Len(bs)
               PROVE  Len(ws) + i \in 1..Len(all) /\ all[Len(ws) + i] = bs[i]
    OBVIOUS
  <2>1. Len(ws) + i \in 1..(Len(ws) + Len(bs)) /\ ~(Len(ws) + i <= Len(ws))
        /\ (Len(ws) + i) - Len(ws) = i
    BY <1>1
  <2>2. all[Len(ws) + i] = bs[(Len(ws) + i) - Len(ws)]
    BY <1>1, <2>1
  <2> QED
    BY <1>1, <2>1, <2>2
<1>4. \A i \in 1..Len(all) : i > Len(ws) => i - Len(ws) \in 1..Len(bs)
        /\ Len(ws) + (i - Len(ws)) = i
  BY <1>1
<1>5. CASE NotIn(p, bs)
  <2>1. \A i \in 1..Len(all) : all[i].page = p => i \in 1..Len(ws)
    <3> SUFFICES ASSUME NEW i \in 1..Len(all), i > Len(ws) PROVE all[i].page # p
      BY <1>1
    <3>1. all[i] = bs[i - Len(ws)] /\ i - Len(ws) \in 1..Len(bs)
      BY <1>3, <1>4
    <3> QED
      BY <1>5, <3>1 DEF NotIn
  <2>2. CASE NotIn(p, ws)
    <3>1. NotIn(p, all)
      BY <1>2, <2>1, <2>2 DEF NotIn
    <3>2. LastIn(p, all, d) = d[p].data
      BY <1>1, <3>1, LastIs
    <3>3. LastIn(p, ws, d) = d[p].data
      BY <2>2, LastIs
    <3> QED
      BY <1>5, <3>2, <3>3 DEF all
  <2>3. CASE ~NotIn(p, ws)
    <3>1. PICK i \in 1..Len(ws) : IsLast(i, p, ws)
      BY <2>3, LastIs
    <3>2. IsLast(i, p, all)
      BY <1>2, <2>1, <3>1 DEF IsLast
    <3>3. LastIn(p, all, d) = all[i].block.data
      BY <1>1, <3>2, LastIs
    <3>4. LastIn(p, ws, d) = ws[i].block.data
      BY <3>1, LastIs
    <3> QED
      BY <1>2, <1>5, <3>3, <3>4 DEF all
  <2> QED
    BY <2>2, <2>3
<1>6. CASE ~NotIn(p, bs)
  <2>1. PICK i \in 1..Len(bs) : IsLast(i, p, bs)
    BY <1>6, LastIs
  <2>2. IsLast(Len(ws) + i, p, all)
    <3>1. Len(ws) + i \in 1..Len(all) /\ all[Len(ws) + i].page = p
      BY <1>3, <2>1 DEF IsLast
    <3>2. ASSUME NEW j \in 1..Len(all), all[j].page = p PROVE j <= Len(ws) + i
      <4>1. CASE j <= Len(ws)
        BY <1>1, <2>1, <4>1
      <4>2. CASE j > Len(ws)
        <5>1. j - Len(ws) \in 1..Len(bs) /\ bs[j - Len(ws)].page = p
          BY <1>3, <1>4, <3>2, <4>2
        <5>2. j - Len(ws) <= i
          BY <2>1, <5>1 DEF IsLast
        <5> QED
          BY <1>1, <2>1, <5>2
      <4> QED
        BY <1>1, <4>1, <4>2
    <3> QED
      BY <3>1, <3>2 DEF IsLast
  <2>3. LastIn(p, all, d) = all[Len(ws) + i].block.data
    BY <1>1, <2>2, LastIs
  <2>4. bs[i].page = p /\ LastIn(p, all, d) = bs[i].block.data
    BY <1>3, <2>1, <2>3 DEF IsLast
  <2> QED
    BY <1>6, <2>4 DEF all
<1> QED
  BY <1>5, <1>6

\* What flush_all sends: every page of the set, with its block.
LEMMA BlocksOf ==
    ASSUME block \in [Pages -> Blank], NEW S \in SUBSET Pages, IsFiniteSet(S)
    PROVE  /\ Blocks(S) \in Seq(Write)
           /\ \A i \in 1..Len(Blocks(S)) :
                Blocks(S)[i].page \in S /\ Blocks(S)[i].block = block[Blocks(S)[i].page]
           /\ \A p \in S : ~NotIn(p, Blocks(S))
           /\ \A p : p \notin S => NotIn(p, Blocks(S))
<1> DEFINE n == Cardinality(S)
           rank == [p \in S |-> UpTo(S, p)]
           page == [i \in 1..n |-> CHOOSE q \in S : UpTo(S, q) = i]
           entry == [i \in 1..n |-> [page |-> page[i], block |-> block[page[i]]]]
<1>1. n \in Nat /\ IsFiniteSet(1..n) /\ Cardinality(1..n) = n
  <2>1. n \in Nat
    BY FS_CardinalityType
  <2> QED
    BY <2>1, FS_Interval
<1>2. S \subseteq Nat
  BY PagesAssumption
<1>3. ASSUME NEW p \in S, NEW q \in S, p < q PROVE UpTo(S, p) # UpTo(S, q)
  <2> DEFINE P == {x \in S : x <= p}
             Q == {x \in S : x <= q}
  <2>1. p \in Nat /\ q \in Nat /\ \A x \in S : x \in Nat /\ (x <= p => x <= q)
    BY <1>2, <1>3
  <2>4. q <= q /\ ~(q <= p)
    BY <1>3, <2>1
  <2>5. P \subseteq Q
    BY <2>1
  <2>6. q \in Q /\ q \notin P
    BY <2>4
  <2>2. IsFiniteSet(Q)
    BY FS_Subset
  <2>3. Cardinality(P) # Cardinality(Q)
    BY <2>2, <2>5, <2>6, FS_Subset
  <2> QED
    BY <2>3 DEF UpTo
<1>4. \A p \in S : rank[p] \in 1..n
  <2> SUFFICES ASSUME NEW p \in S PROVE UpTo(S, p) \in 1..n
    OBVIOUS
  <2> DEFINE P == {x \in S : x <= p}
  <2>1. P \in SUBSET S /\ p \in P
    BY <1>2
  <2>2. IsFiniteSet(P) /\ Cardinality(P) <= n
    BY <2>1, FS_Subset
  <2>3. Cardinality(P) \in Nat /\ Cardinality(P) # 0
    BY <2>1, <2>2, FS_CardinalityType, FS_EmptySet
  <2> QED
    BY <1>1, <2>2, <2>3 DEF UpTo
<1>5. rank \in [S -> 1..n] /\ \A p, q \in S : rank[p] = rank[q] => p = q
  BY <1>2, <1>3, <1>4
<1>6. rank \in Injection(S, 1..n)
  BY <1>5 DEF Injection, IsInjective
<1>7. rank \in Surjection(S, 1..n)
  BY <1>1, <1>6, FS_Injection
<1>8. \A i \in 1..n : \E p \in S : UpTo(S, p) = i
  BY <1>7 DEF Surjection
<1>9. \A i \in 1..n : page[i] \in S /\ UpTo(S, page[i]) = i
  BY <1>8
<1>10. \A p \in S : UpTo(S, p) \in 1..n /\ page[UpTo(S, p)] = p
  <2> SUFFICES ASSUME NEW p \in S PROVE UpTo(S, p) \in 1..n /\ page[UpTo(S, p)] = p
    OBVIOUS
  <2>1. UpTo(S, p) \in 1..n
    BY <1>4
  <2>2. page[UpTo(S, p)] \in S /\ rank[page[UpTo(S, p)]] = rank[p]
    BY <1>9, <2>1
  <2> QED
    BY <1>5, <2>1, <2>2
<1>11. Blocks(S) = entry
  BY DEF Blocks
<1> HIDE DEF page
<1>12. /\ entry \in Seq(Write) /\ Len(entry) = n
       /\ \A i \in 1..n : entry[i].page = page[i] /\ entry[i].block = block[page[i]]
  <2>1. \A i \in 1..n : page[i] \in Pages /\ entry[i] \in Write
    BY <1>9 DEF Write
  <2>2. entry \in [1..n -> Write]
    BY <2>1
  <2> QED
    BY <1>1, <2>1, <2>2
<1> HIDE DEF entry, n
<1>13. \A p \in S : ~NotIn(p, entry)
  BY <1>10, <1>12 DEF NotIn
<1>14. \A p : p \notin S => NotIn(p, entry)
  BY <1>9, <1>12 DEF NotIn
<1> QED
  BY <1>9, <1>11, <1>12, <1>13, <1>14

-----------------------------------------------------------------------------
(* Versions and what is known of them.                                     *)

LEMMA ZeroType == ZeroBlock \in Blank /\ ZeroBlock.data = 0 /\ ZeroBlock.undo = 0
                  /\ ZeroBlock.commit = 0 /\ ZeroBlock.tx = 0
BY DEF ZeroBlock, Blank

\* The history, the undo logs, the commit indexes and the exposed pages only grow,
\* under commit indexes that no snapshot taken covers.
Grows ==
  /\ Len(undo) <= Len(undo') /\ \A i \in 1..Len(undo) : undo'[i].data = undo[i].data
  /\ Len(owner) <= Len(owner') /\ \A v \in 1..Len(owner) : owner'[v] = owner[v]
  /\ \A v \in 1..Len(owner') : v > Len(owner) => commitAt'[owner'[v].tx] = 0
  /\ exposed \subseteq exposed'
  /\ \A t \in Tx : commitAt'[t] = commitAt[t] \/ (commitAt[t] = 0 /\ commitAt'[t] > lastIndex)
There(b, p) == Version(b, p, undo', owner', commitAt', exposed')

LEMMA VersionStays ==
    ASSUME NEW u \in Seq(Blank), NEW u2 \in Seq(Blank),
           NEW o \in Seq(Maker), NEW o2 \in Seq(Maker),
           NEW a \in [Tx -> Nat], NEW a2 \in [Tx -> Nat], NEW x, NEW x2,
           Len(u) <= Len(u2), \A i \in 1..Len(u) : u2[i].data = u[i].data,
           Len(o) <= Len(o2), \A v \in 1..Len(o) : o2[v] = o[v],
           \A t \in Tx : a2[t] = a[t] \/ a[t] = 0, x \subseteq x2,
           NEW b, NEW p, Version(b, p, u, o, a, x)
    PROVE  Version(b, p, u2, o2, a2, x2)
<1>1. CASE b = ZeroBlock
  BY <1>1 DEF Version
<1>2. CASE b # ZeroBlock
  <2>1. /\ b \in [commit : Nat, tx : Tx, undo : 1..Len(u), data : 1..Len(o)]
        /\ o[b.data] = [page |-> p, tx |-> b.tx]
        /\ b.commit \in {0, a[b.tx]}
        /\ u[b.undo].data \in 0..(b.data - 1)
        /\ u[b.undo].data # 0 => o[u[b.undo].data].page = p
        /\ p \in x \/ \A v \in 1..Len(o) : o[v].page = p /\ v < b.data => v <= u[b.undo].data
    BY <1>2 DEF Version
  <2>2. Len(u) \in Nat /\ Len(u2) \in Nat /\ Len(o) \in Nat /\ Len(o2) \in Nat
    BY LenProperties
  <2>3. b.undo \in 1..Len(u) /\ b.data \in 1..Len(o) /\ b.tx \in Tx
    BY <2>1
  <2>4. b \in [commit : Nat, tx : Tx, undo : 1..Len(u2), data : 1..Len(o2)]
    BY <2>1, <2>2
  <2>5. u2[b.undo].data = u[b.undo].data
    BY <2>3
  <2>6. u[b.undo].data # 0 => u[b.undo].data \in 1..Len(o)
    BY <2>1, <2>2, <2>3
  <2>7. o2[b.data] = [page |-> p, tx |-> b.tx]
    BY <2>1, <2>3
  <2>8. b.commit \in {0, a2[b.tx]}
    BY <2>1, <2>3
  <2>9. u2[b.undo].data # 0 => o2[u2[b.undo].data].page = p
    BY <2>1, <2>5, <2>6
  <2>10. p \in x2 \/ \A v \in 1..Len(o2) :
           o2[v].page = p /\ v < b.data => v <= u2[b.undo].data
    <3>1. \A v \in 1..Len(o2) : v < b.data => v \in 1..Len(o)
      BY <2>2, <2>3
    <3> QED
      BY <2>1, <2>5, <3>1
  <2> QED
    BY <2>1, <2>4, <2>5, <2>7, <2>8, <2>9, <2>10 DEF Version
<1> QED
  BY <1>1, <1>2

\* Two blocks of the same version are of the same page.
LEMMA SamePage ==
    ASSUME NEW b, NEW c, NEW p, NEW q, NEW u, NEW o, NEW a, NEW x,
           Version(b, p, u, o, a, x), Version(c, q, u, o, a, x), b.data = c.data
    PROVE  Version(c, p, u, o, a, x)
<1>1. CASE b = ZeroBlock
  <2>1. c = ZeroBlock
    BY <1>1, ZeroType DEF Version
  <2> QED
    BY <2>1 DEF Version
<1>2. CASE b # ZeroBlock
  <2>1. b.data \in 1..Len(o) /\ o[b.data].page = p
    BY <1>2 DEF Version
  <2>2. c # ZeroBlock
    BY <2>1, ZeroType
  <2>3. o[c.data].page = q
    BY <2>2 DEF Version
  <2>4. p = q
    BY <2>1, <2>3
  <2> QED
    BY <2>4
<1> QED
  BY <1>1, <1>2

LEMMA HereStays ==
    ASSUME BookType, BookType', Grows
    PROVE  \A b, p : Here(b, p) => There(b, p)
<1> SUFFICES ASSUME NEW b, NEW p, Here(b, p) PROVE There(b, p)
  OBVIOUS
<1>1. /\ undo \in Seq(Blank) /\ undo' \in Seq(Blank) /\ owner \in Seq(Maker)
      /\ owner' \in Seq(Maker) /\ commitAt \in [Tx -> Nat] /\ commitAt' \in [Tx -> Nat]
  BY DEF BookType
<1>2. \A t \in Tx : commitAt'[t] = commitAt[t] \/ commitAt[t] = 0
  BY DEF Grows
<1> QED
  BY <1>1, <1>2, VersionStays DEF Grows, Here, There

\* What is stored and not touched stays what it was.
LEMMA PagesStay ==
    ASSUME BookType, BookType', Grows, PagesStored, WritesStored,
           UNCHANGED <<block, disk, writes>>
    PROVE  PagesStored' /\ WritesStored'
<1>1. \A b, p : Here(b, p) => There(b, p)
  BY HereStays
<1>2. \A p \in Pages : There(block[p], p) /\ There(disk[p], p)
  BY <1>1 DEF PagesStored
<1>3. \A i \in 1..Len(writes) : There(writes[i].block, writes[i].page)
  BY <1>1 DEF WritesStored
<1> QED
  BY <1>2, <1>3 DEF PagesStored, WritesStored, There, Here

LEMMA LogsStay ==
    ASSUME BookType, BookType', Grows, LogsStored, CacheStored,
           UNCHANGED <<undo, undoCached>>
    PROVE  LogsStored' /\ CacheStored'
<1>1. \A b, p : Here(b, p) => There(b, p)
  BY HereStays
<1>2. \A i \in 1..Len(undo) : undo[i].undo < i /\ \E p \in Nat : There(undo[i], p)
  BY <1>1 DEF LogsStored
<1>3. \A k \in 1..Len(undoCached) :
        Copy(undoCached[k], undo) /\ \E p \in Nat : There(undoCached[k].log, p)
  BY <1>1 DEF CacheStored
<1> QED
  BY <1>2, <1>3 DEF LogsStored, CacheStored, There, Here

\* A client that does not move keeps what it holds and has found.
LEMMA ClientStays ==
    ASSUME Inv, BookType', Grows, \A i \in 1..Len(undo') : \E p \in Nat : There(undo'[i], p),
           NEW c \in Clients
    PROVE  ClientOK(cl[c], undo', owner', commitAt', exposed')
<1> DEFINE w == cl[c]
<1>1. ClientOK(w, undo, owner, commitAt, exposed)
  BY DEF Inv, UserInv, InHand
<1>2. \A b, p : Here(b, p) => There(b, p)
  BY HereStays DEF Inv
<1>3. /\ undo \in Seq(Blank) /\ undo' \in Seq(Blank) /\ Len(undo) \in Nat /\ Len(undo') \in Nat
      /\ Len(owner) \in Nat /\ Len(owner') \in Nat
  BY LenProperties DEF Inv, BookType
<1>4. w.snap \in Nat /\ w.snap <= lastIndex /\ lastIndex \in Nat
  BY DEF Inv, UserInv, UserType, Transactions, Client
<1> HIDE DEF w
<1>5. \A i \in 1..Len(undo) : i \in 1..Len(undo') /\ undo'[i].data = undo[i].data
  BY <1>3 DEF Grows
<1>6. ASSUME NEW i \in 1..Len(undo), Here(undo[i], w.page) PROVE There(undo'[i], w.page)
  <2>1. There(undo[i], w.page)
    BY <1>2, <1>6
  <2>2. PICK p \in Nat : There(undo'[i], p)
    BY <1>5
  <2> QED
    BY <1>5, <2>1, <2>2, SamePage DEF There
<1>7. Holds(w, undo', owner', commitAt', exposed')
  <2>1. w.pc \in {"fill", "append", "new"} => There(w.got, w.page)
    BY <1>1, <1>2 DEF ClientOK, Holds, Here
  <2>2. w.pc = "new" => w.cur \in 1..Len(undo') /\ undo'[w.cur].data = w.got.data
    BY <1>1, <1>5 DEF ClientOK, Holds
  <2>3. w.pc = "walk" => /\ w.cur \in 1..Len(undo') /\ There(undo'[w.cur], w.page)
                         /\ w.first \in 1..Len(undo') /\ There(undo'[w.first], w.page)
    BY <1>1, <1>5, <1>6 DEF ClientOK, Holds, Here
  <2> QED
    BY <2>1, <2>2, <2>3 DEF Holds, There
<1>8. \A p : Shown(p, w.snap, owner', commitAt') \subseteq Shown(p, w.snap, owner, commitAt)
  <2> SUFFICES ASSUME NEW p, NEW v \in Shown(p, w.snap, owner', commitAt')
               PROVE  v \in Shown(p, w.snap, owner, commitAt)
    OBVIOUS
  <2>1. v \in 1..Len(owner') /\ owner'[v].page = p /\ commitAt'[owner'[v].tx] \in 1..w.snap
    BY DEF Shown
  <2>2. ~(v > Len(owner))
    BY <1>4, <2>1 DEF Grows
  <2>3. v \in 1..Len(owner) /\ owner[v] = owner'[v]
    BY <1>3, <2>1, <2>2 DEF Grows
  <2>4. owner[v].tx \in Tx
    <3>1. owner \in Seq(Maker)
      BY DEF Inv, BookType
    <3>2. owner[v] \in Maker
      BY <2>3, <3>1, ElementOfSeq
    <3> QED
      BY <3>2 DEF Maker
  <2>5. ~(commitAt'[owner[v].tx] > lastIndex)
    BY <1>4, <2>1, <2>3
  <2>6. commitAt[owner[v].tx] = commitAt'[owner[v].tx]
    BY <2>4, <2>5 DEF Grows
  <2> QED
    BY <2>1, <2>3, <2>6 DEF Shown
<1>9. Finds(w, undo', owner', commitAt', exposed')
  <2> SUFFICES ASSUME w.page \notin exposed',
                      NEW v \in Shown(w.page, w.snap, owner', commitAt')
               PROVE  /\ w.pc = "done" => v <= w.got.data
                      /\ w.pc = "walk" => v <= undo'[w.cur].data /\ v <= undo'[w.first].data
    BY DEF Finds
  <2>1. w.page \notin exposed /\ v \in Shown(w.page, w.snap, owner, commitAt)
    BY <1>8 DEF Grows
  <2>2. /\ w.pc = "done" => v <= w.got.data
        /\ w.pc = "walk" => v <= undo[w.cur].data /\ v <= undo[w.first].data
    BY <1>1, <2>1 DEF ClientOK, Finds
  <2>3. w.pc = "walk" => w.cur \in 1..Len(undo) /\ w.first \in 1..Len(undo)
    BY <1>1 DEF ClientOK, Holds
  <2> QED
    BY <1>5, <2>2, <2>3
<1> QED
  BY <1>1, <1>7, <1>9 DEF ClientOK, w

-----------------------------------------------------------------------------
(* Steps that leave most of the state alone.                               *)

LEMMA Quiet ==
    ASSUME BookType, undoCached' \in Seq(Log), UNCHANGED <<undo, owner, commitAt, exposed>>
    PROVE  BookType' /\ Grows
<1>1. BookType'
  BY DEF BookType
<1>2. Len(owner) \in Nat /\ Len(undo) \in Nat
  BY LenProperties DEF BookType
<1> QED
  BY <1>1, <1>2 DEF Grows

\* No block changes its version, none enters or leaves memory, nothing is sent.
LEMMA PoolStays ==
    ASSUME PoolInv, UNCHANGED <<disk, writes, dirty, fl, owner, exposed>>,
           cached' \in Seq(Pages), evicted' \in SUBSET Pages, block' \in [Pages -> Blank],
           Held' = Held, \A p \in Pages : block'[p].data = block[p].data, DirtyIsHeld'
    PROVE  PoolInv'
<1>1. PoolType'
  BY DEF PoolInv, PoolType
<1>2. \A p \in Pages : LastWritten(p)' = LastWritten(p)
  BY DEF LastWritten, Sent
<1>3. \A p \in Pages : Newest(p)' = Newest(p)
  BY <1>2 DEF Newest
<1>4. CleanIsWritten'
  <2>1. Held \subseteq Pages
    BY RangeOfSeq DEF PoolInv, PoolType, Held, ToSet, Range
  <2> QED
    BY <1>2, <2>1 DEF PoolInv, CleanIsWritten
<1>5. Latest'
  BY <1>3 DEF PoolInv, Latest
<1>6. Ordered'
  BY DEF PoolInv, Ordered
<1>7. Covered'
  <2>1. FlushIsSafe'
    BY DEF PoolInv, Covered, FlushIsSafe
  <2> QED
    BY <1>2, <2>1 DEF PoolInv, Covered
<1> QED
  BY <1>1, <1>4, <1>5, <1>6, <1>7 DEF PoolInv

\* The pool is not touched at all.
LEMMA PoolIdle ==
    ASSUME PoolInv, UNCHANGED <<pool, disk, writes, fl, owner, exposed>>
    PROVE  PoolInv'
<1>1. /\ cached' \in Seq(Pages) /\ evicted' \in SUBSET Pages /\ block' \in [Pages -> Blank]
      /\ Held' = Held /\ \A p \in Pages : block'[p].data = block[p].data
      /\ UNCHANGED <<disk, writes, dirty, fl, owner, exposed>>
  BY DEF PoolInv, PoolType, Held, pool
<1>2. DirtyIsHeld'
  BY DEF PoolInv, DirtyIsHeld, pool, Held
<1> QED
  BY <1>1, <1>2, PoolStays

\* A key that is held is used.
LEMMA PoolUsed ==
    ASSUME PoolInv, NEW p \in Held, p \in Pages, Put(p),
           UNCHANGED <<block, dirty, disk, writes, fl, owner, exposed>>
    PROVE  PoolInv'
<1>1. /\ cached' \in Seq(Pages) /\ evicted' \in SUBSET Pages /\ Held' = Held \cup {p}
      /\ DirtyIsHeld'
  BY PutHolds DEF PoolInv
<1>2. Held' = Held /\ block' \in [Pages -> Blank]
      /\ \A q \in Pages : block'[q].data = block[q].data
  BY <1>1 DEF PoolInv, PoolType
<1> QED
  BY <1>1, <1>2, PoolStays

-----------------------------------------------------------------------------
(* Steps of one client, and steps of the commit thread.                    *)

Left == [tx : Nat, pages : SUBSET Pages, inserts : Nat, errors : Nat, flushes : Nat]

LEMMA LessLeft ==
    ASSUME Inv
    PROVE  /\ left \in Left
           /\ left.tx > 0 => LET l == [left EXCEPT !.tx = @ - 1]
                            IN  l \in Left /\ l.tx = left.tx - 1
           /\ left.inserts > 0 => LET l == [left EXCEPT !.inserts = @ - 1]
                                 IN  l \in Left /\ l.tx = left.tx
           /\ left.flushes > 0 => LET l == [left EXCEPT !.flushes = @ - 1]
                                 IN  l \in Left /\ l.tx = left.tx
           /\ Fail => left' \in Left /\ left'.tx = left.tx
<1>1. left \in [tx : Nat, pages : SUBSET Pages, inserts : Nat, errors : Nat, flushes : Nat]
  BY DEF Inv, UserInv, UserType
<1>2. /\ left.tx > 0 => left.tx - 1 \in Nat
      /\ left.inserts > 0 => left.inserts - 1 \in Nat
      /\ left.flushes > 0 => left.flushes - 1 \in Nat
      /\ left.errors > 0 => left.errors - 1 \in Nat
  BY <1>1
<1>3. left.tx > 0 => LET l == [left EXCEPT !.tx = @ - 1]
                     IN  l \in Left /\ l.tx = left.tx - 1
  BY <1>1, <1>2 DEF Left
<1>4. left.inserts > 0 => LET l == [left EXCEPT !.inserts = @ - 1]
                          IN  l \in Left /\ l.tx = left.tx
  BY <1>1, <1>2 DEF Left
<1>5. left.flushes > 0 => LET l == [left EXCEPT !.flushes = @ - 1]
                          IN  l \in Left /\ l.tx = left.tx
  BY <1>1, <1>2 DEF Left
<1>6. Fail => left' \in Left /\ left'.tx = left.tx
  BY <1>1, <1>2 DEF Left, Fail
<1> QED
  BY <1>1, <1>3, <1>4, <1>5, <1>6 DEF Left

LEMMA InformedStays ==
    ASSUME Inv, BookType', Grows, UNCHANGED <<cm, commits, commitAt>>
    PROVE  Informed'
<1>1. \A b, p : Here(b, p) => There(b, p)
  BY HereStays DEF Inv
<1>2. cm.pc = "fill" => There(cm.got, Head(cm.pages))
  BY <1>1 DEF Inv, UserInv, Informed
<1>3. Len(undo) \in Nat /\ Len(undo') \in Nat /\ Len(undo) <= Len(undo')
  BY LenProperties DEF Inv, BookType, Grows
<1>4. cm.pc = "walk" => cm.cur \in 1..Len(undo') /\ cm.first \in 1..Len(undo')
  BY <1>3 DEF Inv, UserInv, Informed
<1> QED
  BY <1>2, <1>4 DEF Inv, UserInv, Informed, Here, There

LEMMA InHandStays ==
    ASSUME Inv, BookType', Grows, LogsStored', UNCHANGED cl
    PROVE  InHand'
<1>1. \A i \in 1..Len(undo') : \E p \in Nat : There(undo'[i], p)
  BY DEF LogsStored, Here, There
<1>2. \A c \in Clients : ClientOK(cl[c], undo', owner', commitAt', exposed')
  BY <1>1, ClientStays
<1> QED
  BY <1>2 DEF InHand

\* A client goes on with its call.
LEMMA ClientMoves ==
    ASSUME Inv, BookType', Grows, LogsStored', NEW c \in Clients, NEW w \in Client,
           Goto(c, w), w.tx = cl[c].tx, w.snap = cl[c].snap,
           ClientOK(w, undo', owner', commitAt', exposed'), UNCHANGED <<log, cm>>,
           uncommitted' \in [Tx -> Seq(Pages)], left' \in Left, left'.tx = left.tx
    PROVE  UserInv'
<1>1. cl \in [Clients -> Client] /\ cl' = [cl EXCEPT ![c] = w]
  BY DEF Inv, UserInv, UserType, Goto
<1>2. cl' \in [Clients -> Client] /\ cl'[c] = w
      /\ \A d \in Clients : d # c => cl'[d] = cl[d]
  BY <1>1
<1>3. UserType'
  BY <1>2 DEF Inv, UserInv, UserType, log, Left
<1>4. InHand'
  <2>1. \A i \in 1..Len(undo') : \E p \in Nat : There(undo'[i], p)
    BY DEF LogsStored, Here, There
  <2>2. \A d \in Clients : ClientOK(cl[d], undo', owner', commitAt', exposed')
    BY <2>1, ClientStays
  <2>3. \A d \in Clients : ClientOK(cl'[d], undo', owner', commitAt', exposed')
    BY <1>2, <2>2
  <2> QED
    BY <2>3 DEF InHand
<1>5. Informed'
  BY InformedStays DEF log
<1>6. Transactions'
  <2>1. \A d \in Clients : cl'[d].tx = cl[d].tx /\ cl'[d].snap = cl[d].snap
    BY <1>2
  <2> QED
    BY <2>1 DEF Inv, UserInv, Transactions, log
<1> QED
  BY <1>3, <1>4, <1>5, <1>6 DEF UserInv

\* The commit thread goes on.
LEMMA CommitterMoves ==
    ASSUME Inv, BookType', Grows, LogsStored', Informed', cm' \in Committer,
           UNCHANGED <<cl, lastTx, lastIndex, commitAt>>,
           uncommitted' \in [Tx -> Seq(Pages)], commits' \in Seq([tx : Tx, at : Nat]),
           left' \in Left, left'.tx = left.tx
    PROVE  UserInv'
<1>1. UserType'
  BY DEF Inv, UserInv, UserType, Left
<1>2. InHand'
  BY InHandStays
<1>3. Transactions'
  BY DEF Inv, UserInv, Transactions
<1> QED
  BY <1>1, <1>2, <1>3 DEF UserInv

\* Neither goes on.
LEMMA UsersWait ==
    ASSUME Inv, BookType', Grows, LogsStored', UNCHANGED <<cl, cm, log, uncommitted>>,
           left' \in Left, left'.tx = left.tx
    PROVE  UserInv'
<1>1. UserType'
  BY DEF Inv, UserInv, UserType, Left, log
<1>2. InHand'
  BY InHandStays
<1>3. Informed'
  BY InformedStays DEF log
<1>4. Transactions'
  BY DEF Inv, UserInv, Transactions, log
<1> QED
  BY <1>1, <1>2, <1>3, <1>4 DEF UserInv

-----------------------------------------------------------------------------
(* Transactions begin and end.                                             *)

LEMMA Resting ==
    ASSUME Inv, UNCHANGED <<pool, disk, writes, fl, undoVars, owner, exposed, commitAt>>
    PROVE  PoolInv' /\ BookType' /\ Grows /\ Stored'
<1>1. UNCHANGED <<undo, undoCached, owner, commitAt, exposed, block, disk, writes>>
  BY DEF undoVars, pool
<1>2. PoolInv'
  BY PoolIdle DEF Inv
<1>3. BookType' /\ Grows
  BY <1>1, Quiet DEF Inv, BookType
<1>4. Stored'
  BY <1>1, <1>3, PagesStay, LogsStay DEF Inv, Stored
<1> QED
  BY <1>2, <1>3, <1>4

LEMMA IdleOK ==
    ASSUME NEW w, w.pc = "idle", NEW u, NEW o, NEW a, NEW x
    PROVE  ClientOK(w, u, o, a, x)
BY DEF ClientOK, Holds, Finds

LEMMA IdleType == Idle \in Client /\ Idle.pc = "idle" /\ Idle.tx = 0 /\ Idle.snap = 0
BY ZeroType DEF Idle, Client, Steps

LEMMA OwnTx ==
    ASSUME Inv, NEW c \in Clients
    PROVE  /\ cl[c] \in Client /\ cl[c].tx \in Nat /\ cl[c].snap \in Nat /\ lastIndex \in Nat
           /\ cl[c].tx # 0 => cl[c].tx \in Tx /\ commitAt[cl[c].tx] = 0
           /\ lastTx \in Nat /\ left.tx \in Nat /\ lastTx + left.tx <= MaxTx /\ MaxTx \in Nat
<1>1. /\ cl[c] \in Client /\ lastTx \in Nat /\ left.tx \in Nat /\ lastTx + left.tx <= MaxTx
      /\ lastIndex \in Nat
  BY DEF Inv, UserInv, UserType
<1>2. MaxTx \in Nat
  BY BudgetAssumption
<1>3. cl[c].tx \in 0..lastTx /\ (cl[c].tx # 0 => commitAt[cl[c].tx] = 0)
  BY DEF Inv, UserInv, Transactions
<1>4. cl[c].tx # 0 => cl[c].tx \in Tx
  BY <1>1, <1>2, <1>3 DEF Tx
<1> QED
  BY <1>1, <1>2, <1>3, <1>4 DEF Client

LEMMA BeginInv ==
    ASSUME Inv, NEW c \in Clients, Begin(c)
    PROVE  Inv'
<1> DEFINE w == [cl[c] EXCEPT !.tx = lastTx + 1, !.snap = lastIndex]
<1>1. /\ cl[c].pc = "idle" /\ left.tx > 0 /\ lastTx' = lastTx + 1
      /\ left' = [left EXCEPT !.tx = @ - 1] /\ cl' = [cl EXCEPT ![c] = w]
      /\ UNCHANGED <<uncommitted, commits, cm, lastIndex, commitAt>>
  BY DEF Begin, Goto
<1>2. PoolInv' /\ BookType' /\ Grows /\ Stored'
  BY Resting DEF Begin
<1>3. /\ cl[c] \in Client /\ lastIndex \in Nat /\ lastTx \in Nat /\ left.tx \in Nat
      /\ lastTx + left.tx <= MaxTx /\ MaxTx \in Nat
  BY OwnTx
<1>4. w \in Client /\ w.pc = "idle" /\ w.tx = lastTx + 1 /\ w.snap = lastIndex
  <2>1. lastTx + 1 \in Nat
    BY <1>3
  <2>2. w \in Client
    BY <1>3, <2>1 DEF Client
  <2>3. w.pc = cl[c].pc /\ w.tx = lastTx + 1 /\ w.snap = lastIndex
    BY <1>3 DEF Client
  <2> QED
    BY <1>1, <2>2, <2>3
<1> HIDE DEF w
<1>5. cl' \in [Clients -> Client] /\ cl'[c] = w
      /\ \A d \in Clients : d # c => cl'[d] = cl[d]
  BY <1>1, <1>4 DEF Inv, UserInv, UserType
<1>6. UserType'
  <2>1. left' \in Left /\ left'.tx = left.tx - 1
    BY <1>1, LessLeft
  <2>2. lastTx' \in Nat /\ lastTx' + left'.tx <= MaxTx
    BY <1>1, <1>3, <2>1
  <2>3. /\ uncommitted \in [Tx -> Seq(Pages)] /\ cm \in Committer
        /\ commits \in Seq([tx : Tx, at : Nat])
    BY DEF Inv, UserInv, UserType
  <2>4. UNCHANGED <<uncommitted, commits, cm, lastIndex>>
    BY <1>1
  <2> QED
    BY <1>3, <1>5, <2>1, <2>2, <2>3, <2>4 DEF UserType, Left
<1>7. InHand'
  <2>1. \A i \in 1..Len(undo') : \E p \in Nat : There(undo'[i], p)
    BY <1>2 DEF Stored, LogsStored, Here, There
  <2>2. \A d \in Clients : ClientOK(cl[d], undo', owner', commitAt', exposed')
    BY <1>2, <2>1, ClientStays
  <2>3. \A d \in Clients : ClientOK(cl'[d], undo', owner', commitAt', exposed')
    BY <1>4, <1>5, <2>2, IdleOK
  <2> QED
    BY <2>3 DEF InHand
<1>8. Informed'
  BY <1>1, <1>2, InformedStays
<1>9. Transactions'
  <2>1. \A d \in Clients : cl[d].tx \in 0..lastTx /\ cl[d].snap <= lastIndex
                           /\ (cl[d].tx # 0 => commitAt[cl[d].tx] = 0)
    BY DEF Inv, UserInv, Transactions
  <2>2. \A t \in Tx : commitAt[t] <= lastIndex /\ (t > lastTx => commitAt[t] = 0)
    BY DEF Inv, UserInv, Transactions
  <2>3. lastTx + 1 \in Tx /\ lastTx + 1 > lastTx
    BY <1>1, <1>3 DEF Tx
  <2>4. commitAt[lastTx + 1] = 0
    BY <2>2, <2>3
  <2>5. \A d \in Clients : /\ cl'[d].tx \in 0..lastTx' /\ cl'[d].snap <= lastIndex'
                           /\ cl'[d].tx # 0 => commitAt'[cl'[d].tx] = 0
    <3> SUFFICES ASSUME NEW d \in Clients
                 PROVE  /\ cl'[d].tx \in 0..lastTx' /\ cl'[d].snap <= lastIndex'
                        /\ cl'[d].tx # 0 => commitAt'[cl'[d].tx] = 0
      OBVIOUS
    <3>1. CASE d = c
      BY <1>1, <1>3, <1>4, <1>5, <2>4, <3>1
    <3>2. CASE d # c
      BY <1>1, <1>3, <1>5, <2>1, <3>2
    <3> QED
      BY <3>1, <3>2
  <2>6. \A d, e \in Clients : d # e /\ cl'[d].tx # 0 => cl'[d].tx # cl'[e].tx
    <3>1. \A d \in Clients : d # c => cl'[d].tx # lastTx + 1
      BY <1>3, <1>5, <2>1
    <3>2. \A d, e \in Clients : d # e /\ cl[d].tx # 0 => cl[d].tx # cl[e].tx
      BY DEF Inv, UserInv, Transactions
    <3> QED
      BY <1>4, <1>5, <3>1, <3>2
  <2>7. \A t \in Tx : commitAt'[t] <= lastIndex' /\ (t > lastTx' => commitAt'[t] = 0)
    <3>1. \A t \in Tx : t \in Nat
      BY DEF Tx
    <3> QED
      BY <1>1, <1>3, <2>2, <3>1
  <2> QED
    BY <2>5, <2>6, <2>7 DEF Transactions
<1> QED
  BY <1>2, <1>6, <1>7, <1>8, <1>9 DEF Inv, UserInv

LEMMA AbandonInv ==
    ASSUME Inv, NEW c \in Clients, Abandon(c)
    PROVE  Inv'
<1>1. /\ cl' = [cl EXCEPT ![c] = Idle]
      /\ UNCHANGED <<uncommitted, commits, cm, lastTx, lastIndex, commitAt, left>>
  BY DEF Abandon, log
<1>2. PoolInv' /\ BookType' /\ Grows /\ Stored'
  BY Resting DEF Abandon, log
<1>3. cl' \in [Clients -> Client] /\ cl'[c] = Idle
      /\ \A d \in Clients : d # c => cl'[d] = cl[d]
  BY <1>1, IdleType DEF Inv, UserInv, UserType
<1>4. UserType'
  BY <1>1, <1>3 DEF Inv, UserInv, UserType
<1>5. InHand'
  <2>1. \A i \in 1..Len(undo') : \E p \in Nat : There(undo'[i], p)
    BY <1>2 DEF Stored, LogsStored, Here, There
  <2>2. \A d \in Clients : ClientOK(cl[d], undo', owner', commitAt', exposed')
    BY <1>2, <2>1, ClientStays
  <2>3. \A d \in Clients : ClientOK(cl'[d], undo', owner', commitAt', exposed')
    BY <1>3, <2>2, IdleOK, IdleType
  <2> QED
    BY <2>3 DEF InHand
<1>6. Informed'
  BY <1>1, <1>2, InformedStays
<1>7. Transactions'
  <2>1. lastIndex \in Nat /\ lastTx \in Nat
    BY DEF Inv, UserInv, UserType
  <2>2. /\ \A d \in Clients : /\ cl[d].tx \in 0..lastTx /\ cl[d].snap <= lastIndex
                              /\ cl[d].tx # 0 => commitAt[cl[d].tx] = 0
        /\ \A d, e \in Clients : d # e /\ cl[d].tx # 0 => cl[d].tx # cl[e].tx
        /\ \A t \in Tx : commitAt[t] <= lastIndex /\ (t > lastTx => commitAt[t] = 0)
    BY DEF Inv, UserInv, Transactions
  <2>3. \A d \in Clients : /\ cl'[d].tx \in 0..lastTx /\ cl'[d].snap <= lastIndex
                           /\ cl'[d].tx # 0 => commitAt[cl'[d].tx] = 0
    BY <1>3, <2>1, <2>2, IdleType
  <2>4. \A d, e \in Clients : d # e /\ cl'[d].tx # 0 => cl'[d].tx # cl'[e].tx
    BY <1>3, <2>2, IdleType
  <2> QED
    BY <1>1, <2>2, <2>3, <2>4 DEF Transactions
<1> QED
  BY <1>2, <1>4, <1>5, <1>6, <1>7 DEF Inv, UserInv

LEMMA CommitInv ==
    ASSUME Inv, NEW c \in Clients, Commit(c)
    PROVE  Inv'
<1> DEFINE t == cl[c].tx
           m == [tx |-> t, at |-> lastIndex + 1]
<1>1. /\ t # 0 /\ lastIndex' = lastIndex + 1
      /\ commitAt' = [commitAt EXCEPT ![t] = lastIndex + 1]
      /\ commits' = Append(commits, m) /\ cl' = [cl EXCEPT ![c] = Idle]
      /\ UNCHANGED <<uncommitted, lastTx, cm, left, undo, undoCached, owner, exposed, block,
                     disk, writes>>
      /\ UNCHANGED <<pool, disk, writes, fl, owner, exposed>>
  BY DEF Commit, undoVars, pool
<1>2. t \in Tx /\ commitAt[t] = 0 /\ lastIndex \in Nat /\ lastTx \in Nat
  BY <1>1, OwnTx
<1>3. commitAt \in [Tx -> Nat]
  BY DEF Inv, BookType
<1>4. commitAt' \in [Tx -> Nat] /\ commitAt'[t] = lastIndex + 1
      /\ \A s \in Tx : s # t => commitAt'[s] = commitAt[s]
  BY <1>1, <1>2, <1>3
<1> HIDE DEF t
<1>5. BookType'
  BY <1>1, <1>4 DEF Inv, BookType
<1>6. Grows
  <2>1. Len(undo) \in Nat /\ Len(owner) \in Nat
    BY LenProperties DEF Inv, BookType
  <2>2. \A s \in Tx : commitAt'[s] = commitAt[s] \/ (commitAt[s] = 0 /\ commitAt'[s] > lastIndex)
    BY <1>2, <1>4
  <2> QED
    BY <1>1, <2>1, <2>2 DEF Grows
<1>7. PoolInv'
  BY <1>1, PoolIdle DEF Inv
<1>8. Stored'
  BY <1>1, <1>5, <1>6, PagesStay, LogsStay DEF Inv, Stored
<1>9. cl' \in [Clients -> Client] /\ cl'[c] = Idle
      /\ \A d \in Clients : d # c => cl'[d] = cl[d]
  BY <1>1, IdleType DEF Inv, UserInv, UserType
<1>10. commits \in Seq([tx : Tx, at : Nat]) /\ m \in [tx : Tx, at : Nat]
       /\ m.tx = t /\ m.at = lastIndex + 1
  BY <1>2 DEF Inv, UserInv, UserType
<1> HIDE DEF m
<1>11. /\ commits' \in Seq([tx : Tx, at : Nat]) /\ Len(commits') = Len(commits) + 1
       /\ Len(commits) \in Nat /\ \A i \in 1..Len(commits) : commits'[i] = commits[i]
       /\ commits'[Len(commits) + 1] = m
  BY <1>1, <1>10, AppendLast
<1>12. UserType'
  BY <1>1, <1>2, <1>9, <1>11 DEF Inv, UserInv, UserType
<1>13. InHand'
  <2>1. \A i \in 1..Len(undo') : \E p \in Nat : There(undo'[i], p)
    BY <1>8 DEF Stored, LogsStored, Here, There
  <2>2. \A d \in Clients : ClientOK(cl[d], undo', owner', commitAt', exposed')
    BY <1>5, <1>6, <2>1, ClientStays
  <2>3. \A d \in Clients : ClientOK(cl'[d], undo', owner', commitAt', exposed')
    BY <1>9, <2>2, IdleOK, IdleType
  <2> QED
    BY <2>3 DEF InHand
<1>14. Informed'
  <2>1. \A b, p : Here(b, p) => There(b, p)
    BY <1>5, <1>6, HereStays DEF Inv
  <2>2. cm.pc = "fill" => There(cm.got, Head(cm.pages))
    BY <2>1 DEF Inv, UserInv, Informed
  <2>3. cm.pages # <<>> => cm.tx \in Tx /\ cm.at # 0 /\ cm.at = commitAt'[cm.tx]
    BY <1>2, <1>4 DEF Inv, UserInv, Informed
  <2>4. \A i \in 1..Len(commits') :
          commits'[i].at # 0 /\ commits'[i].at = commitAt'[commits'[i].tx]
    <3> SUFFICES ASSUME NEW i \in 1..Len(commits')
                 PROVE  commits'[i].at # 0 /\ commits'[i].at = commitAt'[commits'[i].tx]
      OBVIOUS
    <3>1. CASE i = Len(commits) + 1
      BY <1>2, <1>4, <1>10, <1>11, <3>1
    <3>2. CASE i # Len(commits) + 1
      <4>1. i \in 1..Len(commits)
        BY <1>11, <3>2
      <4>2. commits[i] \in [tx : Tx, at : Nat]
        BY <1>10, <4>1, ElementOfSeq
      <4>3. commits[i].at # 0 /\ commits[i].at = commitAt[commits[i].tx]
        BY <4>1 DEF Inv, UserInv, Informed
      <4> QED
        BY <1>2, <1>4, <1>11, <4>1, <4>2, <4>3
    <3> QED
      BY <3>1, <3>2
  <2> QED
    BY <1>1, <2>2, <2>3, <2>4 DEF Inv, UserInv, Informed, Here, There
<1>15. Transactions'
  <2>1. /\ \A d \in Clients : /\ cl[d].tx \in 0..lastTx /\ cl[d].snap <= lastIndex
                              /\ cl[d].tx # 0 => commitAt[cl[d].tx] = 0
        /\ \A d, e \in Clients : d # e /\ cl[d].tx # 0 => cl[d].tx # cl[e].tx
        /\ \A s \in Tx : commitAt[s] <= lastIndex /\ (s > lastTx => commitAt[s] = 0)
    BY DEF Inv, UserInv, Transactions
  <2>2. \A d \in Clients : cl[d] \in Client /\ (cl[d].tx # 0 => cl[d].tx \in Tx)
                           /\ cl[d].snap \in Nat
    BY OwnTx
  <2>3. \A d \in Clients : /\ cl'[d].tx \in 0..lastTx /\ cl'[d].snap <= lastIndex + 1
                           /\ cl'[d].tx # 0 => commitAt'[cl'[d].tx] = 0
    <3> SUFFICES ASSUME NEW d \in Clients
                 PROVE  /\ cl'[d].tx \in 0..lastTx /\ cl'[d].snap <= lastIndex + 1
                        /\ cl'[d].tx # 0 => commitAt'[cl'[d].tx] = 0
      OBVIOUS
    <3>1. CASE d = c
      BY <1>2, <1>9, <3>1, IdleType
    <3>2. CASE d # c
      <4>1. cl'[d] = cl[d]
        BY <1>9, <3>2
      <4>2. cl[d].tx # 0 => cl[d].tx # t
        BY <2>1, <3>2 DEF t
      <4>3. cl[d].tx # 0 => commitAt'[cl[d].tx] = 0
        BY <1>4, <2>1, <2>2, <4>2
      <4>4. cl[d].snap <= lastIndex + 1
        BY <1>2, <2>1, <2>2
      <4> QED
        BY <2>1, <4>1, <4>3, <4>4
    <3> QED
      BY <3>1, <3>2
  <2>4. \A d, e \in Clients : d # e /\ cl'[d].tx # 0 => cl'[d].tx # cl'[e].tx
    BY <1>9, <2>1, IdleType
  <2>5. \A s \in Tx : commitAt'[s] <= lastIndex + 1 /\ (s > lastTx => commitAt'[s] = 0)
    <3>1. t \in 0..lastTx
      BY <2>1 DEF t
    <3>2. \A s \in Tx : s \in Nat /\ commitAt[s] \in Nat
      BY <1>3 DEF Tx
    <3> QED
      BY <1>2, <1>4, <2>1, <3>1, <3>2
  <2> QED
    BY <1>1, <2>3, <2>4, <2>5 DEF Transactions
<1> QED
  BY <1>5, <1>7, <1>8, <1>12, <1>13, <1>14, <1>15 DEF Inv, UserInv

-----------------------------------------------------------------------------
(* Reading: the cache, and blocks read from disk.                          *)

\* A version that the snapshot does not cover is not among those it must show: they are
\* in the log it links to, or before.
LEMMA NextLog ==
    ASSUME NEW u \in Seq(Blank), NEW o \in Seq(Maker), NEW a \in [Tx -> Nat], NEW x,
           NEW b, NEW p, Version(b, p, u, o, a, x), b.undo # 0,
           \E q \in Nat : Version(u[b.undo], q, u, o, a, x)
    PROVE  /\ b.undo \in 1..Len(u) /\ Version(u[b.undo], p, u, o, a, x)
           /\ \A snap \in Nat :
                /\ b.commit > snap /\ p \notin x
                /\ \A v \in Shown(p, snap, o, a) : v <= b.data
                => \A v \in Shown(p, snap, o, a) : v <= u[b.undo].data
<1>0. b.undo # 0
  OBVIOUS
<1>1. b # ZeroBlock
  BY <1>0, ZeroType, Zenon
<1>2. /\ b \in [commit : Nat, tx : Tx, undo : 1..Len(u), data : 1..Len(o)]
      /\ o[b.data] = [page |-> p, tx |-> b.tx]
      /\ b.commit \in {0, a[b.tx]}
      /\ u[b.undo].data # 0 => o[u[b.undo].data].page = p
      /\ p \in x \/ \A v \in 1..Len(o) : o[v].page = p /\ v < b.data => v <= u[b.undo].data
  BY <1>1 DEF Version
<1>3. PICK q \in Nat : Version(u[b.undo], q, u, o, a, x)
  OBVIOUS
<1>4. Version(u[b.undo], p, u, o, a, x)
  <2>1. CASE u[b.undo] = ZeroBlock
    BY <2>1 DEF Version
  <2>2. CASE u[b.undo] # ZeroBlock
    <3> DEFINE l == u[b.undo]
    <3>0. /\ l \in [commit : Nat, tx : Tx, undo : 1..Len(u), data : 1..Len(o)]
          /\ o[l.data] = [page |-> q, tx |-> l.tx]
      BY <1>3, <2>2 DEF Version
    <3>1. u[b.undo].data \in 1..Len(o) /\ o[u[b.undo].data].page = q
      BY <3>0
    <3>2. u[b.undo].data # 0
      BY <3>1
    <3>3. p = q
      BY <1>2, <3>1, <3>2
    <3> QED
      BY <1>3, <3>3, Zenon
  <2> QED
    BY <2>1, <2>2
<1>5. ASSUME NEW snap \in Nat, b.commit > snap, p \notin x,
             \A v \in Shown(p, snap, o, a) : v <= b.data,
             NEW v \in Shown(p, snap, o, a)
      PROVE  v <= u[b.undo].data
  <2>1. v \in 1..Len(o) /\ o[v].page = p /\ a[o[v].tx] \in 1..snap
    BY DEF Shown
  <2>2. a[b.tx] > snap /\ b.data \in 1..Len(o)
    BY <1>2, <1>5
  <2>3. o[b.data].tx = b.tx
    BY <1>2
  <2>4. v # b.data
    BY <2>1, <2>2, <2>3
  <2>5. v <= b.data
    BY <1>5
  <2>6. v < b.data
    BY <2>1, <2>2, <2>4, <2>5
  <2> QED
    BY <1>2, <1>5, <2>1, <2>6
<1> QED
  BY <1>2, <1>4, <1>5

\* What Serve makes of a client that has come upon block b of page p.
LEMMA Served ==
    ASSUME Inv, BookType', LogsStored', NEW c \in Clients, cl[c].tx # 0,
           NEW p \in Pages, NEW b \in Blank, There(b, p), Serve(c, p, b),
           p \notin exposed' => \A v \in 1..Len(owner') : owner'[v].page = p => v <= b.data
    PROVE  \E w \in Client : /\ Goto(c, w) /\ w.tx = cl[c].tx /\ w.snap = cl[c].snap
                             /\ ClientOK(w, undo', owner', commitAt', exposed')
<1>1. cl[c] \in Client /\ cl[c].snap \in Nat /\ p \in Nat
  BY OwnTx, PagesAssumption
<1>2. undo' \in Seq(Blank) /\ owner' \in Seq(Maker) /\ commitAt' \in [Tx -> Nat]
  BY DEF BookType
<1>3. b \in [commit : Nat, tx : Nat, undo : Nat, data : Nat]
  BY DEF Blank
<1>4. \A v \in Shown(p, cl[c].snap, owner', commitAt') : p \notin exposed' => v <= b.data
  BY DEF Shown
<1>5. CASE b.commit <= cl[c].snap
  <2> DEFINE w == [cl[c] EXCEPT !.pc = "done", !.page = p, !.got = b]
  <2>1. Goto(c, w)
    BY <1>1, <1>3, <1>5 DEF Serve
  <2>2. /\ w \in Client /\ w.tx = cl[c].tx /\ w.snap = cl[c].snap /\ w.pc = "done"
        /\ w.page = p /\ w.got = b
    BY <1>1 DEF Client, Steps
  <2> HIDE DEF w
  <2>3. ClientOK(w, undo', owner', commitAt', exposed')
    BY <1>4, <2>2 DEF ClientOK, Holds, Finds
  <2> QED
    BY <2>1, <2>2, <2>3
<1>6. CASE b.commit > cl[c].snap /\ b.undo # 0
  <2> DEFINE w == [cl[c] EXCEPT !.pc = "walk", !.page = p, !.got = ZeroBlock, !.cur = b.undo,
                                !.first = b.undo]
  <2>1. Goto(c, w)
    BY <1>1, <1>3, <1>6 DEF Serve
  <2>2. /\ w \in Client /\ w.tx = cl[c].tx /\ w.snap = cl[c].snap /\ w.pc = "walk"
        /\ w.page = p /\ w.cur = b.undo /\ w.first = b.undo
    BY <1>1, <1>3, ZeroType DEF Client, Steps
  <2> HIDE DEF w
  <2>3. b.undo \in 1..Len(undo')
    BY <1>6, ZeroType DEF There, Version
  <2>4. PICK q \in Nat : There(undo'[b.undo], q)
    BY <2>3 DEF LogsStored, Here, There
  <2>5. /\ b.undo \in 1..Len(undo') /\ There(undo'[b.undo], p)
        /\ p \notin exposed' =>
             \A v \in Shown(p, cl[c].snap, owner', commitAt') : v <= undo'[b.undo].data
    <3> DEFINE u == undo'
               o == owner'
               a == commitAt'
               x == exposed'
    <3>1. Version(b, p, u, o, a, x) /\ Version(u[b.undo], q, u, o, a, x)
      BY <2>4 DEF There
    <3>2. u \in Seq(Blank) /\ o \in Seq(Maker) /\ a \in [Tx -> Nat]
      BY <1>2
    <3>3. \A v \in Shown(p, cl[c].snap, o, a) : p \notin x => v <= b.data
      BY <1>4
    <3> HIDE DEF u, o, a, x
    <3>4. b.undo \in 1..Len(u) /\ Version(u[b.undo], p, u, o, a, x)
      BY <1>6, <3>1, <3>2, NextLog
    <3>5. p \notin x => \A v \in Shown(p, cl[c].snap, o, a) : v <= u[b.undo].data
      BY <1>1, <1>6, <3>1, <3>2, <3>3, NextLog
    <3> QED
      BY <3>4, <3>5 DEF There, u, o, a, x
  <2>6. ClientOK(w, undo', owner', commitAt', exposed')
    BY <2>2, <2>5 DEF ClientOK, Holds, Finds, There
  <2> QED
    BY <2>1, <2>2, <2>6
<1>7. CASE b.commit > cl[c].snap /\ b.undo = 0
  <2> DEFINE w == [cl[c] EXCEPT !.pc = "idle", !.page = 0, !.got = ZeroBlock, !.cur = 0,
                                !.first = 0]
  <2>1. Goto(c, w)
    BY <1>1, <1>3, <1>7 DEF Serve, Ready
  <2>2. w \in Client /\ w.tx = cl[c].tx /\ w.snap = cl[c].snap /\ w.pc = "idle"
    BY <1>1, ZeroType DEF Client, Steps
  <2> HIDE DEF w
  <2> QED
    BY <2>1, <2>2, IdleOK
<1> QED
  BY <1>1, <1>3, <1>5, <1>6, <1>7

\* What Ready makes of a client.
LEMMA Readied ==
    ASSUME Inv, NEW c \in Clients, Ready(c)
    PROVE  \E w \in Client : /\ Goto(c, w) /\ w.tx = cl[c].tx /\ w.snap = cl[c].snap
                             /\ ClientOK(w, undo', owner', commitAt', exposed')
<1> DEFINE w == [cl[c] EXCEPT !.pc = "idle", !.page = 0, !.got = ZeroBlock, !.cur = 0,
                              !.first = 0]
<1>1. cl[c] \in Client
  BY OwnTx
<1>2. w \in Client /\ w.tx = cl[c].tx /\ w.snap = cl[c].snap /\ w.pc = "idle"
  BY <1>1, ZeroType DEF Client, Steps
<1>3. Goto(c, w)
  BY DEF Ready
<1> HIDE DEF w
<1> QED
  BY <1>2, <1>3, IdleOK

\* A fill that overtakes nothing leaves the newest version where it was found.
LEMMA FillKeeps ==
    ASSUME PoolInv, exposed \in SUBSET Pages, NEW p \in Pages, NEW b \in Blank, Fill(p, b),
           UNCHANGED <<disk, writes, fl, owner>>
    PROVE  /\ PoolInv' /\ exposed' \in SUBSET Pages /\ exposed \subseteq exposed'
           /\ block' = [block EXCEPT ![p] = b]
           /\ p \notin exposed' => \A v \in 1..Len(owner) : owner[v].page = p => v <= b.data
<1>1. /\ Put(p) /\ block' = [block EXCEPT ![p] = b] /\ UNCHANGED dirty
      /\ exposed' = IF b.data # Newest(p) THEN exposed \cup {p} ELSE exposed
  BY DEF Fill
<1>2. exposed' \in SUBSET Pages /\ exposed \subseteq exposed'
      /\ (p \notin exposed' => b.data = Newest(p) /\ p \notin exposed)
  BY <1>1
<1>3. /\ cached' \in Seq(Pages) /\ evicted' \in SUBSET Pages /\ Held' = Held \cup {p}
      /\ DirtyIsHeld'
  BY <1>1, PutHolds DEF PoolInv
<1>4. block' \in [Pages -> Blank] /\ block'[p] = b
      /\ \A q \in Pages : q # p => block'[q] = block[q]
  BY <1>1 DEF PoolInv, PoolType
<1>5. PoolType'
  BY <1>1, <1>3, <1>4 DEF PoolInv, PoolType
<1>6. \A q \in Pages : LastWritten(q)' = LastWritten(q)
  BY DEF LastWritten, Sent
<1>7. \A q \in Pages : q # p \/ p \notin exposed' => Newest(q)' = Newest(q)
  BY <1>2, <1>3, <1>4, <1>6 DEF Newest
<1>8. CleanIsWritten'
  <2> SUFFICES ASSUME NEW q \in Held', q \notin dirty', q \notin exposed'
               PROVE  block'[q].data = LastWritten(q)'
    BY DEF CleanIsWritten
  <2>1. q \in Pages
    BY <1>5, RangeOfSeq DEF PoolType, Held, ToSet, Range
  <2>2. q \notin dirty /\ q \notin exposed
    BY <1>1, <1>2
  <2>3. q \in Held => block[q].data = LastWritten(q)
    BY <2>2 DEF PoolInv, CleanIsWritten
  <2>4. Newest(q) = LastWritten(q)
    BY <2>3 DEF Newest
  <2>5. Newest(q)' = Newest(q)
    BY <1>7, <2>1
  <2> QED
    BY <1>6, <2>1, <2>4, <2>5 DEF Newest
<1>9. Latest'
  <2>1. \A q \in Pages : q \notin exposed' => q \notin exposed /\ Newest(q)' = Newest(q)
    BY <1>2, <1>7
  <2> QED
    BY <2>1 DEF PoolInv, Latest
<1>10. Ordered'
  BY <1>2 DEF PoolInv, Ordered
<1>11. Covered'
  <2>1. FlushIsSafe'
    BY <1>2 DEF PoolInv, Covered, FlushIsSafe
  <2> QED
    BY <1>2, <1>6, <2>1 DEF PoolInv, Covered
<1>12. p \notin exposed' => \A v \in 1..Len(owner) : owner[v].page = p => v <= b.data
  BY <1>2 DEF PoolInv, Latest
<1> QED
  BY <1>1, <1>2, <1>3, <1>5, <1>8, <1>9, <1>10, <1>11, <1>12 DEF PoolInv

LEMMA BlockSet ==
    ASSUME BookType, BookType', Grows, PagesStored, WritesStored, block \in [Pages -> Blank],
           NEW p \in Pages, NEW b, There(b, p), block' = [block EXCEPT ![p] = b],
           UNCHANGED <<disk, writes>>
    PROVE  PagesStored' /\ WritesStored'
<1>1. \A c, q : Here(c, q) => There(c, q)
  BY HereStays
<1>2. \A q \in Pages : There(block'[q], q) /\ There(disk[q], q)
  BY <1>1 DEF PagesStored
<1>3. \A i \in 1..Len(writes) : There(writes[i].block, writes[i].page)
  BY <1>1 DEF WritesStored
<1> QED
  BY <1>2, <1>3 DEF PagesStored, WritesStored, There, Here

LEMMA HeldPages == PoolType => Held \subseteq Pages
BY RangeOfSeq DEF PoolType, Held, ToSet, Range

LEMMA GetInv ==
    ASSUME Inv, NEW c \in Clients, NEW p \in Pages, Get(c, p)
    PROVE  Inv'
<1>1. /\ cl[c].tx # 0
      /\ UNCHANGED <<block, dirty, undoVars, uncommitted, disk, writes, log, cm, fl, owner,
                     exposed, left>>
      /\ UNCHANGED <<undo, undoCached, owner, commitAt, exposed>>
  BY DEF Get, log, undoVars
<1>2. BookType' /\ Grows
  BY <1>1, Quiet DEF Inv, BookType
<1>3. Stored'
  BY <1>1, <1>2, PagesStay, LogsStay DEF Inv, Stored
<1>4. \E w \in Client : /\ Goto(c, w) /\ w.tx = cl[c].tx /\ w.snap = cl[c].snap
                        /\ ClientOK(w, undo', owner', commitAt', exposed')
  <2>1. CASE p \in Held /\ Put(p) /\ Serve(c, p, block[p])
    <3>1. There(block[p], p) /\ block[p] \in Blank
      BY <1>2, HereStays DEF Inv, Stored, PagesStored, PoolInv, PoolType
    <3>2. p \notin exposed' => \A v \in 1..Len(owner') : owner'[v].page = p => v <= block[p].data
      BY <1>1, <2>1 DEF Inv, PoolInv, Latest, Newest
    <3> QED
      BY <1>1, <1>2, <1>3, <2>1, <3>1, <3>2, Served DEF Stored
  <2>2. CASE Goto(c, [cl[c] EXCEPT !.pc = "read", !.page = p])
    <3> DEFINE w == [cl[c] EXCEPT !.pc = "read", !.page = p]
    <3>1. /\ w \in Client /\ w.tx = cl[c].tx /\ w.snap = cl[c].snap /\ w.pc = "read"
          /\ w.page = p
      BY OwnTx, PagesAssumption DEF Client, Steps
    <3> HIDE DEF w
    <3>2. ClientOK(w, undo', owner', commitAt', exposed')
      BY <1>1, <3>1 DEF ClientOK, Holds, Finds
    <3> QED
      BY <2>2, <3>1, <3>2 DEF w
  <2> QED
    BY <2>1, <2>2 DEF Get
<1>5. UserInv'
  <2>1. left' \in Left /\ left'.tx = left.tx /\ uncommitted' \in [Tx -> Seq(Pages)]
    BY <1>1 DEF Inv, UserInv, UserType, Left
  <2> QED
    BY <1>1, <1>2, <1>3, <1>4, <2>1, ClientMoves DEF Stored
<1>6. PoolInv'
  <2>1. CASE p \in Held /\ Put(p)
    BY <1>1, <2>1, PoolUsed DEF Inv
  <2>2. CASE UNCHANGED <<cached, evicted>>
    BY <1>1, <2>2, PoolIdle DEF Inv, pool
  <2> QED
    BY <2>1, <2>2 DEF Get
<1> QED
  BY <1>2, <1>3, <1>5, <1>6 DEF Inv

LEMMA GetReadInv ==
    ASSUME Inv, NEW c \in Clients, GetRead(c)
    PROVE  Inv'
<1>1. /\ cl[c].pc = "read" /\ UNCHANGED <<log, cm, uncommitted>>
  BY DEF GetRead
<1>2. PoolInv' /\ BookType' /\ Grows /\ Stored'
  BY Resting DEF GetRead, log
<1>3. left' \in Left /\ left'.tx = left.tx /\ uncommitted' \in [Tx -> Seq(Pages)]
  BY LessLeft, <1>1 DEF GetRead, Inv, UserInv, UserType
<1>4. cl[c].page \in Pages /\ cl[c].tx # 0
  BY <1>1 DEF Inv, UserInv, InHand, ClientOK
<1>5. \E w \in Client : /\ Goto(c, w) /\ w.tx = cl[c].tx /\ w.snap = cl[c].snap
                        /\ ClientOK(w, undo', owner', commitAt', exposed')
  <2>1. CASE Goto(c, [cl[c] EXCEPT !.pc = "fill", !.got = disk[cl[c].page]])
    <3> DEFINE b == disk[cl[c].page]
               w == [cl[c] EXCEPT !.pc = "fill", !.got = b]
    <3>1. b \in Blank /\ There(b, cl[c].page)
      BY <1>2, <1>4, HereStays DEF Inv, Stored, PagesStored, PoolInv, PoolType
    <3> HIDE DEF b
    <3>2. /\ w \in Client /\ w.tx = cl[c].tx /\ w.snap = cl[c].snap /\ w.pc = "fill"
          /\ w.page = cl[c].page /\ w.got = b
      BY <3>1, OwnTx DEF Client, Steps
    <3> HIDE DEF w
    <3>3. ClientOK(w, undo', owner', commitAt', exposed')
      BY <1>4, <3>1, <3>2 DEF ClientOK, Holds, Finds, There
    <3> QED
      BY <2>1, <3>2, <3>3 DEF w, b
  <2>2. CASE Ready(c)
    BY <2>2, Readied
  <2> QED
    BY <2>1, <2>2 DEF GetRead
<1> QED
  BY <1>1, <1>2, <1>3, <1>5, ClientMoves DEF Inv, Stored

LEMMA GetFillInv ==
    ASSUME Inv, NEW c \in Clients, GetFill(c)
    PROVE  Inv'
<1> DEFINE p == cl[c].page
           b == cl[c].got
<1>1. /\ cl[c].pc = "fill" /\ Fill(p, b) /\ Serve(c, p, b)
      /\ UNCHANGED <<undo, undoCached, uncommitted, disk, writes, log, cm, fl, owner, left,
                     commitAt>>
  BY DEF GetFill, undoVars, log
<1>2. p \in Pages /\ cl[c].tx # 0 /\ b \in Blank
  BY <1>1, OwnTx DEF Inv, UserInv, InHand, ClientOK, Client
<1>3. exposed \in SUBSET Pages
  BY DEF Inv, BookType
<1>4. /\ PoolInv' /\ exposed' \in SUBSET Pages /\ exposed \subseteq exposed'
      /\ block' = [block EXCEPT ![p] = b]
      /\ p \notin exposed' => \A v \in 1..Len(owner) : owner[v].page = p => v <= b.data
  BY <1>1, <1>2, <1>3, FillKeeps DEF Inv
<1>5. BookType'
  BY <1>1, <1>4 DEF Inv, BookType
<1>6. Grows
  <2>1. Len(undo) \in Nat /\ Len(owner) \in Nat
    BY LenProperties DEF Inv, BookType
  <2> QED
    BY <1>1, <1>4, <2>1 DEF Grows
<1>7. Here(b, p)
  BY <1>1 DEF Inv, UserInv, InHand, ClientOK, Holds, Here
<1>8. There(b, p)
  BY <1>5, <1>6, <1>7, HereStays DEF Inv
<1> HIDE DEF b, p
<1>9. Stored'
  <2>1. PagesStored' /\ WritesStored'
    BY <1>1, <1>2, <1>4, <1>5, <1>6, <1>8, BlockSet DEF Inv, Stored, PoolInv, PoolType
  <2>2. LogsStored' /\ CacheStored'
    BY <1>1, <1>5, <1>6, LogsStay DEF Inv, Stored
  <2> QED
    BY <2>1, <2>2 DEF Stored
<1>10. UserInv'
  <2>1. left' \in Left /\ left'.tx = left.tx /\ uncommitted' \in [Tx -> Seq(Pages)]
    BY <1>1 DEF Inv, UserInv, UserType, Left
  <2>2. p \notin exposed' => \A v \in 1..Len(owner') : owner'[v].page = p => v <= b.data
    BY <1>1, <1>4
  <2>3. \E w \in Client : /\ Goto(c, w) /\ w.tx = cl[c].tx /\ w.snap = cl[c].snap
                          /\ ClientOK(w, undo', owner', commitAt', exposed')
    BY <1>1, <1>2, <1>5, <1>8, <1>9, <2>2, Served DEF Stored
  <2> QED
    BY <1>1, <1>5, <1>6, <1>9, <2>1, <2>3, ClientMoves DEF Stored
<1> QED
  BY <1>4, <1>5, <1>9, <1>10 DEF Inv

LEMMA EndInv ==
    ASSUME Inv, NEW c \in Clients, End(c)
    PROVE  Inv'
<1>1. Ready(c) /\ UNCHANGED <<log, cm, uncommitted, left>>
  BY DEF End
<1>2. PoolInv' /\ BookType' /\ Grows /\ Stored'
  BY Resting DEF End, log
<1>3. left' \in Left /\ left'.tx = left.tx /\ uncommitted' \in [Tx -> Seq(Pages)]
  BY <1>1 DEF Inv, UserInv, UserType, Left
<1>4. \E w \in Client : /\ Goto(c, w) /\ w.tx = cl[c].tx /\ w.snap = cl[c].snap
                        /\ ClientOK(w, undo', owner', commitAt', exposed')
  BY <1>1, Readied
<1> QED
  BY <1>1, <1>2, <1>3, <1>4, ClientMoves DEF Inv, Stored

-----------------------------------------------------------------------------
(* Reading: the undo logs.                                                 *)

\* An LRU cache holds what it held before, or what was just used.
LEMMA Kept ==
    ASSUME NEW S, NEW s \in Seq(S), NEW old \in SUBSET (1..Len(s)), NEW x \in S, NEW n
    PROVE  LET m == Trim(MoveLast(s, old, x), n) IN
           m \in Seq(S) /\ \A i \in 1..Len(m) : m[i] = x \/ \E k \in 1..Len(s) : m[i] = s[k]
<1> DEFINE r == MoveLast(s, old, x)
<1>1. /\ r \in Seq(S) /\ Len(r) \in Nat \ {0} /\ r[Len(r)] = x /\ Len(s) \in Nat
      /\ Len(r) = IF old = {} THEN Len(s) + 1 ELSE Len(s)
      /\ old = {} => \A i \in 1..Len(s) : r[i] = s[i]
      /\ old # {} => \E k \in old : Closed(r, s, k)
  BY Moved DEF MovedTo
<1> HIDE DEF r
<1>2. \A i \in 1..Len(r) : r[i] = x \/ \E k \in 1..Len(s) : r[i] = s[k]
  <2>1. CASE old = {}
    BY <1>1, <2>1
  <2>2. CASE old # {}
    <3>1. PICK k \in old : Closed(r, s, k)
      BY <1>1, <2>2
    <3>2. ASSUME NEW i \in 1..Len(r), i # Len(r) PROVE \E j \in 1..Len(s) : r[i] = s[j]
      <4>1. i \in 1..(Len(s) - 1) /\ i \in 1..Len(s) /\ i + 1 \in 1..Len(s)
        BY <1>1, <2>2, <3>2
      <4>2. r[i] = IF i < k THEN s[i] ELSE s[i + 1]
        BY <3>1, <4>1 DEF Closed
      <4> QED
        BY <4>1, <4>2
    <3> QED
      BY <1>1, <3>2
  <2> QED
    BY <2>1, <2>2
<1>3. r # <<>>
  BY <1>1, NoEntry
<1>4. /\ Tail(r) \in Seq(S) /\ Len(Tail(r)) = Len(r) - 1
      /\ \A i \in 1..Len(Tail(r)) : Tail(r)[i] = r[i + 1]
  BY <1>1, <1>3, HeadLeaves
<1>5. \A i \in 1..Len(Tail(r)) : i + 1 \in 1..Len(r)
  BY <1>1, <1>4
<1> QED
  BY <1>1, <1>2, <1>4, <1>5 DEF Trim, r

\* The log a search reads is the one it is at, or the first of its chain.
LEMMA ReachedIs ==
    ASSUME Inv, NEW w, w.cur \in 1..Len(undo), w.first \in 1..Len(undo)
    PROVE  LET e == Reached(w) IN
           /\ e \in Log /\ Copy(e, undo) /\ \E q \in Nat : Here(e.log, q)
           /\ e.at = IF Places(w.cur) = {} THEN w.first ELSE w.cur
<1> DEFINE e == Reached(w)
<1>1. undo \in Seq(Blank) /\ undoCached \in Seq(Log)
  BY DEF Inv, BookType
<1>2. DOMAIN undoCached = 1..Len(undoCached) /\ Len(undo) \in Nat
  BY <1>1, LenProperties
<1>3. CASE Places(w.cur) = {}
  <2>1. e = [at |-> w.first, log |-> undo[w.first]]
    BY <1>3 DEF Reached
  <2>2. undo[w.first] \in Blank
    BY <1>1, ElementOfSeq
  <2>3. \E q \in Nat : Here(undo[w.first], q)
    BY DEF Inv, Stored, LogsStored
  <2> QED
    BY <1>2, <1>3, <2>1, <2>2, <2>3 DEF Log, Copy
<1>4. CASE Places(w.cur) # {}
  <2> DEFINE k == CHOOSE k \in Places(w.cur) : TRUE
  <2>1. e = undoCached[k]
    BY <1>4 DEF Reached
  <2>2. k \in Places(w.cur)
    BY <1>4
  <2>3. k \in 1..Len(undoCached) /\ undoCached[k].at = w.cur
    BY <1>2, <2>2 DEF Places
  <2> HIDE DEF k
  <2>4. undoCached[k] \in Log
    BY <1>1, <2>3, ElementOfSeq
  <2>5. Copy(undoCached[k], undo) /\ \E q \in Nat : Here(undoCached[k].log, q)
    BY <2>3 DEF Inv, Stored, CacheStored
  <2> QED
    BY <1>4, <2>1, <2>3, <2>4, <2>5
<1> QED
  BY <1>3, <1>4

\* A log that is read is cached.
LEMMA CacheKept ==
    ASSUME Inv, UNCHANGED <<undo, owner, commitAt, exposed>>, NEW e \in Log, Copy(e, undo),
           \E q \in Nat : Here(e.log, q), Keep(e)
    PROVE  undoCached' \in Seq(Log) /\ CacheStored'
<1>1. undoCached \in Seq(Log) /\ DOMAIN undoCached = 1..Len(undoCached)
  BY LenProperties DEF Inv, BookType
<1>2. Places(e.at) \in SUBSET (1..Len(undoCached))
  BY <1>1 DEF Places
<1>3. undoCached' = Trim(MoveLast(undoCached, Places(e.at), e), UndoCacheSize)
  BY DEF Keep
<1>4. undoCached' \in Seq(Log)
      /\ \A i \in 1..Len(undoCached') :
           undoCached'[i] = e \/ \E k \in 1..Len(undoCached) : undoCached'[i] = undoCached[k]
  BY <1>1, <1>2, <1>3, Kept
<1>5. \A k \in 1..Len(undoCached) :
        Copy(undoCached[k], undo) /\ \E q \in Nat : Here(undoCached[k].log, q)
  BY DEF Inv, Stored, CacheStored
<1>6. \A i \in 1..Len(undoCached') :
        Copy(undoCached'[i], undo) /\ \E q \in Nat : Here(undoCached'[i].log, q)
  BY <1>4, <1>5
<1> QED
  BY <1>4, <1>6 DEF CacheStored, Here

LEMMA WalkInv ==
    ASSUME Inv, NEW c \in Clients, Walk(c)
    PROVE  Inv'
<1> DEFINE w == cl[c]
           e == Reached(w)
           l == e.log
<1>1. /\ w.pc = "walk"
      /\ UNCHANGED <<undo, uncommitted, log, cm, owner, exposed, commitAt, block, disk, writes>>
      /\ UNCHANGED <<pool, disk, writes, fl, owner, exposed>>
  BY DEF Walk, log, pool
<1>2. w \in Client /\ w.snap \in Nat
  BY OwnTx
<1>3. /\ w.cur \in 1..Len(undo) /\ Here(undo[w.cur], w.page)
      /\ w.first \in 1..Len(undo) /\ Here(undo[w.first], w.page)
      /\ w.page \in Pages /\ w.tx # 0
      /\ w.page \notin exposed => \A v \in Shown(w.page, w.snap, owner, commitAt) :
           v <= undo[w.cur].data /\ v <= undo[w.first].data
  BY <1>1 DEF Inv, UserInv, InHand, ClientOK, Holds, Finds, Here
<1>4. /\ e \in Log /\ Copy(e, undo) /\ \E q \in Nat : Here(e.log, q)
      /\ e.at = IF Places(w.cur) = {} THEN w.first ELSE w.cur
  BY <1>3, ReachedIs
<1>5. Walk(c) <=>
      /\ \/ (Missing(w) \/ (l.commit > w.snap /\ l.undo = 0)) /\ Ready(c)
            /\ UNCHANGED <<undoCached, left>>
         \/ Places(w.cur) = {} /\ Ready(c) /\ Fail /\ UNCHANGED undoCached
         \/ /\ ~Missing(w) /\ l.commit <= w.snap /\ Keep(e)
            /\ Goto(c, [w EXCEPT !.pc = "done", !.got = l, !.cur = 0, !.first = 0])
            /\ UNCHANGED left
         \/ /\ ~Missing(w) /\ l.commit > w.snap /\ l.undo # 0 /\ Keep(e)
            /\ Goto(c, [w EXCEPT !.cur = l.undo]) /\ UNCHANGED left
      /\ w.pc = "walk"
      /\ UNCHANGED <<layout, pool, undo, uncommitted, disk, writes, log, cm, fl, owner,
                     exposed>>
  BY DEF Walk
<1> HIDE DEF w, e
<1>6. /\ l \in Blank /\ Here(l, w.page)
      /\ w.page \notin exposed => \A v \in Shown(w.page, w.snap, owner, commitAt) : v <= l.data
  <2>1. l \in Blank /\ l.data = undo[e.at].data
    BY <1>4 DEF Log, Copy
  <2>2. Here(undo[e.at], w.page)
    BY <1>3, <1>4
  <2>3. PICK q \in Nat : Here(l, q)
    BY <1>4
  <2>4. Here(l, w.page)
    BY <2>1, <2>2, <2>3, SamePage DEF Here
  <2> QED
    BY <1>3, <1>4, <2>1, <2>4
<1>7. undoCached' \in Seq(Log) /\ CacheStored'
  <2>1. CASE UNCHANGED undoCached
    BY <1>1, <2>1 DEF Inv, BookType, Stored, CacheStored, Here
  <2>2. CASE Keep(e)
    BY <1>1, <1>4, <2>2, CacheKept
  <2> QED
    BY <1>5, <2>1, <2>2
<1>8. BookType' /\ Grows
  BY <1>1, <1>7, Quiet DEF Inv
<1>9. PoolInv'
  BY <1>1, PoolIdle DEF Inv
<1>10. Stored'
  <2>1. PagesStored' /\ WritesStored'
    BY <1>1, <1>8, PagesStay DEF Inv, Stored
  <2>2. LogsStored'
    BY <1>1 DEF Inv, Stored, LogsStored, Here
  <2> QED
    BY <1>7, <2>1, <2>2 DEF Stored
<1>11. \E x \in Client : /\ Goto(c, x) /\ x.tx = w.tx /\ x.snap = w.snap
                         /\ ClientOK(x, undo', owner', commitAt', exposed')
  <2>1. CASE Ready(c)
    BY <2>1, Readied DEF w
  <2>2. CASE Goto(c, [w EXCEPT !.pc = "done", !.got = l, !.cur = 0, !.first = 0])
    <3> DEFINE x == [w EXCEPT !.pc = "done", !.got = l, !.cur = 0, !.first = 0]
    <3>1. /\ x \in Client /\ x.tx = w.tx /\ x.snap = w.snap /\ x.pc = "done"
          /\ x.page = w.page /\ x.got = l
      BY <1>2, <1>6 DEF Client, Steps
    <3> HIDE DEF x
    <3>2. ClientOK(x, undo', owner', commitAt', exposed')
      BY <1>1, <1>3, <1>6, <3>1 DEF ClientOK, Holds, Finds
    <3> QED
      BY <2>2, <3>1, <3>2 DEF x
  <2>3. CASE l.commit > w.snap /\ l.undo # 0 /\ Goto(c, [w EXCEPT !.cur = l.undo])
    <3> DEFINE x == [w EXCEPT !.cur = l.undo]
    <3>1. /\ x \in Client /\ x.tx = w.tx /\ x.snap = w.snap /\ x.pc = "walk"
          /\ x.page = w.page /\ x.cur = l.undo /\ x.first = w.first
      BY <1>1, <1>2, <1>6 DEF Client, Blank
    <3> HIDE DEF x, l
    <3>2. undo \in Seq(Blank) /\ owner \in Seq(Maker) /\ commitAt \in [Tx -> Nat]
      BY DEF Inv, BookType
    <3>3. l.undo \in 1..Len(undo)
      BY <1>6, <2>3, ZeroType DEF Here, Version
    <3>4. \E q \in Nat : Here(undo[l.undo], q)
      BY <3>3 DEF Inv, Stored, LogsStored
    <3>5. Here(undo[l.undo], w.page)
      BY <1>6, <2>3, <3>2, <3>4, NextLog DEF Here
    <3>6. w.page \notin exposed =>
            \A v \in Shown(w.page, w.snap, owner, commitAt) : v <= undo[l.undo].data
      BY <1>2, <1>6, <2>3, <3>2, <3>4, NextLog DEF Here
    <3>7. ClientOK(x, undo, owner, commitAt, exposed)
      BY <1>3, <3>1, <3>3, <3>5, <3>6 DEF ClientOK, Holds, Finds, Here
    <3> QED
      BY <1>1, <2>3, <3>1, <3>7 DEF x
  <2> QED
    BY <1>5, <2>1, <2>2, <2>3
<1>12. UserInv'
  <2>1. left' \in Left /\ left'.tx = left.tx
    BY <1>5, LessLeft
  <2>2. uncommitted' \in [Tx -> Seq(Pages)]
    BY <1>1 DEF Inv, UserInv, UserType
  <2> QED
    BY <1>1, <1>8, <1>10, <1>11, <2>1, <2>2, ClientMoves DEF Stored, w
<1> QED
  BY <1>8, <1>9, <1>10, <1>12 DEF Inv

-----------------------------------------------------------------------------
(* Inserting a version.                                                    *)

LEMMA InsertInv ==
    ASSUME Inv, NEW c \in Clients, NEW p \in Pages, Insert(c, p)
    PROVE  Inv'
<1>1. /\ cl[c].tx # 0 /\ left.inserts > 0 /\ left' = [left EXCEPT !.inserts = @ - 1]
      /\ UNCHANGED <<block, dirty, undoVars, uncommitted, disk, writes, log, cm, fl, owner,
                     exposed>>
      /\ UNCHANGED <<undo, undoCached, owner, commitAt, exposed>>
  BY DEF Insert, log, undoVars
<1>2. BookType' /\ Grows
  BY <1>1, Quiet DEF Inv, BookType
<1>3. Stored'
  BY <1>1, <1>2, PagesStay, LogsStay DEF Inv, Stored
<1>4. cl[c] \in Client /\ p \in Nat
  BY OwnTx, PagesAssumption
<1>5. \E w \in Client : /\ Goto(c, w) /\ w.tx = cl[c].tx /\ w.snap = cl[c].snap
                        /\ ClientOK(w, undo', owner', commitAt', exposed')
  <2>1. CASE Goto(c, [cl[c] EXCEPT !.pc = "append", !.page = p, !.got = block[p]])
    <3> DEFINE b == block[p]
               w == [cl[c] EXCEPT !.pc = "append", !.page = p, !.got = b]
    <3>1. There(b, p) /\ b \in Blank
      BY <1>2, HereStays DEF Inv, Stored, PagesStored, PoolInv, PoolType
    <3> HIDE DEF b
    <3>2. /\ w \in Client /\ w.tx = cl[c].tx /\ w.snap = cl[c].snap /\ w.pc = "append"
          /\ w.page = p /\ w.got = b
      BY <1>4, <3>1 DEF Client, Steps
    <3> HIDE DEF w
    <3>3. ClientOK(w, undo', owner', commitAt', exposed')
      BY <1>1, <3>1, <3>2 DEF ClientOK, Holds, Finds, There
    <3> QED
      BY <2>1, <3>2, <3>3 DEF w, b
  <2>2. CASE Goto(c, [cl[c] EXCEPT !.pc = "find", !.page = p])
    <3> DEFINE w == [cl[c] EXCEPT !.pc = "find", !.page = p]
    <3>1. /\ w \in Client /\ w.tx = cl[c].tx /\ w.snap = cl[c].snap /\ w.pc = "find"
          /\ w.page = p
      BY <1>4 DEF Client, Steps
    <3> HIDE DEF w
    <3>2. ClientOK(w, undo', owner', commitAt', exposed')
      BY <1>1, <3>1 DEF ClientOK, Holds, Finds
    <3> QED
      BY <2>2, <3>1, <3>2 DEF w
  <2> QED
    BY <2>1, <2>2 DEF Insert
<1>6. UserInv'
  <2>1. left' \in Left /\ left'.tx = left.tx
    BY <1>1, LessLeft
  <2>2. uncommitted' \in [Tx -> Seq(Pages)]
    BY <1>1 DEF Inv, UserInv, UserType
  <2> QED
    BY <1>1, <1>2, <1>3, <1>5, <2>1, <2>2, ClientMoves DEF Stored
<1>7. PoolInv'
  <2>1. CASE p \in Held /\ Put(p)
    BY <1>1, <2>1, PoolUsed DEF Inv
  <2>2. CASE UNCHANGED <<cached, evicted>>
    BY <1>1, <2>2, PoolIdle DEF Inv, pool
  <2> QED
    BY <2>1, <2>2 DEF Insert
<1> QED
  BY <1>2, <1>3, <1>6, <1>7 DEF Inv

LEMMA InsertReadInv ==
    ASSUME Inv, NEW c \in Clients, InsertRead(c)
    PROVE  Inv'
<1>1. /\ cl[c].pc = "find" /\ UNCHANGED <<log, cm, uncommitted>>
  BY DEF InsertRead
<1>2. PoolInv' /\ BookType' /\ Grows /\ Stored'
  BY Resting DEF InsertRead, log
<1>3. left' \in Left /\ left'.tx = left.tx /\ uncommitted' \in [Tx -> Seq(Pages)]
  BY LessLeft, <1>1 DEF InsertRead, Inv, UserInv, UserType
<1>4. cl[c].page \in Pages /\ cl[c].tx # 0
  BY <1>1 DEF Inv, UserInv, InHand, ClientOK
<1>5. \E w \in Client : /\ Goto(c, w) /\ w.tx = cl[c].tx /\ w.snap = cl[c].snap
                        /\ ClientOK(w, undo', owner', commitAt', exposed')
  <2>1. CASE Goto(c, [cl[c] EXCEPT !.pc = "append", !.got = disk[cl[c].page]])
    <3> DEFINE b == disk[cl[c].page]
               w == [cl[c] EXCEPT !.pc = "append", !.got = b]
    <3>1. b \in Blank /\ There(b, cl[c].page)
      BY <1>2, <1>4, HereStays DEF Inv, Stored, PagesStored, PoolInv, PoolType
    <3> HIDE DEF b
    <3>2. /\ w \in Client /\ w.tx = cl[c].tx /\ w.snap = cl[c].snap /\ w.pc = "append"
          /\ w.page = cl[c].page /\ w.got = b
      BY <3>1, OwnTx DEF Client, Steps
    <3> HIDE DEF w
    <3>3. ClientOK(w, undo', owner', commitAt', exposed')
      BY <1>4, <3>1, <3>2 DEF ClientOK, Holds, Finds, There
    <3> QED
      BY <2>1, <3>2, <3>3 DEF w, b
  <2>2. CASE Ready(c)
    BY <2>2, Readied
  <2> QED
    BY <2>1, <2>2 DEF InsertRead
<1> QED
  BY <1>1, <1>2, <1>3, <1>5, ClientMoves DEF Inv, Stored

\* A log is appended: the others are where they were.
LEMMA LogAppended ==
    ASSUME BookType, LogsStored, CacheStored, NEW b \in Blank, NEW p \in Nat, Here(b, p),
           undo' = Append(undo, b), UNCHANGED <<undoCached, owner, commitAt, exposed>>
    PROVE  /\ BookType' /\ Grows /\ LogsStored' /\ CacheStored'
           /\ Len(undo) + 1 \in 1..Len(undo') /\ undo'[Len(undo) + 1] = b
<1>1. /\ undo' \in Seq(Blank) /\ Len(undo') = Len(undo) + 1 /\ Len(undo) \in Nat
      /\ \A i \in 1..Len(undo) : undo'[i] = undo[i]
      /\ undo'[Len(undo) + 1] = b
  <2>1. undo \in Seq(Blank)
    BY DEF BookType
  <2> QED
    BY <2>1, AppendLast
<1>2. BookType'
  BY <1>1 DEF BookType
<1>3. Grows
  <2>1. Len(owner) \in Nat
    BY LenProperties DEF BookType
  <2> QED
    BY <1>1, <2>1 DEF Grows
<1>4. \A d, q : Here(d, q) => There(d, q)
  BY <1>2, <1>3, HereStays
<1>5. b.undo < Len(undo) + 1
  BY <1>1, ZeroType DEF Here, Version
<1>6. \A i \in 1..Len(undo') : undo'[i].undo < i /\ \E q \in Nat : There(undo'[i], q)
  <2> SUFFICES ASSUME NEW i \in 1..Len(undo')
               PROVE  undo'[i].undo < i /\ \E q \in Nat : There(undo'[i], q)
    OBVIOUS
  <2>1. CASE i = Len(undo) + 1
    BY <1>1, <1>4, <1>5, <2>1
  <2>2. CASE i # Len(undo) + 1
    <3>1. i \in 1..Len(undo)
      BY <1>1, <2>2
    <3>2. undo[i].undo < i /\ \E q \in Nat : Here(undo[i], q)
      BY <3>1 DEF LogsStored
    <3> QED
      BY <1>1, <1>4, <3>1, <3>2
  <2> QED
    BY <2>1, <2>2
<1>7. \A k \in 1..Len(undoCached) :
        Copy(undoCached[k], undo') /\ \E q \in Nat : There(undoCached[k].log, q)
  <2> SUFFICES ASSUME NEW k \in 1..Len(undoCached)
               PROVE  Copy(undoCached[k], undo') /\ \E q \in Nat : There(undoCached[k].log, q)
    OBVIOUS
  <2>1. Copy(undoCached[k], undo) /\ \E q \in Nat : Here(undoCached[k].log, q)
    BY DEF CacheStored
  <2> QED
    BY <1>1, <1>4, <2>1 DEF Copy
<1> QED
  BY <1>1, <1>2, <1>3, <1>6, <1>7 DEF LogsStored, CacheStored, Here, There

LEMMA InsertUndoInv ==
    ASSUME Inv, NEW c \in Clients, InsertUndo(c)
    PROVE  Inv'
<1> DEFINE n == Len(undo) + 1
           b == cl[c].got
           p == cl[c].page
<1>1. /\ cl[c].pc = "append"
      /\ UNCHANGED <<uncommitted, log, cm, undoCached, owner, commitAt, exposed, block, disk,
                     writes>>
      /\ UNCHANGED <<pool, disk, writes, fl, owner, exposed>>
  BY DEF InsertUndo, log, pool
<1>2. p \in Pages /\ cl[c].tx # 0 /\ cl[c] \in Client /\ b \in Blank /\ p \in Nat /\ Here(b, p)
  BY <1>1, OwnTx, PagesAssumption DEF Inv, UserInv, InHand, ClientOK, Holds, Here, Client
<1>3. \/ undo' = Append(undo, b) /\ Goto(c, [cl[c] EXCEPT !.pc = "new", !.cur = n])
      \/ undo' = Append(undo, ZeroBlock) /\ Ready(c)
  BY DEF InsertUndo
<1>4. left' \in Left /\ left'.tx = left.tx
  BY LessLeft DEF InsertUndo
<1> HIDE DEF b, p
<1>5. \E d \in {b, ZeroBlock} : undo' = Append(undo, d) /\ Here(d, p) /\ d \in Blank
  BY <1>2, <1>3, ZeroType DEF Here, Version
<1>6. BookType' /\ Grows /\ LogsStored' /\ CacheStored'
  BY <1>1, <1>2, <1>5, LogAppended DEF Inv, Stored
<1>7. Stored'
  BY <1>1, <1>6, PagesStay DEF Inv, Stored
<1>8. \E w \in Client : /\ Goto(c, w) /\ w.tx = cl[c].tx /\ w.snap = cl[c].snap
                        /\ ClientOK(w, undo', owner', commitAt', exposed')
  <2>1. CASE undo' = Append(undo, b) /\ Goto(c, [cl[c] EXCEPT !.pc = "new", !.cur = n])
    <3> DEFINE w == [cl[c] EXCEPT !.pc = "new", !.cur = n]
    <3>1. n \in 1..Len(undo') /\ undo'[n] = b
      BY <1>1, <1>2, <2>1, LogAppended DEF Inv, Stored
    <3>2. n \in Nat
      BY LenProperties DEF Inv, BookType
    <3> HIDE DEF n
    <3>3. /\ w \in Client /\ w.tx = cl[c].tx /\ w.snap = cl[c].snap /\ w.pc = "new"
          /\ w.page = p /\ w.got = b /\ w.cur = n
      BY <1>2, <3>2 DEF Client, Steps, b, p
    <3> HIDE DEF w
    <3>4. There(b, p)
      BY <1>2, <1>6, HereStays DEF Inv
    <3>5. ClientOK(w, undo', owner', commitAt', exposed')
      BY <1>2, <3>1, <3>3, <3>4 DEF ClientOK, Holds, Finds, There
    <3> QED
      BY <2>1, <3>3, <3>5 DEF w
  <2>2. CASE Ready(c)
    BY <2>2, Readied
  <2> QED
    BY <1>3, <2>1, <2>2
<1>9. uncommitted' \in [Tx -> Seq(Pages)]
  BY <1>1 DEF Inv, UserInv, UserType
<1>10. UserInv'
  BY <1>1, <1>4, <1>6, <1>8, <1>9, ClientMoves
<1>11. PoolInv'
  BY <1>1, PoolIdle DEF Inv
<1> QED
  BY <1>6, <1>7, <1>10, <1>11 DEF Inv

\* The new version is the newest wherever it is looked for.
LEMMA NewIsNewest ==
    ASSUME PoolInv, owner \in Seq(Maker), exposed \in SUBSET Pages, NEW p \in Pages,
           NEW b \in Blank, b.data = Len(owner) + 1, NEW m \in Maker, m.page = p,
           block' = [block EXCEPT ![p] = b], Put(p), dirty' = dirty \cup {p},
           owner' = Append(owner, m), exposed' \in {exposed, exposed \cup {p}},
           UNCHANGED <<disk, writes, fl>>
    PROVE  PoolInv'
<1>1. /\ cached' \in Seq(Pages) /\ evicted' \in SUBSET Pages /\ Held' = Held \cup {p}
      /\ DirtyIsHeld'
  BY PutHolds DEF PoolInv
<1>2. block' \in [Pages -> Blank] /\ block'[p] = b
      /\ \A q \in Pages : q # p => block'[q] = block[q]
  BY DEF PoolInv, PoolType
<1>3. PoolType'
  <2>1. dirty' \in SUBSET Pages /\ IsFiniteSet(dirty')
    BY FS_AddElement DEF PoolInv, PoolType
  <2> QED
    BY <1>1, <1>2, <2>1 DEF PoolInv, PoolType
<1>4. /\ Len(owner') = Len(owner) + 1 /\ Len(owner) \in Nat
      /\ \A v \in 1..Len(owner) : owner'[v] = owner[v]
      /\ owner'[Len(owner) + 1] = m
  BY AppendLast
<1>5. exposed \subseteq exposed'
  OBVIOUS
<1>6. \A q \in Pages : LastWritten(q)' = LastWritten(q)
  BY DEF LastWritten, Sent
<1>7. \A q \in Pages : q # p => Newest(q)' = Newest(q)
  BY <1>1, <1>2, <1>6 DEF Newest
<1>8. CleanIsWritten'
  <2> SUFFICES ASSUME NEW q \in Held', q \notin dirty', q \notin exposed'
               PROVE  block'[q].data = LastWritten(q)'
    BY DEF CleanIsWritten
  <2>1. q \in Pages /\ q # p
    BY <1>3, RangeOfSeq DEF PoolType, Held, ToSet, Range
  <2>2. q \notin dirty /\ q \notin exposed /\ q \in Held
    BY <1>1, <1>5, <2>1
  <2>3. block[q].data = LastWritten(q)
    BY <2>2 DEF PoolInv, CleanIsWritten
  <2> QED
    BY <1>2, <1>6, <2>1, <2>3
<1>9. Latest'
  <2> SUFFICES ASSUME NEW q \in Pages, q \notin exposed', NEW v \in 1..Len(owner'),
                      owner'[v].page = q
               PROVE  v <= Newest(q)'
    BY DEF Latest
  <2>1. CASE q = p
    <3>1. Newest(p)' = Len(owner) + 1
      BY <1>1, <1>2 DEF Newest
    <3> QED
      BY <1>4, <2>1, <3>1
  <2>2. CASE q # p
    <3>1. v \in 1..Len(owner) /\ owner[v].page = q
      BY <1>4, <2>2
    <3>2. v <= Newest(q)
      BY <1>5, <3>1 DEF PoolInv, Latest
    <3> QED
      BY <1>7, <2>2, <3>2
  <2> QED
    BY <2>1, <2>2
<1>10. Ordered'
  BY <1>5 DEF PoolInv, Ordered
<1>11. Covered'
  <2>1. fl.pc # "idle" => fl.cover \subseteq 1..Len(owner)
    BY DEF PoolInv, Covered
  <2>2. fl.pc # "idle" => fl.cover \subseteq 1..Len(owner')
    BY <1>4, <2>1
  <2>3. fl \in [pc : {"idle", "wait", "synced"}, cover : SUBSET Nat]
    BY DEF PoolInv, PoolType
  <2>4. fl.pc # "idle" => \A v \in fl.cover : owner'[v] = owner[v]
    BY <1>4, <2>1
  <2>5. FlushIsSafe'
    BY <1>5, <2>4 DEF PoolInv, Covered, FlushIsSafe
  <2>6. fl.pc = "wait" => \A v \in fl.cover : \A q \in Pages :
           owner'[v].page = q => q \in exposed' \/ v <= LastWritten(q)'
    BY <1>5, <1>6, <2>4 DEF PoolInv, Covered
  <2> QED
    BY <2>2, <2>5, <2>6 DEF Covered
<1> QED
  BY <1>1, <1>3, <1>8, <1>9, <1>10, <1>11 DEF PoolInv

LEMMA InsertNewInv ==
    ASSUME Inv, NEW c \in Clients, InsertNew(c)
    PROVE  Inv'
<1> DEFINE w == cl[c]
           p == w.page
           n == Len(owner) + 1
           b == [commit |-> 0, tx |-> w.tx, undo |-> w.cur, data |-> n]
           m == [page |-> p, tx |-> w.tx]
           x == [w EXCEPT !.pc = "mark", !.got = ZeroBlock, !.cur = 0]
<1>1. /\ w.pc = "new" /\ block' = [block EXCEPT ![p] = b] /\ Put(p)
      /\ dirty' = dirty \cup {p} /\ owner' = Append(owner, m) /\ Goto(c, x)
      /\ exposed' = IF w.got.data # Newest(p) THEN exposed \cup {p} ELSE exposed
      /\ UNCHANGED <<undo, undoCached, uncommitted, disk, writes, log, commitAt, cm, fl, left>>
  BY DEF InsertNew, undoVars, log
<1>2. /\ w \in Client /\ p \in Pages /\ w.tx # 0 /\ w.tx \in Tx /\ commitAt[w.tx] = 0
      /\ Here(w.got, p) /\ w.cur \in 1..Len(undo) /\ undo[w.cur].data = w.got.data
  BY <1>1, OwnTx DEF Inv, UserInv, InHand, ClientOK, Holds, Here
<1>3. /\ owner \in Seq(Maker) /\ exposed \in SUBSET Pages /\ Len(undo) \in Nat
      /\ commitAt \in [Tx -> Nat] /\ Len(owner) \in Nat
  BY LenProperties DEF Inv, BookType
<1>4. m \in Maker /\ m.page = p /\ m.tx = w.tx
  BY <1>2 DEF Maker
<1>5. b \in [commit : Nat, tx : Tx, undo : 1..Len(undo), data : {n}]
      /\ b.commit = 0 /\ b.tx = w.tx /\ b.undo = w.cur /\ b.data = n
  BY <1>2
<1>6. b \in Blank
  <2>1. w.cur \in Nat /\ w.tx \in Nat /\ n \in Nat
    BY <1>2, <1>3 DEF Tx
  <2> QED
    BY <2>1 DEF Blank
<1>7. /\ x \in Client /\ x.pc = "mark" /\ x.tx = w.tx /\ x.snap = w.snap /\ x.page = p
  BY <1>2, ZeroType DEF Client, Steps
<1> HIDE DEF m, b, x
<1>8. /\ owner' \in Seq(Maker) /\ Len(owner') = n
      /\ \A v \in 1..Len(owner) : owner'[v] = owner[v]
      /\ owner'[n] = m
  BY <1>1, <1>3, <1>4, AppendLast
<1>9. exposed' \in SUBSET Pages /\ exposed \subseteq exposed'
      /\ exposed' \in {exposed, exposed \cup {p}}
  BY <1>1, <1>2, <1>3
<1>10. BookType'
  BY <1>1, <1>8, <1>9 DEF Inv, BookType
<1>11. Grows
  <2>1. \A v \in 1..Len(owner') : v > Len(owner) => v = n
    BY <1>3, <1>8
  <2>2. commitAt'[owner'[n].tx] = 0
    BY <1>1, <1>2, <1>4, <1>8
  <2> QED
    BY <1>1, <1>3, <1>8, <1>9, <2>1, <2>2 DEF Grows
<1>12. There(b, p)
  <2>1. b \in [commit : Nat, tx : Tx, undo : 1..Len(undo), data : 1..Len(owner')]
    BY <1>3, <1>5, <1>8
  <2>2. owner'[b.data] = [page |-> p, tx |-> b.tx]
    BY <1>5, <1>8 DEF m
  <2>3. w.got.data = 0 \/ (w.got.data \in 1..Len(owner) /\ owner[w.got.data].page = p)
    BY <1>2, ZeroType DEF Here, Version
  <2>4. w.got.data \in 0..(n - 1)
    BY <1>3, <2>3
  <2>5. w.got.data # 0 => owner'[w.got.data].page = p
    BY <1>8, <2>3
  <2>6. p \notin exposed' => \A v \in 1..Len(owner') :
           owner'[v].page = p /\ v < n => v <= w.got.data
    <3> SUFFICES ASSUME p \notin exposed', NEW v \in 1..Len(owner'), owner'[v].page = p, v < n
                 PROVE  v <= w.got.data
      OBVIOUS
    <3>1. w.got.data = Newest(p) /\ p \notin exposed
      BY <1>1
    <3>2. v \in 1..Len(owner) /\ owner[v].page = p
      BY <1>3, <1>8
    <3> QED
      BY <1>2, <3>1, <3>2 DEF Inv, PoolInv, Latest
  <2> HIDE DEF n
  <2>7. Version(b, p, undo, owner', commitAt, exposed')
    BY <1>2, <1>5, <2>1, <2>2, <2>4, <2>5, <2>6 DEF Version
  <2> QED
    BY <1>1, <2>7 DEF There
<1>13. PoolInv'
  BY <1>1, <1>2, <1>3, <1>4, <1>5, <1>6, <1>9, NewIsNewest DEF Inv
<1>14. Stored'
  <2>1. PagesStored' /\ WritesStored'
    BY <1>1, <1>2, <1>10, <1>11, <1>12, BlockSet DEF Inv, Stored, PoolInv, PoolType
  <2>2. LogsStored' /\ CacheStored'
    BY <1>1, <1>10, <1>11, LogsStay DEF Inv, Stored
  <2> QED
    BY <2>1, <2>2 DEF Stored
<1>15. ClientOK(x, undo', owner', commitAt', exposed')
  BY <1>2, <1>7 DEF ClientOK, Holds, Finds
<1>16. UserInv'
  <2>1. left' \in Left /\ left'.tx = left.tx /\ uncommitted' \in [Tx -> Seq(Pages)]
    BY <1>1 DEF Inv, UserInv, UserType, Left
  <2> QED
    BY <1>1, <1>7, <1>10, <1>11, <1>14, <1>15, <2>1, ClientMoves DEF Stored
<1> QED
  BY <1>10, <1>13, <1>14, <1>16 DEF Inv

LEMMA InsertMarkInv ==
    ASSUME Inv, NEW c \in Clients, InsertMark(c)
    PROVE  Inv'
<1>1. /\ cl[c].pc = "mark" /\ Ready(c) /\ UNCHANGED <<log, cm, left>>
      /\ uncommitted' = [uncommitted EXCEPT ![cl[c].tx] = Append(@, cl[c].page)]
  BY DEF InsertMark
<1>2. PoolInv' /\ BookType' /\ Grows /\ Stored'
  BY Resting DEF InsertMark, log
<1>3. left' \in Left /\ left'.tx = left.tx
  BY <1>1 DEF Inv, UserInv, UserType, Left
<1>4. uncommitted' \in [Tx -> Seq(Pages)]
  <2>1. cl[c].page \in Pages /\ cl[c].tx # 0 /\ cl[c].tx \in Tx
    BY <1>1, OwnTx DEF Inv, UserInv, InHand, ClientOK
  <2>2. uncommitted \in [Tx -> Seq(Pages)]
    BY DEF Inv, UserInv, UserType
  <2>3. Append(uncommitted[cl[c].tx], cl[c].page) \in Seq(Pages)
    BY <2>1, <2>2, AppendLast
  <2> QED
    BY <1>1, <2>2, <2>3
<1>5. \E w \in Client : /\ Goto(c, w) /\ w.tx = cl[c].tx /\ w.snap = cl[c].snap
                        /\ ClientOK(w, undo', owner', commitAt', exposed')
  BY <1>1, Readied
<1> QED
  BY <1>1, <1>2, <1>3, <1>4, <1>5, ClientMoves DEF Inv, Stored

-----------------------------------------------------------------------------
(* The commit thread.                                                      *)

\* The block of a transaction is marked with the index its commit was given.
LEMMA MarkedIs ==
    ASSUME NEW u, NEW o, NEW a \in [Tx -> Nat], NEW x, NEW b, NEW p, NEW t \in Tx,
           Version(b, p, u, o, a, x), b.tx = t
    PROVE  LET m == [b EXCEPT !.commit = a[t]] IN
           /\ Version(m, p, u, o, a, x) /\ m.data = b.data /\ m.undo = b.undo
           /\ b \in Blank => m \in Blank
<1> DEFINE m == [b EXCEPT !.commit = a[t]]
<1>1. b # ZeroBlock
  BY ZeroType DEF Tx
<1>2. /\ b \in [commit : Nat, tx : Tx, undo : 1..Len(u), data : 1..Len(o)]
      /\ o[b.data] = [page |-> p, tx |-> b.tx]
      /\ u[b.undo].data \in 0..(b.data - 1)
      /\ u[b.undo].data # 0 => o[u[b.undo].data].page = p
      /\ p \in x \/ \A v \in 1..Len(o) : o[v].page = p /\ v < b.data => v <= u[b.undo].data
  BY <1>1 DEF Version
<1>3. /\ m \in [commit : Nat, tx : Tx, undo : 1..Len(u), data : 1..Len(o)]
      /\ m.data = b.data /\ m.undo = b.undo /\ m.tx = b.tx /\ m.commit = a[t]
  BY <1>2
<1>4. b \in Blank => m \in Blank
  BY DEF Blank
<1> HIDE DEF m
<1>5. Version(m, p, u, o, a, x)
  BY <1>2, <1>3 DEF Version
<1> QED
  BY <1>3, <1>4, <1>5 DEF m

\* What the commit thread is on is a page of a transaction that has its index.
LEMMA OnIt ==
    ASSUME Inv, cm.pages # <<>>
    PROVE  /\ cm \in Committer /\ Head(cm.pages) \in Pages /\ Len(cm.pages) \in Nat \ {0}
           /\ Tail(cm.pages) \in Seq(Pages) /\ Len(Tail(cm.pages)) = Len(cm.pages) - 1
           /\ cm.tx \in Tx /\ cm.at # 0 /\ cm.at = commitAt[cm.tx] /\ commitAt \in [Tx -> Nat]
<1>1. cm \in Committer /\ commitAt \in [Tx -> Nat]
  BY DEF Inv, UserInv, UserType, BookType
<1>2. cm.pages \in Seq(Pages)
  BY <1>1 DEF Committer
<1>3. /\ Head(cm.pages) \in Pages /\ Len(cm.pages) \in Nat \ {0}
      /\ Tail(cm.pages) \in Seq(Pages) /\ Len(Tail(cm.pages)) = Len(cm.pages) - 1
  BY <1>2, HeadLeaves
<1>4. cm.tx \in Tx /\ cm.at # 0 /\ cm.at = commitAt[cm.tx]
  BY DEF Inv, UserInv, Informed
<1> QED
  BY <1>1, <1>3, <1>4

LEMMA NoCommitType == NoCommit \in Committer /\ NoCommit.pc = "page" /\ NoCommit.pages = <<>>
BY ZeroType, NoEntry DEF NoCommit, Committer

\* It is done with the page, or with the commit.
LEMMA PageDone ==
    ASSUME Inv, cm.pages # <<>>, UNCHANGED <<commits, commitAt>>, NextPage \/ GiveUp
    PROVE  cm' \in Committer /\ Informed'
<1>1. CASE cm' = NoCommit
  BY <1>1, NoCommitType DEF Inv, UserInv, Informed
<1>2. CASE cm' = [cm EXCEPT !.pc = "page", !.pages = Tail(@)]
  <2>1. /\ cm' \in Committer /\ cm'.pc = "page" /\ cm'.tx = cm.tx /\ cm'.at = cm.at
    BY <1>2, OnIt DEF Committer
  <2>2. cm.tx \in Tx /\ cm.at # 0 /\ cm.at = commitAt[cm.tx]
    BY OnIt
  <2> QED
    BY <2>1, <2>2 DEF Inv, UserInv, Informed
<1> QED
  BY <1>1, <1>2 DEF NextPage, GiveUp

\* It looks for the version of the transaction further down, from block b on.
LEMMA Searched ==
    ASSUME Inv, cm.pages # <<>>, UNCHANGED <<commits, commitAt>>,
           NEW b, NEW p, There(b, p), b.undo # 0, NEW f \in 1..Len(undo'),
           cm' = [cm EXCEPT !.pc = "walk", !.cur = b.undo, !.first = f], Len(undo') \in Nat
    PROVE  cm' \in Committer /\ Informed'
<1>1. b.undo \in 1..Len(undo')
  BY ZeroType DEF There, Version
<1>2. /\ cm' \in Committer /\ cm'.pc = "walk" /\ cm'.tx = cm.tx /\ cm'.at = cm.at
      /\ cm'.pages = cm.pages /\ cm'.cur = b.undo /\ cm'.first = f
  <2>1. cm \in Committer /\ b.undo \in Nat /\ f \in Nat
    BY <1>1, OnIt
  <2> QED
    BY <2>1 DEF Committer
<1>3. cm.tx \in Tx /\ cm.at # 0 /\ cm.at = commitAt[cm.tx]
  BY OnIt
<1>4. \A i \in 1..Len(commits) :
        commits[i].at # 0 /\ commits[i].at = commitAt[commits[i].tx]
  BY DEF Inv, UserInv, Informed
<1> QED
  BY <1>1, <1>2, <1>3, <1>4 DEF Informed

LEMMA CommitTakeInv ==
    ASSUME Inv, CommitTake
    PROVE  Inv'
<1> DEFINE m == Head(commits)
           n == [NoCommit EXCEPT !.tx = m.tx, !.at = m.at, !.pages = uncommitted[m.tx]]
<1>1. /\ commits # <<>> /\ cm' = n /\ uncommitted' = [uncommitted EXCEPT ![m.tx] = <<>>]
      /\ commits' = Tail(commits) /\ UNCHANGED <<cl, lastTx, lastIndex, commitAt, left>>
  BY DEF CommitTake
<1>2. PoolInv' /\ BookType' /\ Grows /\ Stored'
  BY Resting DEF CommitTake
<1>3. commits \in Seq([tx : Tx, at : Nat]) /\ uncommitted \in [Tx -> Seq(Pages)]
  BY DEF Inv, UserInv, UserType
<1>4. /\ Len(commits) \in Nat \ {0} /\ m = commits[1] /\ m \in [tx : Tx, at : Nat]
      /\ commits' \in Seq([tx : Tx, at : Nat]) /\ Len(commits') = Len(commits) - 1
      /\ \A i \in 1..Len(commits') : commits'[i] = commits[i + 1]
  BY <1>1, <1>3, HeadLeaves
<1> HIDE DEF m
<1>5. uncommitted[m.tx] \in Seq(Pages) /\ uncommitted' \in [Tx -> Seq(Pages)]
  BY <1>1, <1>3, <1>4, NoEntry
<1>6. cm' \in Committer /\ cm'.pc = "page" /\ cm'.tx = m.tx /\ cm'.at = m.at
  <2>1. n \in Committer /\ n.pc = "page" /\ n.tx = m.tx /\ n.at = m.at
    <3>1. m.tx \in Nat /\ m.at \in Nat
      BY <1>4 DEF Tx
    <3> QED
      BY <1>5, <3>1, NoCommitType DEF Committer
  <2> QED
    BY <1>1, <2>1
<1> HIDE DEF n
<1>7. Informed'
  <2>1. \A i \in 1..Len(commits) :
          commits[i].at # 0 /\ commits[i].at = commitAt[commits[i].tx]
    BY DEF Inv, UserInv, Informed
  <2>2. m.tx \in Tx /\ m.at # 0 /\ m.at = commitAt[m.tx]
    <3>1. 1 \in 1..Len(commits) /\ m = commits[1] /\ m.tx \in Tx
      BY <1>4
    <3> QED
      BY <2>1, <3>1
  <2>3. \A i \in 1..Len(commits') : i + 1 \in 1..Len(commits)
    BY <1>4
  <2>4. \A i \in 1..Len(commits') :
          commits'[i].at # 0 /\ commits'[i].at = commitAt[commits'[i].tx]
    <3> SUFFICES ASSUME NEW i \in 1..Len(commits')
                 PROVE  commits'[i].at # 0 /\ commits'[i].at = commitAt[commits'[i].tx]
      OBVIOUS
    <3>1. commits'[i] = commits[i + 1]
      BY <1>4
    <3> QED
      BY <2>1, <2>3, <3>1
  <2>5. cm'.tx \in Tx /\ cm'.at # 0 /\ cm'.at = commitAt[cm'.tx]
    BY <1>6, <2>2
  <2>6. cm'.pc # "fill" /\ cm'.pc # "walk"
    BY <1>6
  <2>7. commitAt' = commitAt
    BY <1>1
  <2> QED
    BY <1>6, <2>4, <2>5, <2>6, <2>7 DEF Informed
<1>8. left' \in Left /\ left'.tx = left.tx
  BY <1>1 DEF Inv, UserInv, UserType, Left
<1>9. UNCHANGED <<cl, lastTx, lastIndex, commitAt>>
  BY <1>1
<1>10. UserInv'
  BY <1>2, <1>4, <1>5, <1>6, <1>7, <1>8, <1>9, CommitterMoves DEF Stored
<1> QED
  BY <1>2, <1>10 DEF Inv

LEMMA CommitReadInv ==
    ASSUME Inv, CommitRead
    PROVE  Inv'
<1> DEFINE p == Head(cm.pages)
           n == [cm EXCEPT !.pc = "fill", !.got = disk[p]]
<1>1. /\ cm.pc = "read" /\ UNCHANGED <<cl, lastTx, lastIndex, commitAt, commits, uncommitted>>
      /\ cm' = n \/ GiveUp
  BY DEF CommitRead, log
<1>2. PoolInv' /\ BookType' /\ Grows /\ Stored'
  BY Resting DEF CommitRead, log
<1>3. left' \in Left /\ left'.tx = left.tx
  BY LessLeft DEF CommitRead
<1>4. cm.pages # <<>>
  BY <1>1 DEF Inv, UserInv, Informed
<1>5. cm' \in Committer /\ Informed'
  <2>1. CASE cm' = n
    <3>1. disk[p] \in Blank /\ There(disk[p], p) /\ cm \in Committer
      BY <1>2, <1>4, OnIt, HereStays DEF Inv, Stored, PagesStored, PoolInv, PoolType
    <3>2. /\ n \in Committer /\ n.pc = "fill" /\ n.tx = cm.tx /\ n.at = cm.at
          /\ n.pages = cm.pages /\ n.got = disk[p]
      BY <3>1 DEF Committer
    <3> HIDE DEF n
    <3>3. cm.tx \in Tx /\ cm.at # 0 /\ cm.at = commitAt[cm.tx]
      BY <1>4, OnIt
    <3>4. \A i \in 1..Len(commits) :
            commits[i].at # 0 /\ commits[i].at = commitAt[commits[i].tx]
      BY DEF Inv, UserInv, Informed
    <3>5. There(cm'.got, Head(cm'.pages))
      BY <2>1, <3>1, <3>2
    <3>6. cm' \in Committer /\ cm'.pc = "fill" /\ cm'.pages # <<>>
          /\ cm'.tx \in Tx /\ cm'.at # 0 /\ cm'.at = commitAt[cm'.tx]
      BY <1>4, <2>1, <3>2, <3>3
    <3> QED
      BY <1>1, <3>4, <3>5, <3>6 DEF Informed, Here, There
  <2>2. CASE GiveUp
    BY <1>1, <1>4, <2>2, PageDone
  <2> QED
    BY <1>1, <2>1, <2>2
<1>6. /\ uncommitted' \in [Tx -> Seq(Pages)] /\ commits' \in Seq([tx : Tx, at : Nat])
      /\ UNCHANGED <<cl, lastTx, lastIndex, commitAt>>
  BY <1>1 DEF Inv, UserInv, UserType
<1>7. UserInv'
  BY <1>2, <1>3, <1>5, <1>6, CommitterMoves DEF Stored
<1> QED
  BY <1>2, <1>7 DEF Inv

\* Search, from a block of the page.
LEMMA SearchOn ==
    ASSUME Inv, BookType', cm.pages # <<>>, UNCHANGED <<commits, commitAt>>,
           NEW b, NEW p, There(b, p), Search(b)
    PROVE  cm' \in Committer /\ Informed'
<1>1. CASE b.undo = 0
  BY <1>1, PageDone DEF Search
<1>2. CASE b.undo # 0
  <2>1. cm' = [cm EXCEPT !.pc = "walk", !.cur = b.undo, !.first = b.undo]
    BY <1>2 DEF Search
  <2>2. b.undo \in 1..Len(undo')
    BY <1>2, ZeroType DEF There, Version
  <2>3. Len(undo') \in Nat
    BY LenProperties DEF BookType
  <2> QED
    BY <1>2, <2>1, <2>2, <2>3, Searched
<1> QED
  BY <1>1, <1>2

LEMMA CommitPageInv ==
    ASSUME Inv, CommitPage
    PROVE  Inv'
<1> DEFINE p == Head(cm.pages)
           b == [block[p] EXCEPT !.commit = cm.at]
<1>1. /\ cm.pages # <<>>
      /\ UNCHANGED <<cached, evicted, dirty, undo, undoCached, uncommitted, disk, writes, cl,
                     commits, lastTx, lastIndex, commitAt, fl, owner, exposed, left>>
      /\ \/ block[p].tx = cm.tx /\ block' = [block EXCEPT ![p].commit = cm.at] /\ NextPage
         \/ block[p].tx # cm.tx /\ Search(block[p]) /\ UNCHANGED block
         \/ cm' = [cm EXCEPT !.pc = "read"] /\ UNCHANGED block
  BY DEF CommitPage, Committing, undoVars, log
<1>2. /\ cm \in Committer /\ p \in Pages /\ cm.tx \in Tx /\ cm.at # 0
      /\ cm.at = commitAt[cm.tx] /\ commitAt \in [Tx -> Nat]
  BY <1>1, OnIt
<1>3. BookType' /\ Grows
  BY <1>1, Quiet DEF Inv, BookType
<1>4. block \in [Pages -> Blank] /\ There(block[p], p)
  BY <1>2, <1>3, HereStays DEF Inv, PoolInv, PoolType, Stored, PagesStored
<1> HIDE DEF p
<1>5. /\ PoolInv' /\ PagesStored' /\ WritesStored'
  <2>1. CASE block[p].tx = cm.tx /\ block' = [block EXCEPT ![p].commit = cm.at]
    <3>1. block' = [block EXCEPT ![p] = b]
      BY <1>2, <1>4, <2>1
    <3>2. There(b, p) /\ b.data = block[p].data /\ b \in Blank
      BY <1>1, <1>2, <1>4, <2>1, MarkedIs DEF There
    <3> HIDE DEF b
    <3>3. PagesStored' /\ WritesStored'
      BY <1>1, <1>2, <1>3, <1>4, <3>1, <3>2, BlockSet DEF Inv, Stored
    <3>4. block' \in [Pages -> Blank] /\ \A q \in Pages : block'[q].data = block[q].data
      BY <1>2, <1>4, <3>1, <3>2
    <3>5. Held' = Held /\ cached' \in Seq(Pages) /\ evicted' \in SUBSET Pages /\ DirtyIsHeld'
      BY <1>1 DEF Inv, PoolInv, PoolType, DirtyIsHeld, Held
    <3>6. PoolInv'
      BY <1>1, <3>4, <3>5, PoolStays DEF Inv
    <3> QED
      BY <3>3, <3>6
  <2>2. CASE UNCHANGED block
    <3>1. UNCHANGED <<pool, disk, writes, fl, owner, exposed>>
      BY <1>1, <2>2 DEF pool
    <3>2. PoolInv'
      BY <3>1, PoolIdle DEF Inv
    <3>3. PagesStored' /\ WritesStored'
      BY <1>1, <1>3, <2>2, PagesStay DEF Inv, Stored
    <3> QED
      BY <3>2, <3>3
  <2> QED
    BY <1>1, <2>1, <2>2 DEF p
<1>6. Stored'
  BY <1>1, <1>3, <1>5, LogsStay DEF Inv, Stored
<1>7. cm' \in Committer /\ Informed'
  <2>1. CASE NextPage
    BY <1>1, <2>1, PageDone
  <2>2. CASE Search(block[p])
    BY <1>1, <1>3, <1>4, <2>2, SearchOn
  <2>3. CASE cm' = [cm EXCEPT !.pc = "read"]
    <3>1. /\ cm' \in Committer /\ cm'.pc = "read" /\ cm'.tx = cm.tx /\ cm'.at = cm.at
          /\ cm'.pages = cm.pages
      BY <1>2, <2>3 DEF Committer
    <3> QED
      BY <1>1, <1>2, <3>1 DEF Inv, UserInv, Informed
  <2> QED
    BY <1>1, <2>1, <2>2, <2>3 DEF p
<1>8. UserInv'
  <2>1. left' \in Left /\ left'.tx = left.tx
    BY <1>1 DEF Inv, UserInv, UserType, Left
  <2>2. uncommitted' \in [Tx -> Seq(Pages)] /\ commits' \in Seq([tx : Tx, at : Nat])
    BY <1>1 DEF Inv, UserInv, UserType
  <2>3. UNCHANGED <<cl, lastTx, lastIndex, commitAt>>
    BY <1>1
  <2> QED
    BY <1>3, <1>6, <1>7, <2>1, <2>2, <2>3, CommitterMoves DEF Stored
<1> QED
  BY <1>3, <1>5, <1>6, <1>8 DEF Inv

LEMMA CommitFillInv ==
    ASSUME Inv, CommitFill
    PROVE  Inv'
<1> DEFINE p == Head(cm.pages)
           b == cm.got
           m == [b EXCEPT !.commit = cm.at]
<1>1. /\ cm.pc = "fill"
      /\ UNCHANGED <<undo, undoCached, uncommitted, disk, writes, cl, commits, lastTx,
                     lastIndex, commitAt, fl, owner, left>>
      /\ \/ b.tx = cm.tx /\ Fill(p, m) /\ NextPage
         \/ Fill(p, b) /\ Search(b)
  BY DEF CommitFill, undoVars, log
<1>2. cm.pages # <<>> /\ Here(b, p)
  BY <1>1 DEF Inv, UserInv, Informed
<1>3. /\ cm \in Committer /\ p \in Pages /\ cm.tx \in Tx /\ cm.at # 0
      /\ cm.at = commitAt[cm.tx] /\ commitAt \in [Tx -> Nat] /\ b \in Blank
  BY <1>2, OnIt DEF Committer
<1> HIDE DEF p, b
<1>4. b.tx = cm.tx => Here(m, p) /\ m \in Blank
  <2> SUFFICES ASSUME b.tx = cm.tx PROVE Here(m, p) /\ m \in Blank
    OBVIOUS
  <2>1. m = [b EXCEPT !.commit = commitAt[cm.tx]]
    BY <1>3
  <2>2. Version(b, p, undo, owner, commitAt, exposed)
    BY <1>2 DEF Here
  <2>3. Version(m, p, undo, owner, commitAt, exposed) /\ (b \in Blank => m \in Blank)
    BY <1>3, <2>1, <2>2, MarkedIs
  <2> QED
    BY <1>3, <2>3 DEF Here
<1> HIDE DEF m
<1>5. PICK d \in Blank : Here(d, p) /\ Fill(p, d)
  BY <1>1, <1>2, <1>3, <1>4 DEF p
<1>6. exposed \in SUBSET Pages
  BY DEF Inv, BookType
<1>7. /\ PoolInv' /\ exposed' \in SUBSET Pages /\ exposed \subseteq exposed'
      /\ block' = [block EXCEPT ![p] = d]
  BY <1>1, <1>3, <1>5, <1>6, FillKeeps DEF Inv
<1>8. BookType'
  BY <1>1, <1>7 DEF Inv, BookType
<1>9. Grows
  <2>1. Len(undo) \in Nat /\ Len(owner) \in Nat
    BY LenProperties DEF Inv, BookType
  <2> QED
    BY <1>1, <1>7, <2>1 DEF Grows
<1>10. There(d, p) /\ There(b, p)
  BY <1>2, <1>5, <1>8, <1>9, HereStays DEF Inv, p
<1>11. Stored'
  <2>1. PagesStored' /\ WritesStored'
    BY <1>1, <1>3, <1>7, <1>8, <1>9, <1>10, BlockSet DEF Inv, Stored, PoolInv, PoolType
  <2>2. LogsStored' /\ CacheStored'
    BY <1>1, <1>8, <1>9, LogsStay DEF Inv, Stored
  <2> QED
    BY <2>1, <2>2 DEF Stored
<1>12. cm' \in Committer /\ Informed'
  <2>1. CASE NextPage
    BY <1>1, <1>2, <2>1, PageDone
  <2>2. CASE Search(b)
    BY <1>1, <1>2, <1>8, <1>10, <2>2, SearchOn
  <2> QED
    BY <1>1, <2>1, <2>2
<1>13. UserInv'
  <2>1. left' \in Left /\ left'.tx = left.tx
    BY <1>1 DEF Inv, UserInv, UserType, Left
  <2>2. uncommitted' \in [Tx -> Seq(Pages)] /\ commits' \in Seq([tx : Tx, at : Nat])
    BY <1>1 DEF Inv, UserInv, UserType
  <2>3. UNCHANGED <<cl, lastTx, lastIndex, commitAt>>
    BY <1>1
  <2> QED
    BY <1>8, <1>9, <1>11, <1>12, <2>1, <2>2, <2>3, CommitterMoves DEF Stored
<1> QED
  BY <1>7, <1>8, <1>11, <1>13 DEF Inv

\* A log is marked in the cache, on disk or both: its version is what it was.
LEMMA LogMarked ==
    ASSUME Inv, NEW e \in Log, Copy(e, undo), NEW q \in Nat, NEW l \in Blank, Here(l, q),
           l.data = e.log.data, l.undo = e.log.undo,
           undo' \in {undo, [undo EXCEPT ![e.at] = l]},
           UNCHANGED <<owner, commitAt, exposed>>, undoCached' \in Seq(Log),
           \A i \in 1..Len(undoCached') : \/ undoCached'[i] = [e EXCEPT !.log = l]
                                          \/ \E k \in 1..Len(undoCached) :
                                               undoCached'[i] = undoCached[k]
    PROVE  BookType' /\ Grows /\ LogsStored' /\ CacheStored'
<1> DEFINE f == [e EXCEPT !.log = l]
<1>1. /\ e.at \in 1..Len(undo) /\ e.log.data = undo[e.at].data /\ e.log.undo = undo[e.at].undo
      /\ undo \in Seq(Blank) /\ Len(undo) \in Nat
  BY LenProperties DEF Copy, Inv, BookType
<1>2. /\ undo' \in Seq(Blank) /\ Len(undo') = Len(undo)
      /\ \A i \in 1..Len(undo) : undo'[i] = undo[i] \/ (undo'[i] = l /\ i = e.at)
  <2>1. CASE undo' = undo
    BY <1>1, <2>1
  <2>2. CASE undo' = [undo EXCEPT ![e.at] = l]
    <3>1. undo' \in Seq(Blank) /\ Len(undo') = Len(undo)
      BY <1>1, <2>2, ExceptSeq
    <3>2. \A i \in 1..Len(undo) : undo'[i] = IF i = e.at THEN l ELSE undo[i]
      BY <1>1, <2>2, ExceptSeq
    <3> QED
      BY <3>1, <3>2
  <2> QED
    BY <2>1, <2>2
<1>3. \A i \in 1..Len(undo) : undo'[i].data = undo[i].data /\ undo'[i].undo = undo[i].undo
  BY <1>1, <1>2
<1>4. BookType'
  BY <1>2 DEF Inv, BookType
<1>5. Grows
  <2>1. Len(owner) \in Nat
    BY LenProperties DEF Inv, BookType
  <2> QED
    BY <1>1, <1>2, <1>3, <2>1 DEF Grows
<1>6. \A d, r : Here(d, r) => There(d, r)
  BY <1>4, <1>5, HereStays DEF Inv
<1>7. \A i \in 1..Len(undo) : undo[i].undo < i /\ \E r \in Nat : Here(undo[i], r)
  BY DEF Inv, Stored, LogsStored
<1>8. \A i \in 1..Len(undo') : undo'[i].undo < i /\ \E r \in Nat : There(undo'[i], r)
  BY <1>2, <1>3, <1>6, <1>7
<1>9. \A k \in 1..Len(undoCached) :
        Copy(undoCached[k], undo') /\ \E r \in Nat : There(undoCached[k].log, r)
  BY <1>2, <1>3, <1>6 DEF Inv, Stored, CacheStored, Copy
<1>10. Copy(f, undo') /\ \E r \in Nat : There(f.log, r)
  <2>1. f.at = e.at /\ f.log = l
    BY DEF Log
  <2> HIDE DEF f
  <2> QED
    BY <1>1, <1>2, <1>3, <1>6, <2>1 DEF Copy
<1> HIDE DEF f
<1>11. \A i \in 1..Len(undoCached') :
         Copy(undoCached'[i], undo') /\ \E r \in Nat : There(undoCached'[i].log, r)
  BY <1>9, <1>10 DEF f
<1> QED
  BY <1>4, <1>5, <1>8, <1>11 DEF LogsStored, CacheStored, Here, There

LEMMA CopiesMarked ==
    ASSUME NEW S, NEW s \in Seq(S), NEW here, NEW x \in S
    PROVE  LET m == [k \in DOMAIN s |-> IF k \in here THEN x ELSE s[k]] IN
           m \in Seq(S) /\ \A i \in 1..Len(m) : m[i] = x \/ \E k \in 1..Len(s) : m[i] = s[k]
<1> DEFINE m == [k \in DOMAIN s |-> IF k \in here THEN x ELSE s[k]]
<1>1. DOMAIN s = 1..Len(s) /\ Len(s) \in Nat /\ \A k \in 1..Len(s) : s[k] \in S
  BY LenProperties, ElementOfSeq
<1>2. m = [k \in 1..Len(s) |-> IF k \in here THEN x ELSE s[k]]
  BY <1>1
<1> HIDE DEF m
<1>3. m \in [1..Len(s) -> S]
  BY <1>1, <1>2
<1>4. m \in Seq(S) /\ Len(m) = Len(s)
  BY <1>1, <1>3, LenProperties
<1>5. \A i \in 1..Len(s) : m[i] = IF i \in here THEN x ELSE s[i]
  BY <1>2
<1> QED
  BY <1>4, <1>5 DEF m

LEMMA CommitWalkInv ==
    ASSUME Inv, CommitWalk
    PROVE  Inv'
<1> DEFINE e == Reached(cm)
           l == [e.log EXCEPT !.commit = cm.at]
           f == [e EXCEPT !.log = l]
           here == Places(e.at)
           map == [k \in DOMAIN undoCached |-> IF k \in here THEN f ELSE undoCached[k]]
<1>1. /\ cm.pc = "walk"
      /\ UNCHANGED <<uncommitted, cl, commits, lastTx, lastIndex, commitAt, owner, exposed>>
      /\ UNCHANGED <<block, disk, writes>>
      /\ UNCHANGED <<pool, disk, writes, fl, owner, exposed>>
  BY DEF CommitWalk, log, pool
<1>2. /\ cm.pages # <<>> /\ cm.cur \in 1..Len(undo) /\ cm.first \in 1..Len(undo)
  BY <1>1 DEF Inv, UserInv, Informed
<1>3. /\ cm \in Committer /\ cm.tx \in Tx /\ cm.at # 0 /\ cm.at = commitAt[cm.tx]
      /\ commitAt \in [Tx -> Nat]
  BY <1>2, OnIt
<1>4. e \in Log /\ Copy(e, undo) /\ \E q \in Nat : Here(e.log, q)
  BY <1>2, ReachedIs
<1>5. PICK q \in Nat : Here(e.log, q)
  BY <1>4
<1>6. /\ undoCached \in Seq(Log) /\ DOMAIN undoCached = 1..Len(undoCached)
      /\ undo \in Seq(Blank) /\ Len(undo) \in Nat
  BY LenProperties DEF Inv, BookType
<1>7. \/ UNCHANGED <<undo, undoCached>> /\ (NextPage \/ GiveUp)
      \/ /\ UNCHANGED <<undo, undoCached>> /\ e.log.undo # 0
         /\ cm' = [cm EXCEPT !.cur = e.log.undo]
      \/ e.log.tx = cm.tx /\ undo' = [undo EXCEPT ![e.at] = l] /\ NextPage
         /\ ((here = {} /\ Keep(f)) \/ undoCached' = map)
      \/ e.log.tx = cm.tx /\ undoCached' = map /\ GiveUp /\ undo' = undo
  BY DEF CommitWalk, Mark
<1>8. left' \in Left /\ left'.tx = left.tx
  BY LessLeft DEF CommitWalk, Mark
<1> HIDE DEF e
<1>9. PoolInv'
  BY <1>1, PoolIdle DEF Inv
<1>10. BookType' /\ Grows /\ LogsStored' /\ CacheStored'
  <2>1. CASE UNCHANGED <<undo, undoCached>>
    <3>1. BookType' /\ Grows
      BY <1>1, <1>6, <2>1, Quiet DEF Inv
    <3> QED
      BY <2>1, <3>1, LogsStay DEF Inv, Stored
  <2>2. CASE e.log.tx = cm.tx /\ undo' \in {undo, [undo EXCEPT ![e.at] = l]}
             /\ ((here = {} /\ Keep(f)) \/ undoCached' = map)
    <3>1. e.log \in Blank
      BY <1>4 DEF Log
    <3>2. Here(l, q) /\ l.data = e.log.data /\ l.undo = e.log.undo /\ l \in Blank
      BY <1>3, <1>5, <2>2, <3>1, MarkedIs DEF Here
    <3> HIDE DEF l
    <3>3. f \in Log /\ f.at = e.at
      BY <1>4, <3>2 DEF Log
    <3>4. undoCached' \in Seq(Log)
          /\ \A i \in 1..Len(undoCached') :
               undoCached'[i] = f \/ \E k \in 1..Len(undoCached) : undoCached'[i] = undoCached[k]
      <4>1. CASE Keep(f)
        <5>1. Places(f.at) \in SUBSET (1..Len(undoCached))
          BY <1>6 DEF Places
        <5>2. undoCached' = Trim(MoveLast(undoCached, Places(f.at), f), UndoCacheSize)
          BY <4>1 DEF Keep
        <5> HIDE DEF f
        <5> QED
          BY <1>6, <3>3, <5>1, <5>2, Kept
      <4>2. CASE undoCached' = map
        <5> HIDE DEF f, here
        <5> QED
          BY <1>6, <3>3, <4>2, CopiesMarked
      <4> QED
        BY <2>2, <4>1, <4>2
    <3>5. \A i \in 1..Len(undoCached') :
            \/ undoCached'[i] = [e EXCEPT !.log = l]
            \/ \E k \in 1..Len(undoCached) : undoCached'[i] = undoCached[k]
      BY <3>4
    <3>6. undo' \in {undo, [undo EXCEPT ![e.at] = l]} /\ UNCHANGED <<owner, commitAt, exposed>>
      BY <1>1, <2>2
    <3> HIDE DEF f, map
    <3> QED
      BY <1>4, <3>2, <3>4, <3>5, <3>6, LogMarked
  <2> QED
    BY <1>7, <2>1, <2>2
<1>11. Stored'
  BY <1>1, <1>10, PagesStay DEF Inv, Stored
<1>12. cm' \in Committer /\ Informed'
  <2>1. CASE NextPage \/ GiveUp
    BY <1>1, <1>2, <2>1, PageDone
  <2>2. CASE UNCHANGED <<undo, undoCached>> /\ e.log.undo # 0
             /\ cm' = [cm EXCEPT !.cur = e.log.undo]
    <3>1. cm' = [cm EXCEPT !.pc = "walk", !.cur = e.log.undo, !.first = cm.first]
      BY <1>1, <1>3, <2>2 DEF Committer
    <3>2. There(e.log, q)
      BY <1>5, <1>10, HereStays DEF Inv
    <3>3. cm.first \in 1..Len(undo') /\ Len(undo') \in Nat
      BY <1>2, <1>6, <2>2
    <3> QED
      BY <1>1, <1>2, <2>2, <3>1, <3>2, <3>3, Searched
  <2> QED
    BY <1>7, <2>1, <2>2
<1>13. UserInv'
  <2>1. uncommitted' \in [Tx -> Seq(Pages)] /\ commits' \in Seq([tx : Tx, at : Nat])
        /\ UNCHANGED <<cl, lastTx, lastIndex, commitAt>>
    BY <1>1 DEF Inv, UserInv, UserType
  <2> QED
    BY <1>8, <1>10, <1>12, <2>1, CommitterMoves
<1> QED
  BY <1>9, <1>10, <1>11, <1>13 DEF Inv

-----------------------------------------------------------------------------
(* The flush thread and the write thread.                                  *)

\* No block of a page that is not exposed is newer than where a reader looks first.
LEMMA AtMostNewest ==
    ASSUME PoolInv, BookType, block \in [Pages -> Blank], disk \in [Pages -> Blank],
           NEW p \in Pages, p \notin exposed, NEW b, Here(b, p)
    PROVE  b.data <= Newest(p)
<1>1. CASE b = ZeroBlock
  <2>1. LastWritten(p) \in Nat
    <3>1. writes \in Seq(Write)
      BY DEF PoolInv, PoolType
    <3>2. LastWritten(p) = LastIn(p, writes, disk)
      BY DEF LastWritten, Sent, LastIn
    <3>3. LastIn(p, writes, disk) = disk[p].data
          \/ \E i \in 1..Len(writes) : LastIn(p, writes, disk) = writes[i].block.data
      BY <3>1, LastIs
    <3>4. \A i \in 1..Len(writes) : writes[i].block.data \in Nat
      <4>1. \A i \in 1..Len(writes) : writes[i] \in Write
        BY <3>1, ElementOfSeq
      <4> QED
        BY <4>1 DEF Write, Blank
    <3> QED
      BY <3>2, <3>3, <3>4 DEF Blank
  <2>2. Newest(p) \in Nat
    BY <2>1 DEF Newest, Blank
  <2> QED
    BY <1>1, <2>2, ZeroType
<1>2. CASE b # ZeroBlock
  <2>1. b.data \in 1..Len(owner) /\ owner[b.data].page = p
    BY <1>2 DEF Here, Version
  <2> QED
    BY <2>1 DEF PoolInv, Latest
<1> QED
  BY <1>1, <1>2

\* Dirty blocks S are sent as bs, the others that are dirty are lost, and blocks that
\* were evicted leave memory.
LEMMA Sending ==
    ASSUME Inv, NEW S \in SUBSET dirty, NEW bs \in Seq(Write),
           \A i \in 1..Len(bs) : bs[i].page \in S /\ bs[i].block = block[bs[i].page],
           \A p \in S : ~NotIn(p, bs), \A p : p \notin S => NotIn(p, bs),
           writes' = writes \o bs, dirty' = {}, evicted' \in SUBSET evicted,
           dirty \ S \subseteq exposed', exposed \subseteq exposed',
           UNCHANGED <<cached, block, disk, owner>>
    PROVE  /\ writes' \in Seq(Write) /\ dirty' \in SUBSET Pages /\ IsFiniteSet(dirty')
           /\ DirtyIsHeld' /\ CleanIsWritten' /\ Latest' /\ Ordered'
           /\ \A p \in Pages : LastWritten(p)' = IF p \in S THEN block[p].data ELSE LastWritten(p)
<1>1. /\ writes \in Seq(Write) /\ block \in [Pages -> Blank] /\ disk \in [Pages -> Blank]
      /\ dirty \in SUBSET Pages /\ dirty \subseteq Held /\ Held \subseteq Pages
      /\ evicted \subseteq Held
  BY HeldPages DEF Inv, PoolInv, PoolType, DirtyIsHeld, Held
<1>2. /\ writes' \in Seq(Write) /\ Len(writes') = Len(writes) + Len(bs)
      /\ Len(writes) \in Nat /\ Len(bs) \in Nat
      /\ \A i \in 1..(Len(writes) + Len(bs)) :
           writes'[i] = IF i <= Len(writes) THEN writes[i] ELSE bs[i - Len(writes)]
  BY <1>1, ConcatProperties, LenProperties
<1>3. Held' \subseteq Held /\ DirtyIsHeld'
  <2>1. Held' \subseteq Held
    BY DEF Held
  <2> QED
    BY <2>1 DEF Inv, PoolInv, DirtyIsHeld
<1>4. \A p \in Pages : LastWritten(p)' = IF p \in S THEN block[p].data ELSE LastWritten(p)
  <2> SUFFICES ASSUME NEW p \in Pages
               PROVE  LastWritten(p)' = IF p \in S THEN block[p].data ELSE LastWritten(p)
    OBVIOUS
  <2>1. LastWritten(p) = LastIn(p, writes, disk)
    BY DEF LastWritten, Sent, LastIn
  <2>2. LastWritten(p)' = LastIn(p, writes \o bs, disk)
    BY DEF LastWritten, Sent, LastIn
  <2>3. CASE p \in S
    <3>1. ~NotIn(p, bs) /\ writes \in Seq(Write)
      BY <1>1, <2>3
    <3>2. ~NotIn(p, bs) => \E i \in 1..Len(bs) :
            bs[i].page = p /\ LastIn(p, writes \o bs, disk) = bs[i].block.data
      BY ONLY bs \in Seq(Write), <3>1, LastAfterSend
    <3>3. PICK i \in 1..Len(bs) :
            bs[i].page = p /\ LastIn(p, writes \o bs, disk) = bs[i].block.data
      BY <3>1, <3>2
    <3> QED
      BY <2>2, <2>3, <3>3
  <2>4. CASE p \notin S
    BY <1>1, <2>1, <2>2, <2>4, LastAfterSend
  <2> QED
    BY <2>3, <2>4
<1>5. \A p \in Pages : p \notin exposed' => Newest(p)' = Newest(p)
  <2> SUFFICES ASSUME NEW p \in Pages, p \notin exposed' PROVE Newest(p)' = Newest(p)
    OBVIOUS
  <2>1. p \in dirty => p \in S
    OBVIOUS
  <2>2. p \in Held /\ p \notin dirty => block[p].data = LastWritten(p)
    BY DEF Inv, PoolInv, CleanIsWritten
  <2>3. p \in Held' => p \in Held
    BY <1>3
  <2>4. p \in S => p \in Held
    BY <1>1
  <2>5. block' = block
    OBVIOUS
  <2>6. CASE p \in Held'
    BY <2>3, <2>5, <2>6 DEF Newest
  <2>7. CASE p \notin Held' /\ p \in S
    BY <1>4, <2>4, <2>7 DEF Newest
  <2>8. CASE p \notin Held' /\ p \notin S
    BY <1>4, <2>1, <2>2, <2>8 DEF Newest
  <2> QED
    BY <2>6, <2>7, <2>8
<1>6. CleanIsWritten'
  <2> SUFFICES ASSUME NEW p \in Held', p \notin exposed'
               PROVE  block'[p].data = LastWritten(p)'
    BY DEF CleanIsWritten
  <2>1. p \in Held /\ p \in Pages /\ p \notin exposed
    BY <1>1, <1>3
  <2>2. p \notin S => p \notin dirty
    OBVIOUS
  <2>3. p \notin S => block[p].data = LastWritten(p)
    BY <2>1, <2>2 DEF Inv, PoolInv, CleanIsWritten
  <2> QED
    BY <1>4, <2>1, <2>3
<1>7. Latest'
  <2>1. \A p \in Pages : p \notin exposed' => p \notin exposed
    OBVIOUS
  <2> QED
    BY <1>5, <2>1 DEF Inv, PoolInv, Latest
<1>8. Ordered'
  <2>1. \A i \in 1..Len(writes') :
          \/ i \in 1..Len(writes) /\ writes'[i] = writes[i]
          \/ /\ i > Len(writes) /\ writes'[i].page \in S
             /\ writes'[i].block = block[writes'[i].page]
    <3> SUFFICES ASSUME NEW i \in 1..Len(writes'), ~(i \in 1..Len(writes))
                 PROVE  /\ i > Len(writes) /\ writes'[i].page \in S
                        /\ writes'[i].block = block[writes'[i].page]
      BY <1>2
    <3>1. i > Len(writes) /\ i - Len(writes) \in 1..Len(bs)
      BY <1>2
    <3>2. writes'[i] = bs[i - Len(writes)]
      BY <1>2, <3>1
    <3> QED
      BY <3>1, <3>2
  <2>2. \A p \in S : p \notin exposed => Newest(p) = block[p].data
    BY <1>1 DEF Newest
  <2>3. \A p \in S : p \notin exposed => disk[p].data <= block[p].data
    <3>1. \A p \in S : p \in Pages /\ Here(disk[p], p)
      BY <1>1 DEF Inv, Stored, PagesStored
    <3> QED
      BY <1>1, <2>2, <3>1, AtMostNewest DEF Inv
  <2>4. \A i \in 1..Len(writes) : writes[i].page \in S /\ writes[i].page \notin exposed =>
          writes[i].block.data <= block[writes[i].page].data
    <3>1. \A i \in 1..Len(writes) : Here(writes[i].block, writes[i].page)
      BY DEF Inv, Stored, WritesStored
    <3> QED
      BY <1>1, <2>2, <3>1, AtMostNewest DEF Inv
  <2>5. \A p \in S : block[p].data <= block[p].data
    BY <1>1 DEF Blank
  <2> SUFFICES ASSUME NEW i \in 1..Len(writes'), writes'[i].page \notin exposed'
               PROVE  /\ disk[writes'[i].page].data <= writes'[i].block.data
                      /\ \A j \in 1..Len(writes') :
                           writes'[j].page = writes'[i].page /\ i <= j =>
                             writes'[i].block.data <= writes'[j].block.data
    BY DEF Ordered
  <2>6. writes'[i].page \notin exposed
    OBVIOUS
  <2>7. CASE i \in 1..Len(writes) /\ writes'[i] = writes[i]
    <3>1. /\ disk[writes[i].page].data <= writes[i].block.data
          /\ \A j \in 1..Len(writes) : writes[j].page = writes[i].page /\ i <= j =>
               writes[i].block.data <= writes[j].block.data
      BY <2>6, <2>7 DEF Inv, PoolInv, Ordered
    <3>2. ASSUME NEW j \in 1..Len(writes'), writes'[j].page = writes'[i].page, i <= j
          PROVE  writes'[i].block.data <= writes'[j].block.data
      <4>1. CASE j \in 1..Len(writes) /\ writes'[j] = writes[j]
        BY <2>7, <3>1, <3>2, <4>1
      <4>2. CASE writes'[j].page \in S /\ writes'[j].block = block[writes'[j].page]
        BY <2>4, <2>6, <2>7, <3>2, <4>2
      <4> QED
        BY <2>1, <4>1, <4>2
    <3> QED
      BY <2>7, <3>1, <3>2
  <2>8. CASE i > Len(writes) /\ writes'[i].page \in S
             /\ writes'[i].block = block[writes'[i].page]
    <3>1. disk[writes'[i].page].data <= writes'[i].block.data
      BY <2>3, <2>6, <2>8
    <3>2. ASSUME NEW j \in 1..Len(writes'), writes'[j].page = writes'[i].page, i <= j
          PROVE  writes'[i].block.data <= writes'[j].block.data
      <4>1. ~(j \in 1..Len(writes))
        BY <1>2, <2>8, <3>2
      <4>2. writes'[j].block = block[writes'[j].page]
        BY <2>1, <4>1
      <4> QED
        BY <2>5, <2>8, <3>2, <4>2
    <3> QED
      BY <3>1, <3>2
  <2> QED
    BY <2>1, <2>7, <2>8
<1>9. dirty' \in SUBSET Pages /\ IsFiniteSet(dirty')
  BY FS_EmptySet
<1> QED
  BY <1>2, <1>3, <1>4, <1>6, <1>7, <1>8, <1>9

\* The blocks stored stay what they are while blocks of the pool are sent.
LEMMA SentStored ==
    ASSUME Inv, BookType', Grows, NEW bs \in Seq(Write), NEW S \in SUBSET Pages,
           \A i \in 1..Len(bs) : bs[i].page \in S /\ bs[i].block = block[bs[i].page],
           writes' = writes \o bs, UNCHANGED <<block, disk, undo, undoCached>>
    PROVE  Stored'
<1>1. \A b, p : Here(b, p) => There(b, p)
  BY HereStays DEF Inv
<1>2. \A p \in Pages : There(block[p], p) /\ There(disk[p], p)
  BY <1>1 DEF Inv, Stored, PagesStored
<1>3. writes \in Seq(Write)
  BY DEF Inv, PoolInv, PoolType
<1>4. /\ Len(writes') = Len(writes) + Len(bs) /\ Len(writes) \in Nat /\ Len(bs) \in Nat
      /\ \A i \in 1..(Len(writes) + Len(bs)) :
           writes'[i] = IF i <= Len(writes) THEN writes[i] ELSE bs[i - Len(writes)]
  BY <1>3, ConcatProperties, LenProperties
<1>5. \A i \in 1..Len(writes') : There(writes'[i].block, writes'[i].page)
  <2> SUFFICES ASSUME NEW i \in 1..Len(writes')
               PROVE  There(writes'[i].block, writes'[i].page)
    OBVIOUS
  <2>1. CASE i <= Len(writes)
    <3>1. i \in 1..Len(writes) /\ writes'[i] = writes[i]
      BY <1>4, <2>1
    <3>2. Here(writes[i].block, writes[i].page)
      BY <3>1 DEF Inv, Stored, WritesStored
    <3> QED
      BY <1>1, <3>1, <3>2
  <2>2. CASE ~(i <= Len(writes))
    <3>1. i - Len(writes) \in 1..Len(bs)
      BY <1>4, <2>2
    <3>2. writes'[i] = bs[i - Len(writes)]
      BY <1>4, <2>2
    <3> QED
      BY <1>2, <3>1, <3>2
  <2> QED
    BY <2>1, <2>2
<1>6. LogsStored' /\ CacheStored'
  BY LogsStay DEF Inv, Stored
<1> QED
  BY <1>2, <1>5, <1>6 DEF Stored, PagesStored, WritesStored, Here, There

LEMMA FlushNothingInv ==
    ASSUME Inv, FlushNothing
    PROVE  Inv'
<1> DEFINE bs == <<>>
<1>1. /\ dirty = {} /\ left.flushes > 0 /\ left' = [left EXCEPT !.flushes = @ - 1]
      /\ evicted' = {} /\ fl.pc = "idle"
      /\ UNCHANGED <<cached, block, dirty, undo, undoCached, disk, writes, fl, owner,
                     exposed, commitAt>>
      /\ UNCHANGED <<cl, cm, log, uncommitted>>
  BY DEF FlushNothing, undoVars, log
<1>2. BookType' /\ Grows
  BY <1>1, Quiet DEF Inv, BookType
<1>3. Stored'
  BY <1>1, <1>2, PagesStay, LogsStay DEF Inv, Stored
<1>4. writes' = writes \o bs /\ bs \in Seq(Write) /\ Len(bs) = 0
  <2>1. writes \in Seq(Write)
    BY DEF Inv, PoolInv, PoolType
  <2> QED
    BY <1>1, <2>1, NoEntry, ConcatEmptySeq
<1>5. \A p : NotIn(p, bs)
  BY <1>4 DEF NotIn
<1>6. \A i \in 1..Len(bs) : bs[i].page \in {} /\ bs[i].block = block[bs[i].page]
  BY <1>4
<1> HIDE DEF bs
<1>7. DirtyIsHeld' /\ CleanIsWritten' /\ Latest' /\ Ordered'
  <2>1. dirty' = {} /\ evicted' \in SUBSET evicted /\ dirty \ {} \subseteq exposed'
        /\ exposed \subseteq exposed' /\ UNCHANGED <<cached, block, disk, owner>>
        /\ {} \in SUBSET dirty
    BY <1>1
  <2> QED
    BY <1>4, <1>5, <1>6, <2>1, Sending
<1>8. PoolType'
  BY <1>1 DEF Inv, PoolInv, PoolType
<1>9. Covered'
  BY <1>1 DEF Covered, FlushIsSafe
<1>10. UserInv'
  <2>1. left' \in Left /\ left'.tx = left.tx
    BY <1>1, LessLeft
  <2> QED
    BY <1>1, <1>2, <1>3, <2>1, UsersWait DEF Stored
<1> QED
  BY <1>2, <1>3, <1>7, <1>8, <1>9, <1>10 DEF Inv, PoolInv

LEMMA FlushAllInv ==
    ASSUME Inv, FlushAll
    PROVE  Inv'
<1> DEFINE bs == Blocks(dirty)
<1>1. /\ left.flushes > 0 /\ left' = [left EXCEPT !.flushes = @ - 1]
      /\ writes' = writes \o bs
      /\ fl' = [pc |-> "wait", cover |-> {block[p].data : p \in dirty} \ {0}]
      /\ dirty' = {} /\ evicted' = {}
      /\ UNCHANGED <<cached, block, undo, undoCached, disk, owner, exposed, commitAt>>
      /\ UNCHANGED <<cl, cm, log, uncommitted>>
  BY DEF FlushAll, undoVars, log
<1>2. block \in [Pages -> Blank] /\ dirty \in SUBSET Pages /\ IsFiniteSet(dirty)
  BY DEF Inv, PoolInv, PoolType
<1>3. /\ bs \in Seq(Write)
      /\ \A i \in 1..Len(bs) : bs[i].page \in dirty /\ bs[i].block = block[bs[i].page]
      /\ \A p \in dirty : ~NotIn(p, bs)
      /\ \A p : p \notin dirty => NotIn(p, bs)
  BY <1>2, BlocksOf
<1> HIDE DEF bs
<1>4. BookType' /\ Grows
  BY <1>1, Quiet DEF Inv, BookType
<1>5. Stored'
  BY <1>1, <1>2, <1>3, <1>4, SentStored
<1>6. /\ writes' \in Seq(Write) /\ dirty' \in SUBSET Pages /\ IsFiniteSet(dirty')
      /\ DirtyIsHeld' /\ CleanIsWritten' /\ Latest' /\ Ordered'
      /\ \A p \in Pages :
           LastWritten(p)' = IF p \in dirty THEN block[p].data ELSE LastWritten(p)
  <2>1. dirty \in SUBSET dirty /\ evicted' \in SUBSET evicted /\ dirty \ dirty \subseteq exposed'
        /\ exposed \subseteq exposed' /\ UNCHANGED <<cached, block, disk, owner>>
    BY <1>1
  <2> QED
    BY <1>1, <1>3, <2>1, Sending
<1>7. PoolType'
  <2>1. fl' \in [pc : {"idle", "wait", "synced"}, cover : SUBSET Nat]
    <3>1. {block[p].data : p \in dirty} \ {0} \in SUBSET Nat
      BY <1>2 DEF Blank
    <3> QED
      BY <1>1, <3>1
  <2>2. cached' \in Seq(Pages) /\ evicted' \in SUBSET Pages /\ block' \in [Pages -> Blank]
        /\ disk' \in [Pages -> Blank]
    BY <1>1 DEF Inv, PoolInv, PoolType
  <2> QED
    BY <1>6, <2>1, <2>2 DEF PoolType
<1>8. Covered'
  <2>1. fl'.pc = "wait" /\ fl'.cover = {block[p].data : p \in dirty} \ {0}
    BY <1>1
  <2>2. ASSUME NEW p \in dirty, block[p].data # 0
        PROVE  block[p].data \in 1..Len(owner) /\ owner[block[p].data].page = p
    <3>1. Here(block[p], p)
      BY <1>2 DEF Inv, Stored, PagesStored
    <3>2. block[p] # ZeroBlock
      BY <2>2, ZeroType
    <3> QED
      BY <3>1, <3>2 DEF Here, Version
  <2>3. fl'.cover \subseteq 1..Len(owner)
    BY <2>1, <2>2
  <2>4. ASSUME NEW v \in fl'.cover, NEW p \in Pages, owner[v].page = p
        PROVE  v <= LastWritten(p)'
    <3>1. PICK q \in dirty : v = block[q].data /\ v # 0
      BY <2>1, <2>4
    <3>2. q = p /\ v \in 1..Len(owner)
      BY <2>2, <2>4, <3>1
    <3>3. LastWritten(p)' = v
      BY <1>6, <3>1, <3>2
    <3> QED
      BY <3>2, <3>3
  <2>5. FlushIsSafe'
    BY <2>1 DEF FlushIsSafe
  <2> QED
    BY <1>1, <2>3, <2>4, <2>5 DEF Covered
<1>9. UserInv'
  <2>1. left' \in Left /\ left'.tx = left.tx
    BY <1>1, LessLeft
  <2> QED
    BY <1>1, <1>4, <1>5, <2>1, UsersWait DEF Stored
<1> QED
  BY <1>4, <1>5, <1>6, <1>7, <1>8, <1>9 DEF Inv, PoolInv

LEMMA FlushFailInv ==
    ASSUME Inv, FlushFail
    PROVE  Inv'
<1>1. /\ fl.pc = "idle" /\ left.flushes > 0 /\ left' = [left EXCEPT !.flushes = @ - 1]
      /\ dirty' = {}
      /\ UNCHANGED <<cached, block, undo, undoCached, disk, fl, owner, commitAt>>
      /\ UNCHANGED <<cl, cm, log, uncommitted>>
  BY DEF FlushFail, undoVars, log
<1>2. PICK p \in dirty : /\ writes' = writes \o Blocks({q \in dirty : q < p})
                         /\ evicted' = evicted \ {q \in dirty : q <= p}
                         /\ exposed' = exposed \cup {q \in dirty : q >= p}
  BY DEF FlushFail, Unfit
<1> DEFINE S == {q \in dirty : q < p}
           bs == Blocks(S)
<1>3. /\ block \in [Pages -> Blank] /\ dirty \in SUBSET Pages /\ IsFiniteSet(dirty)
      /\ exposed \in SUBSET Pages
  BY DEF Inv, PoolInv, PoolType, BookType
<1>4. S \in SUBSET dirty /\ S \in SUBSET Pages /\ IsFiniteSet(S)
  BY <1>3, FS_Subset
<1>5. dirty \ S \subseteq exposed' /\ exposed \subseteq exposed' /\ exposed' \in SUBSET Pages
  <2>1. \A q \in dirty : ~(q < p) => q >= p
    BY <1>3, PagesAssumption
  <2> QED
    BY <1>2, <1>3, <2>1
<1>6. writes' = writes \o bs /\ evicted' \in SUBSET evicted
  BY <1>2
<1> HIDE DEF S
<1>7. /\ bs \in Seq(Write)
      /\ \A i \in 1..Len(bs) : bs[i].page \in S /\ bs[i].block = block[bs[i].page]
      /\ \A q \in S : ~NotIn(q, bs)
      /\ \A q : q \notin S => NotIn(q, bs)
  BY <1>3, <1>4, BlocksOf
<1> HIDE DEF bs
<1>8. BookType'
  BY <1>1, <1>5 DEF Inv, BookType
<1>9. Grows
  <2>1. Len(undo) \in Nat /\ Len(owner) \in Nat
    BY LenProperties DEF Inv, BookType
  <2> QED
    BY <1>1, <1>5, <2>1 DEF Grows
<1>10. Stored'
  BY <1>1, <1>4, <1>6, <1>7, <1>8, <1>9, SentStored
<1>11. /\ writes' \in Seq(Write) /\ dirty' \in SUBSET Pages /\ IsFiniteSet(dirty')
       /\ DirtyIsHeld' /\ CleanIsWritten' /\ Latest' /\ Ordered'
  <2>1. UNCHANGED <<cached, block, disk, owner>>
    BY <1>1
  <2> QED
    BY <1>1, <1>4, <1>5, <1>6, <1>7, <2>1, Sending
<1>12. PoolType'
  BY <1>1, <1>6, <1>11 DEF Inv, PoolInv, PoolType
<1>13. Covered'
  BY <1>1 DEF Covered, FlushIsSafe
<1>14. UserInv'
  <2>1. left' \in Left /\ left'.tx = left.tx
    BY <1>1, LessLeft
  <2> QED
    BY <1>1, <1>8, <1>9, <1>10, <2>1, UsersWait DEF Stored
<1> QED
  BY <1>8, <1>10, <1>11, <1>12, <1>13, <1>14 DEF Inv, PoolInv

\* While the flush thread waits and answers the pool is not its concern.
LEMMA OnlyFlush ==
    ASSUME Inv, UNCHANGED <<pool, undo, undoCached, uncommitted, disk, writes, cl, log, cm,
                            owner, exposed>>,
           left' \in Left, left'.tx = left.tx, Covered',
           fl' \in [pc : {"idle", "wait", "synced"}, cover : SUBSET Nat]
    PROVE  Inv'
<1>1. UNCHANGED <<cached, evicted, block, dirty, commitAt>>
  BY DEF pool, log
<1>2. BookType' /\ Grows
  BY <1>1, Quiet DEF Inv, BookType
<1>3. Stored'
  BY <1>1, <1>2, PagesStay, LogsStay DEF Inv, Stored
<1>4. PoolType'
  BY <1>1 DEF Inv, PoolInv, PoolType
<1>5. \A p \in Pages : LastWritten(p)' = LastWritten(p)
  BY DEF LastWritten, Sent
<1>6. DirtyIsHeld'
  BY <1>1 DEF Inv, PoolInv, DirtyIsHeld, Held
<1>7. CleanIsWritten'
  BY <1>1, <1>5, HeldPages DEF Inv, PoolInv, CleanIsWritten, Held
<1>8. Latest'
  <2>1. \A p \in Pages : Newest(p)' = Newest(p)
    BY <1>1, <1>5 DEF Newest, Held
  <2> QED
    BY <2>1 DEF Inv, PoolInv, Latest
<1>9. Ordered'
  BY DEF Inv, PoolInv, Ordered
<1>10. UserInv'
  BY <1>2, <1>3, UsersWait DEF Stored
<1> QED
  BY <1>2, <1>3, <1>4, <1>6, <1>7, <1>8, <1>9, <1>10 DEF Inv, PoolInv

LEMMA FlushSyncInv ==
    ASSUME Inv, FlushSync
    PROVE  Inv'
<1>1. /\ fl.pc = "wait" /\ writes = <<>>
      /\ UNCHANGED <<pool, undo, undoCached, uncommitted, disk, writes, cl, log, cm, owner,
                     exposed>>
      /\ fl' = [fl EXCEPT !.pc = "synced"] \/ fl' = [pc |-> "idle", cover |-> {}]
  BY DEF FlushSync, undoVars
<1>2. left' \in Left /\ left'.tx = left.tx
  BY LessLeft DEF FlushSync
<1>3. fl \in [pc : {"idle", "wait", "synced"}, cover : SUBSET Nat]
  BY DEF Inv, PoolInv, PoolType
<1>4. fl' \in [pc : {"idle", "wait", "synced"}, cover : SUBSET Nat]
      /\ (fl'.pc = "idle" \/ (fl'.pc = "synced" /\ fl'.cover = fl.cover))
  BY <1>1, <1>3
<1>5. Covered'
  <2>1. fl.cover \subseteq 1..Len(owner)
    BY <1>1 DEF Inv, PoolInv, Covered
  <2>2. ASSUME NEW v \in fl.cover PROVE owner[v].page \in exposed \/ v <= disk[owner[v].page].data
    <3> DEFINE p == owner[v].page
    <3>1. p \in Pages
      <4>1. owner \in Seq(Maker) /\ v \in 1..Len(owner)
        BY <2>1, <2>2 DEF Inv, BookType
      <4>2. owner[v] \in Maker
        BY <4>1, ElementOfSeq
      <4> QED
        BY <4>2 DEF Maker
    <3>2. p \in exposed \/ v <= LastWritten(p)
      BY <1>1, <2>2, <3>1 DEF Inv, PoolInv, Covered
    <3>3. LastWritten(p) = disk[p].data
      <4>1. Sent(p) = {}
        BY <1>1, NoEntry, LenProperties DEF Sent
      <4> QED
        BY <4>1 DEF LastWritten
    <3> QED
      BY <3>2, <3>3
  <2>3. FlushIsSafe'
    BY <1>1, <1>4, <2>2 DEF FlushIsSafe
  <2> QED
    BY <1>1, <1>4, <2>1, <2>3 DEF Covered
<1> QED
  BY <1>1, <1>2, <1>4, <1>5, OnlyFlush

LEMMA FlushAnswerInv ==
    ASSUME Inv, FlushAnswer
    PROVE  Inv'
<1>1. /\ UNCHANGED <<pool, undo, undoCached, uncommitted, disk, writes, cl, log, cm, owner,
                     exposed, left>>
      /\ fl' = [pc |-> "idle", cover |-> {}]
  BY DEF FlushAnswer, undoVars
<1>2. fl' \in [pc : {"idle", "wait", "synced"}, cover : SUBSET Nat] /\ fl'.pc = "idle"
  BY <1>1
<1>3. Covered'
  BY <1>2 DEF Covered, FlushIsSafe
<1>4. left' \in Left /\ left'.tx = left.tx
  BY <1>1, LessLeft
<1> QED
  BY <1>1, <1>2, <1>3, <1>4, OnlyFlush

LEMMA WriteBlockInv ==
    ASSUME Inv, WriteBlock
    PROVE  Inv'
<1> DEFINE w == Head(writes)
<1>1. /\ writes # <<>> /\ writes' = Tail(writes)
      /\ UNCHANGED <<cached, evicted, block, dirty, undo, undoCached, fl, owner, commitAt>>
      /\ UNCHANGED <<cl, cm, log, uncommitted>>
      /\ \/ disk' = [disk EXCEPT ![w.page] = w.block] /\ exposed' = exposed
         \/ exposed' = exposed \cup {w.page} /\ disk' = disk
  BY DEF WriteBlock, pool, undoVars, log
<1>2. left' \in Left /\ left'.tx = left.tx
  BY LessLeft DEF WriteBlock
<1>3. /\ writes \in Seq(Write) /\ disk \in [Pages -> Blank] /\ exposed \in SUBSET Pages
  BY DEF Inv, PoolInv, PoolType, BookType
<1>4. /\ Len(writes) \in Nat \ {0} /\ w = writes[1] /\ w \in Write
      /\ writes' \in Seq(Write) /\ Len(writes') = Len(writes) - 1
      /\ \A i \in 1..Len(writes') : writes'[i] = writes[i + 1]
  BY <1>1, <1>3, HeadLeaves
<1>5. w.page \in Pages /\ w.block \in Blank
  BY <1>4 DEF Write
<1>6. \A i \in 1..Len(writes') : i + 1 \in 1..Len(writes) /\ 1 <= i + 1
  BY <1>4
<1>7. 1 \in 1..Len(writes)
  BY <1>4
<1> HIDE DEF w
<1>8. disk' \in [Pages -> Blank] /\ exposed' \in SUBSET Pages /\ exposed \subseteq exposed'
  BY <1>1, <1>3, <1>5
<1>9. \A p \in Pages : p # w.page => disk'[p] = disk[p]
  BY <1>1, <1>3
<1>10. w.page \notin exposed' => disk'[w.page] = w.block
  BY <1>1, <1>3, <1>5
<1>11. BookType'
  BY <1>1, <1>8 DEF Inv, BookType
<1>12. Grows
  <2>1. Len(undo) \in Nat /\ Len(owner) \in Nat
    BY LenProperties DEF Inv, BookType
  <2> QED
    BY <1>1, <1>8, <2>1 DEF Grows
<1>13. Stored'
  <2>1. \A b, p : Here(b, p) => There(b, p)
    BY <1>11, <1>12, HereStays DEF Inv
  <2>2. \A i \in 1..Len(writes) : There(writes[i].block, writes[i].page)
    BY <2>1 DEF Inv, Stored, WritesStored
  <2>3. \A i \in 1..Len(writes') : There(writes'[i].block, writes'[i].page)
    BY <1>4, <1>6, <2>2
  <2>4. There(w.block, w.page)
    BY <1>4, <1>7, <2>2
  <2>5. \A p \in Pages : There(block[p], p) /\ There(disk[p], p)
    BY <2>1 DEF Inv, Stored, PagesStored
  <2>6. \A p \in Pages : disk'[p] = disk[p] \/ (p = w.page /\ disk'[p] = w.block)
    BY <1>1, <1>3, <1>5
  <2>7. \A p \in Pages : There(block[p], p) /\ There(disk'[p], p)
    BY <2>4, <2>5, <2>6
  <2>8. LogsStored' /\ CacheStored'
    BY <1>1, <1>11, <1>12, LogsStay DEF Inv, Stored
  <2> QED
    BY <1>1, <2>3, <2>7, <2>8 DEF Stored, PagesStored, WritesStored, Here, There
<1>14. \A p \in Pages : p \notin exposed' => LastWritten(p)' = LastWritten(p)
  <2> SUFFICES ASSUME NEW p \in Pages, p \notin exposed' PROVE LastWritten(p)' = LastWritten(p)
    OBVIOUS
  <2>1. LastWritten(p) = LastIn(p, writes, disk)
    BY DEF LastWritten, Sent, LastIn
  <2>2. LastWritten(p)' = LastIn(p, Tail(writes), disk')
    BY <1>1 DEF LastWritten, Sent, LastIn
  <2>3. p = Head(writes).page => disk'[p] = Head(writes).block
    BY <1>10 DEF w
  <2>4. p # Head(writes).page => disk'[p] = disk[p]
    BY <1>9 DEF w
  <2>5. LastIn(p, Tail(writes), disk') = LastIn(p, writes, disk)
    BY <1>1, <1>3, <2>3, <2>4, LastAfterHead
  <2> QED
    BY <2>1, <2>2, <2>5
<1>15. PoolType'
  BY <1>1, <1>4, <1>8 DEF Inv, PoolInv, PoolType
<1>16. DirtyIsHeld'
  BY <1>1 DEF Inv, PoolInv, DirtyIsHeld, Held
<1>17. CleanIsWritten'
  <2>1. Held \subseteq Pages
    BY HeldPages DEF Inv, PoolInv
  <2>2. Held' = Held
    BY <1>1 DEF Held
  <2> QED
    BY <1>1, <1>8, <1>14, <2>1, <2>2 DEF Inv, PoolInv, CleanIsWritten
<1>18. Latest'
  <2>1. \A p \in Pages : p \notin exposed' => p \notin exposed /\ Newest(p)' = Newest(p)
    BY <1>1, <1>8, <1>14 DEF Newest, Held
  <2> QED
    BY <1>1, <2>1 DEF Inv, PoolInv, Latest
<1>19. \A i \in 1..Len(writes) : writes[i].page \notin exposed =>
         /\ disk[writes[i].page].data <= writes[i].block.data
         /\ \A j \in 1..Len(writes) : writes[j].page = writes[i].page /\ i <= j =>
              writes[i].block.data <= writes[j].block.data
  BY DEF Inv, PoolInv, Ordered
<1>20. Ordered'
  <2> SUFFICES ASSUME NEW i \in 1..Len(writes'), writes'[i].page \notin exposed'
               PROVE  /\ disk'[writes'[i].page].data <= writes'[i].block.data
                      /\ \A j \in 1..Len(writes') :
                           writes'[j].page = writes'[i].page /\ i <= j =>
                             writes'[i].block.data <= writes'[j].block.data
    BY DEF Ordered
  <2>1. /\ i + 1 \in 1..Len(writes) /\ writes'[i] = writes[i + 1]
        /\ writes[i + 1].page \notin exposed
    BY <1>4, <1>6, <1>8
  <2>2. writes[i + 1].page \in Pages
    <3>1. writes[i + 1] \in Write
      BY <1>3, <2>1, ElementOfSeq
    <3> QED
      BY <3>1 DEF Write
  <2>3. disk'[writes'[i].page].data <= writes'[i].block.data
    <3>1. CASE writes[i + 1].page = w.page
      <4>1. disk'[w.page] = w.block
        BY <1>10, <2>1, <3>1
      <4>2. writes[1].block.data <= writes[i + 1].block.data
        BY <1>4, <1>6, <1>7, <1>19, <2>1, <3>1
      <4> QED
        BY <1>4, <2>1, <3>1, <4>1, <4>2
    <3>2. CASE writes[i + 1].page # w.page
      BY <1>9, <1>19, <2>1, <2>2, <3>2
    <3> QED
      BY <3>1, <3>2
  <2>4. ASSUME NEW j \in 1..Len(writes'), writes'[j].page = writes'[i].page, i <= j
        PROVE  writes'[i].block.data <= writes'[j].block.data
    <3>1. j + 1 \in 1..Len(writes) /\ writes'[j] = writes[j + 1] /\ i + 1 <= j + 1
      BY <1>4, <1>6, <2>4
    <3> QED
      BY <1>19, <2>1, <2>4, <3>1
  <2> QED
    BY <2>3, <2>4
<1>21. Covered'
  <2>1. \A p \in Pages : p \notin exposed' => disk[p].data <= disk'[p].data
    <3> SUFFICES ASSUME NEW p \in Pages, p \notin exposed' PROVE disk[p].data <= disk'[p].data
      OBVIOUS
    <3>1. CASE p = w.page
      <4>1. disk'[p] = w.block /\ w = writes[1] /\ p \notin exposed
        BY <1>4, <1>8, <1>10, <3>1
      <4> QED
        BY <1>7, <1>19, <3>1, <4>1
    <3>2. CASE p # w.page
      BY <1>3, <1>9, <3>2 DEF Blank
    <3> QED
      BY <3>1, <3>2
  <2>2. fl.pc # "idle" => fl.cover \subseteq 1..Len(owner)
    BY DEF Inv, PoolInv, Covered
  <2>3. FlushIsSafe'
    <3> SUFFICES ASSUME fl.pc = "synced", NEW v \in fl.cover, owner[v].page \notin exposed'
                 PROVE  v <= disk'[owner[v].page].data
      BY <1>1 DEF FlushIsSafe
    <3>1. v \in 1..Len(owner) /\ owner \in Seq(Maker)
      BY <2>2 DEF Inv, BookType
    <3>2. owner[v] \in Maker
      BY <3>1, ElementOfSeq
    <3>3. owner[v].page \in Pages
      BY <3>2 DEF Maker
    <3>4. v <= disk[owner[v].page].data
      BY <1>8 DEF Inv, PoolInv, Covered, FlushIsSafe
    <3>5. disk[owner[v].page].data <= disk'[owner[v].page].data
      BY <2>1, <3>3
    <3>6. v \in Nat /\ disk[owner[v].page].data \in Nat /\ disk'[owner[v].page].data \in Nat
      BY <1>3, <1>8, <3>1, <3>3 DEF Blank
    <3> QED
      BY <3>4, <3>5, <3>6
  <2>4. fl.pc = "wait" => \A v \in fl.cover : \A p \in Pages :
          owner[v].page = p => p \in exposed' \/ v <= LastWritten(p)'
    BY <1>8, <1>14 DEF Inv, PoolInv, Covered
  <2> QED
    BY <1>1, <2>2, <2>3, <2>4 DEF Covered
<1>22. UserInv'
  BY <1>1, <1>2, <1>11, <1>12, <1>13, UsersWait DEF Stored
<1> QED
  BY <1>11, <1>13, <1>15, <1>16, <1>17, <1>18, <1>20, <1>21, <1>22 DEF Inv, PoolInv

-----------------------------------------------------------------------------
(* The theorems.                                                           *)

LEMMA InitInv == Init => Inv
<1> SUFFICES ASSUME Init PROVE Inv
  OBVIOUS
<1> USE DEF Init
<1>1. /\ MaxTx \in Nat /\ MaxCacheSize \in Nat \ {0}
      /\ Budgets \subseteq [tx : 0..MaxTx, pages : SUBSET Pages, inserts : Nat, errors : Nat,
                            flushes : Nat]
  BY BudgetAssumption, CacheAssumption
<1>2. /\ undo \in Seq(Blank) /\ Len(undo) = 1 /\ undo[1] = ZeroBlock
      /\ <<>> \in Seq(Pages) /\ <<>> \in Seq(Write) /\ <<>> \in Seq(Log) /\ <<>> \in Seq(Maker)
      /\ <<>> \in Seq([tx : Tx, at : Nat]) /\ Len(<<>>) = 0
  BY ZeroType, NoEntry
<1>3. /\ \A p \in Pages : block[p] = ZeroBlock /\ disk[p] = ZeroBlock
      /\ \A p \in Pages : disk[p].data = 0 /\ block[p].data = 0
      /\ Held = {}
  <2>1. ToSet(<<>>) = {}
    BY <1>2, LenProperties DEF ToSet
  <2> QED
    BY <2>1, ZeroType DEF Held
<1>4. PoolType
  <2>1. IsFiniteSet(dirty)
    BY FS_EmptySet
  <2>2. block \in [Pages -> Blank] /\ disk \in [Pages -> Blank]
    BY ZeroType
  <2>3. fl \in [pc : {"idle", "wait", "synced"}, cover : SUBSET Nat]
    OBVIOUS
  <2> QED
    BY <1>2, <2>1, <2>2, <2>3 DEF PoolType
<1>5. DirtyIsHeld
  <2>1. DOMAIN cached = {} /\ Len(cached) = 0 /\ ToSet(cached) = {}
    BY <1>2, LenProperties DEF ToSet
  <2> QED
    BY <1>1, <2>1 DEF DirtyIsHeld
<1>6. CleanIsWritten /\ Latest /\ Ordered /\ Covered
  BY <1>2, <1>3 DEF CleanIsWritten, Latest, Ordered, Covered, FlushIsSafe
<1>7. BookType
  BY <1>2 DEF BookType
<1>8. Stored
  <2>1. \A p : Here(ZeroBlock, p)
    BY DEF Here, Version
  <2>2. PagesStored /\ WritesStored
    BY <1>2, <1>3, <2>1 DEF PagesStored, WritesStored
  <2>3. LogsStored
    BY <1>2, <2>1, ZeroType DEF LogsStored
  <2>4. CacheStored
    BY <1>2 DEF CacheStored
  <2> QED
    BY <2>2, <2>3, <2>4 DEF Stored
<1>9. UserType
  <2>1. left \in Left /\ left.tx <= MaxTx /\ left.tx \in Nat
    BY <1>1 DEF Left
  <2>2. uncommitted \in [Tx -> Seq(Pages)] /\ cl \in [Clients -> Client] /\ cm \in Committer
    BY <1>2, IdleType, NoCommitType
  <2>3. lastTx \in Nat /\ lastIndex \in Nat /\ lastTx + left.tx <= MaxTx
    BY <2>1
  <2> QED
    BY <1>2, <2>1, <2>2, <2>3 DEF UserType, Left
<1>10. InHand
  <2>1. \A c \in Clients : cl[c].pc = "idle"
    BY IdleType
  <2> QED
    BY <2>1, IdleOK DEF InHand
<1>11. Informed
  BY <1>2, NoCommitType DEF Informed
<1>12. Transactions
  BY IdleType DEF Transactions
<1> QED
  BY <1>4, <1>5, <1>6, <1>7, <1>8, <1>9, <1>10, <1>11, <1>12 DEF Inv, PoolInv, UserInv

LEMMA StepInv ==
    ASSUME Inv, [Next]_vars
    PROVE  Inv'
<1>1. ASSUME NEW c \in Clients, Cursor(c) PROVE Inv'
  <2>1. left.pages \subseteq Pages
    BY DEF Inv, UserInv, UserType
  <2>2. ASSUME NEW p \in left.pages, Get(c, p) \/ Insert(c, p) PROVE Inv'
    BY <2>1, <2>2, GetInv, InsertInv
  <2> QED
    BY <1>1, <2>2, BeginInv, CommitInv, AbandonInv, GetReadInv, GetFillInv, WalkInv, EndInv,
       InsertReadInv, InsertUndoInv, InsertNewInv, InsertMarkInv DEF Cursor
<1>2. ASSUME CommitThread PROVE Inv'
  BY <1>2, CommitTakeInv, CommitPageInv, CommitReadInv, CommitFillInv, CommitWalkInv
     DEF CommitThread
<1>3. ASSUME FlushThread PROVE Inv'
  BY <1>3, FlushNothingInv, FlushAllInv, FlushFailInv, FlushSyncInv, FlushAnswerInv
     DEF FlushThread
<1>4. ASSUME UNCHANGED vars PROVE Inv'
  <2>1. UNCHANGED <<pool, undo, undoCached, uncommitted, disk, writes, cl, log, cm, fl, owner,
                    exposed, left>>
    BY <1>4 DEF vars, undoVars
  <2>2. left' \in Left /\ left'.tx = left.tx
    BY <2>1, LessLeft
  <2>3. Covered'
    BY <2>1 DEF Inv, PoolInv, Covered, FlushIsSafe, LastWritten, Sent
  <2>4. fl' \in [pc : {"idle", "wait", "synced"}, cover : SUBSET Nat]
    BY <2>1 DEF Inv, PoolInv, PoolType
  <2> QED
    BY <2>1, <2>2, <2>3, <2>4, OnlyFlush
<1> QED
  BY <1>1, <1>2, <1>3, <1>4, WriteBlockInv DEF Next, Quiescent

\* Every block that is cached, on disk, on its way there, kept in an undo log or held by a
\* thread is a page of zeros or a version of its page that links to the version before it;
\* what may be dropped is written, and the newest version is where a reader looks first.
THEOREM PoolInvariant == Spec => []Inv
<1>1. Inv /\ [Next]_vars => Inv'
  BY StepInv
<1> QED
  BY <1>1, InitInv, PTL DEF Spec

\* The None of a block or of an undo log, for which nothing is written and a byte of the
\* data is read back, stays None: only a page of zeros is without an undo log.
THEOREM NoneStaysNone == Spec => []NoneReadsBack
<1>1. Inv => NoneReadsBack
  <2> SUFFICES ASSUME Inv PROVE NoneReadsBack
    OBVIOUS
  <2>1. \A b, p : Here(b, p) /\ b.undo = 0 => b.data = 0
    BY ZeroType DEF Here, Version
  <2>2. DOMAIN undo = 1..Len(undo)
    BY LenProperties DEF Inv, BookType
  <2>3. \A i \in 1..Len(undo) : \E p \in Nat : Here(undo[i], p)
    BY DEF Inv, Stored, LogsStored
  <2>4. \A p \in Pages : Here(block[p], p) /\ Here(disk[p], p)
    BY DEF Inv, Stored, PagesStored
  <2> QED
    BY <2>1, <2>2, <2>3, <2>4 DEF NoneReadsBack
<1> QED
  BY <1>1, PoolInvariant, PTL

\* flush_all finds the block of every page that is marked dirty, the cache is below its
\* limit, and no page is both cached and evicted.
THEOREM DirtyAlwaysHeld == Spec => []DirtyIsHeld
<1>1. Inv => DirtyIsHeld
  BY DEF Inv, PoolInv
<1> QED
  BY <1>1, PoolInvariant, PTL

\* A block in memory that is not marked dirty is the one on disk, or on its way there.
THEOREM CleanAlwaysWritten == Spec => []CleanIsWritten
<1>1. Inv => CleanIsWritten
  BY DEF Inv, PoolInv
<1> QED
  BY <1>1, PoolInvariant, PTL

\* When flush_all answers, what was dirty when it began is in data.db, or something newer.
THEOREM FlushAlwaysSafe == Spec => []FlushIsSafe
<1>1. Inv => FlushIsSafe
  BY DEF Inv, PoolInv, Covered
<1> QED
  BY <1>1, PoolInvariant, PTL

\* A get that returns Ok does not miss a version its snapshot covers, however late the
\* commit thread is and wherever the version is by now.
THEOREM SnapshotsSeeCommitted == Spec => []SnapshotSeesCommitted
<1>1. Inv => SnapshotSeesCommitted
  <2> SUFFICES ASSUME Inv, NEW c \in Clients, cl[c].pc = "done", cl[c].page \notin exposed,
                      NEW v \in Committed(cl[c].page, cl[c].snap)
               PROVE  v <= cl[c].got.data
    BY DEF SnapshotSeesCommitted
  <2>1. DOMAIN owner = 1..Len(owner)
    BY LenProperties DEF Inv, BookType
  <2>2. v \in Shown(cl[c].page, cl[c].snap, owner, commitAt)
    BY <2>1 DEF Committed, Shown
  <2> QED
    BY <2>2 DEF Inv, UserInv, InHand, ClientOK, Finds
<1> QED
  BY <1>1, PoolInvariant, PTL

\* What a search goes on to is older than the log it has read.
LEMMA Older ==
    ASSUME Inv, NEW w, w.cur \in 1..Len(undo), w.first \in 1..Len(undo)
    PROVE  \/ Reached(w).log.undo < w.cur
           \/ w.cur # w.first /\ Places(w.cur) = {}
<1>1. /\ Copy(Reached(w), undo)
      /\ Reached(w).at = IF Places(w.cur) = {} THEN w.first ELSE w.cur
  BY ReachedIs
<1>2. \A i \in 1..Len(undo) : undo[i].undo < i
  BY DEF Inv, Stored, LogsStored
<1>3. Reached(w).log.undo < Reached(w).at
  BY <1>1, <1>2 DEF Copy
<1> QED
  BY <1>1, <1>3

\* Every turn of a search in the undo logs goes on to an older log, ends the search, or
\* is the one that reads the first log of the chain again.
THEOREM WalksDescend == Spec => WalkDescends
<1>1. Inv /\ [Next]_vars =>
        [/\ CommitWalk => Falls(cm, cm')
         /\ \A c \in Clients : Walk(c) => Falls(cl[c], cl'[c])]_vars
  <2> SUFFICES ASSUME Inv
               PROVE  /\ CommitWalk => Falls(cm, cm')
                      /\ \A c \in Clients : Walk(c) => Falls(cl[c], cl'[c])
    OBVIOUS
  <2>1. ASSUME CommitWalk, cm'.pc = "walk"
        PROVE  cm'.cur < cm.cur \/ (cm.cur # cm.first /\ Places(cm.cur) = {})
    <3>1. cm.pc = "walk" /\ cm.pages # <<>>
      BY <2>1 DEF CommitWalk, Inv, UserInv, Informed
    <3>2. cm \in Committer
      BY DEF Inv, UserInv, UserType
    <3>3. NextPage \/ GiveUp => cm'.pc = "page"
      BY <3>2, NoCommitType DEF NextPage, GiveUp, Committer
    <3>4. cm' = [cm EXCEPT !.cur = Reached(cm).log.undo]
      BY <2>1, <3>3 DEF CommitWalk, Mark
    <3>5. cm'.cur = Reached(cm).log.undo
      BY <3>2, <3>4 DEF Committer
    <3> QED
      BY <3>1, <3>5, Older DEF Inv, UserInv, Informed
  <2>2. ASSUME NEW c \in Clients, Walk(c), cl'[c].pc = "walk"
        PROVE  cl'[c].cur < cl[c].cur \/ (cl[c].cur # cl[c].first /\ Places(cl[c].cur) = {})
    <3>1. cl[c].pc = "walk" /\ cl[c] \in Client /\ cl \in [Clients -> Client]
      BY <2>2 DEF Walk, Inv, UserInv, UserType
    <3>2. Ready(c) => cl'[c].pc = "idle"
      BY <3>1 DEF Ready, Goto, Client
    <3>3. \A l : Goto(c, [cl[c] EXCEPT !.pc = "done", !.got = l, !.cur = 0, !.first = 0])
             => cl'[c].pc = "done"
      BY <3>1 DEF Goto, Client
    <3>4. Goto(c, [cl[c] EXCEPT !.cur = Reached(cl[c]).log.undo])
      BY <2>2, <3>2, <3>3 DEF Walk
    <3>5. cl'[c].cur = Reached(cl[c]).log.undo
      BY <3>1, <3>4 DEF Goto, Client
    <3> QED
      BY <3>1, <3>5, Older DEF Inv, UserInv, InHand, ClientOK, Holds
  <2> QED
    BY <2>1, <2>2 DEF Falls
<1> QED
  BY <1>1, PoolInvariant, PTL DEF Spec, WalkDescends

=============================================================================
