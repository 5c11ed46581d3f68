----------------------------- MODULE EngineProofs -----------------------------
(***************************************************************************)
(* Proofs about Engine for any number of clients, pages, transactions,     *)
(* writes, crashes and drops: what a restart brings back, that no page is  *)
(* handed out twice, and what a drop leaves on disk and running.           *)
(***************************************************************************)
EXTENDS Engine, SequenceTheorems, FiniteSetTheorems, WellFoundedInduction, TLAPS

-----------------------------------------------------------------------------
(* The inductive invariant.                                                *)

Senders == Clients \cup {Checkpointer}
Client == [pc : {"idle", "open", "undo", "await"}, tx : Nat, page : Nat]
Version == [page : Pages, tx : Nat]
Request == [from : Senders, tx : Nat]
Served == [pc : {"recv", "write", "signal"}, from : Senders, tx : Nat]
Outgoing == [page : Pages, version : Nat]

TypeOK ==
  /\ cl \in [Clients -> Client] /\ lastTx \in Nat /\ owner \in Seq(Version)
  /\ cache \in [Pages -> Nat] /\ dirty \in SUBSET Pages /\ disk \in [Pages -> Nat]
  /\ last_index \in 1..MaxPages /\ \A c \in Clients : cl[c].pc = "undo" => cl[c].page \in Pages
  /\ log \in Seq(Nat) /\ gone \in 0..Len(log) /\ ioq \in Seq(Request) /\ io \in Served
  /\ ckq \in Nat /\ ck \in {"idle", "wait", "await"}
  /\ writes \in Seq(Outgoing) /\ writing \in BOOLEAN /\ commits \in Seq(Nat)
  /\ up \in [Threads -> BOOLEAN] /\ drop \in 0..Ended
  /\ joining \in BOOLEAN /\ late \in BOOLEAN /\ short \in BOOLEAN

\* The log as it will be once every request under way is served.
Line(lg, r, q) ==
  lg \o (IF r.pc = "write" THEN <<r.tx>> ELSE <<>>) \o [i \in 1..Len(q) |-> q[i].tx]
Coming == Line(log, io, ioq)

\* The versions a transaction made, given the owners of all.
Made(o, t) == {v \in 1..Len(o) : o[v].tx = t}

\* All that t wrote is older than what u wrote on the same page, or on other pages.
Older(o, t, u) ==
  \A v \in Made(o, t), w \in Made(o, u) : o[v].page = o[w].page => v < w
Apart(o, t, u) == \A v \in Made(o, t), w \in Made(o, u) : o[v].page # o[w].page

Running(c) == cl[c].pc \in {"open", "undo"}

\* A transaction runs, in one client, or has one place in the log to come.
Transactions ==
  /\ \A c \in Clients : cl[c].pc # "idle" => cl[c].tx \in Tx
  /\ \A c, d \in Clients : c # d /\ cl[c].pc # "idle" /\ cl[d].pc # "idle" => cl[c].tx # cl[d].tx
  /\ \A v \in 1..Len(owner) : owner[v].tx \in Tx
  /\ \A i \in 1..Len(Coming) : Coming[i] \in Tx \cup {0}
  /\ \A i, j \in 1..Len(Coming) : i # j /\ Coming[i] # 0 => Coming[i] # Coming[j]
  /\ \A c \in Clients, i \in 1..Len(Coming) : Running(c) => Coming[i] # cl[c].tx

\* Unless they overlapped, transactions wrote each page in the order of the log to come,
\* before those that run; and those that run wrote different pages.
Ordered(L, o, x) ==
  \A i, j \in 1..Len(L) : i < j /\ L[i] # 0 /\ L[j] # 0 /\ L[i] \notin x => Older(o, L[i], L[j])
Order ==
  /\ Ordered(Coming, owner, clash)
  /\ \A c \in Clients, i \in 1..Len(Coming) :
       Running(c) /\ Coming[i] # 0 /\ Coming[i] \notin clash => Older(owner, Coming[i], cl[c].tx)
  /\ \A c, d \in Clients : c # d /\ Running(c) /\ Running(d) /\ cl[c].tx \notin clash =>
       Apart(owner, cl[c].tx, cl[d].tx)

\* Whoever has a request under way waits for it, and has no other.
Asks(r) ==
  IF r.from = Checkpointer THEN r.tx = 0 /\ ck = "await"
                           ELSE r.tx = cl[r.from].tx /\ cl[r.from].pc = "await"
Requests ==
  /\ \A i \in 1..Len(ioq) : Asks(ioq[i]) /\ (io.pc # "recv" => ioq[i].from # io.from)
  /\ \A i, j \in 1..Len(ioq) : i # j => ioq[i].from # ioq[j].from
  /\ io.pc # "recv" => Asks(io)
  /\ io.pc = "signal" /\ io.from # Checkpointer => io.tx \in Logged(log)

\* A page has at most one write under way, of its newest version; one that has none and
\* is not dirty is on disk.
Of(x, p, o) == x = 0 \/ (x \in 1..Len(o) /\ o[x].page = p)
Sent(p) == \E i \in 1..Len(writes) : writes[i].page = p
Pool ==
  /\ \A p \in Pages : Of(cache[p], p, owner) /\ Of(disk[p], p, owner)
  /\ \A i \in 1..Len(writes) : Of(writes[i].version, writes[i].page, owner)
  /\ \A i, j \in 1..Len(writes) : i # j => writes[i].page # writes[j].page
  /\ \A i \in 1..Len(writes) :
       writes[i].page \notin dirty => writes[i].version = cache[writes[i].page]
  /\ \A p \in Pages \ dirty : Sent(p) \/ disk[p] = cache[p]
  /\ ck # "wait" => writes = <<>>
  /\ writing => writes # <<>>

\* What the allocator will hand out has no version.
Allocator ==
  short \/ /\ \A p \in Pages : p >= last_index => cache[p] = 0
           /\ \A c \in Clients : cl[c].pc = "undo" => cl[c].page < last_index

\* data.db has what is in the log, and what was flushed early.
Known(x) == x # 0 => owner[x].tx \in Logged(log) \cup early
Acknowledged ==
  /\ acked \subseteq Logged(log)
  /\ \A p \in Pages : Known(disk[p])
  /\ \A i \in 1..Len(writes) : Known(writes[i].version)

\* The versions of transactions that are in the log or may come there, and that the
\* code does not lose.
Alive(t) ==
  \/ \E i \in 1..Len(Coming) : Coming[i] = t
  \/ \E c \in Clients : Running(c) /\ cl[c].tx = t
Tracked(v) == Alive(owner[v].tx) /\ owner[v].tx \notin exposed \cup clash

\* The cache has them, or newer ones; while a checkpoint is under way so has data.db, or
\* will, unless they were made after its drain; and so it has once a mark follows them.
Coverable(v) == \A i \in 1..Len(writes) :
                  writes[i].page = owner[v].page => v <= writes[i].version
Cached == \A v \in 1..Len(owner) : Tracked(v) => v <= cache[owner[v].page]
Flushed ==
  ck # "idle" => \A v \in 1..Len(owner) : Tracked(v) /\ owner[v].tx \notin since =>
    Coverable(v) /\ (Sent(owner[v].page) \/ v <= disk[owner[v].page])
Past(t, lg) == \E i, m \in 1..Len(lg) : i < m /\ lg[i] = t /\ lg[m] = 0
KeptIn(lg, ex) ==
  \A v \in 1..Len(owner) : Past(owner[v].tx, lg) /\ owner[v].tx \notin ex \cup clash =>
    Coverable(v) /\ v <= disk[owner[v].page]
Kept == KeptIn(log, exposed)

\* Without overlaps, what a client wrote is in the cache.
OwnNewest ==
  clash = {} => \A c \in Clients : Running(c) => \A v \in Made(owner, cl[c].tx) :
    LET x == cache[owner[v].page] IN v <= x /\ owner[x].tx = cl[c].tx

\* Without overlaps, replay finds for a page what the cache has, unless the page is yet
\* to be flushed or a mark is yet to be logged.
Fresh == clash = {} => \A p \in Pages :
           Replayed(Coming, p) \in {0, cache[p]} \/ p \in dirty \/ ck = "wait"

Data == /\ Transactions /\ Order /\ Requests /\ Pool /\ Allocator /\ Acknowledged
        /\ Cached /\ Flushed /\ Kept /\ OwnNewest /\ Fresh

\* How far a drop is that no cursor interferes with.
Shut ==
  /\ \A c \in Clients : cl[c].pc \in {"idle", "open"}
  /\ drop > 1 => dirty = {} \/ ckq > 0
  /\ drop > 1 => up["flush"] \/ ckq > 0
  /\ drop > 2 => commits = <<>> /\ ~up["commit"]
  /\ drop > 3 => ck = "idle" /\ ckq = 0 /\ ~up["checkpoint"]
  /\ drop > 4 => ~up["io"]
  /\ drop > 5 => ~up["wal"]
  /\ drop > 6 => ~up["write"]
  /\ drop > 7 => ~up["undo"]
  /\ drop > 8 => ~up["data"] /\ ~up["beside"]
Shutdown ==
  /\ up["meta"] /\ (joining => drop \in {2, 3, 4, 6})
  /\ drop > 0 /\ ~late => Shut

Inv == TypeOK /\ Data /\ Shutdown

-----------------------------------------------------------------------------
(* Sequences and sets of numbers.                                          *)

LEMMA NoEntry ==
    ASSUME NEW S
    PROVE  <<>> \in Seq(S) /\ Len(<<>>) = 0
BY EmptySeq

LEMMA AppendLast ==
    ASSUME NEW S, NEW s \in Seq(S), NEW e \in S
    PROVE  /\ Append(s, e) \in Seq(S) /\ Len(Append(s, e)) = Len(s) + 1 /\ Len(s) \in Nat
           /\ \A i \in 1..Len(s) : Append(s, e)[i] = s[i]
           /\ Append(s, e)[Len(s) + 1] = e
OBVIOUS

LEMMA HeadLeaves ==
    ASSUME NEW S, NEW s \in Seq(S), s # <<>>
    PROVE  /\ Len(s) \in Nat \ {0} /\ Head(s) = s[1] /\ Head(s) \in S
           /\ Tail(s) \in Seq(S) /\ Len(Tail(s)) = Len(s) - 1
           /\ \A i \in 1..Len(Tail(s)) : Tail(s)[i] = s[i + 1]
BY HeadTailProperties, EmptySeq

LEMMA SameSeq ==
    ASSUME NEW S, NEW s \in Seq(S), NEW t \in Seq(S), Len(s) = Len(t),
           \A i \in 1..Len(s) : s[i] = t[i]
    PROVE  s = t
BY LenProperties

\* A bounded set of numbers has a greatest one.
LEMMA Greatest ==
    ASSUME NEW n \in Nat, NEW T \in SUBSET (0..n), T # {}
    PROVE  Newest(T) \in T /\ \A i \in T : i <= Newest(T)
<1> DEFINE R == OpToRel(<, Nat)
           D == {n - i : i \in T}
<1>1. IsWellFoundedOn(R, Nat)
  BY NatLessThanWellFounded, Zenon
<1>2. \A x, y \in Nat : y < x => <<y, x>> \in R
  BY DEF OpToRel
<1> HIDE DEF R
<1>3. D \subseteq Nat /\ D # {}
  <2>1. \A i \in T : n - i \in Nat
    OBVIOUS
  <2>2. PICK i \in T : TRUE
    OBVIOUS
  <2>3. n - i \in D
    BY <2>2
  <2> QED
    BY <2>1, <2>3
<1>4. PICK d \in D : \A y \in D : ~(<<y, d>> \in R)
  BY <1>1, <1>3, WFMin
<1>5. PICK m \in T : d = n - m
  OBVIOUS
<1>6. \A i \in T : i <= m
  <2> SUFFICES ASSUME NEW i \in T, i > m PROVE FALSE
    BY <1>5
  <2>1. i \in 0..n /\ m \in 0..n
    BY <1>5
  <2>2. n - i < d
    BY <1>5, <2>1
  <2>3. n - i \in D
    OBVIOUS
  <2> QED
    BY <1>2, <1>3, <1>4, <2>2, <2>3
<1>7. \E x \in T : \A y \in T : y <= x
  BY <1>6
<1> QED
  BY <1>7 DEF Newest

-----------------------------------------------------------------------------
(* The log to come.                                                        *)

Mid(r) == IF r.pc = "write" THEN 1 ELSE 0
Joins(l, lg, k, x, q) ==
  /\ l \in Seq(Nat) /\ Len(l) = Len(lg) + k + Len(q)
  /\ \A i \in 1..(Len(lg) + k + Len(q)) :
       l[i] = IF i <= Len(lg) THEN lg[i] ELSE IF i <= Len(lg) + k THEN x
              ELSE q[i - (Len(lg) + k)].tx

\* Its entries: the log, the request being written, the channel.
LEMMA LineIs ==
    ASSUME NEW lg \in Seq(Nat), NEW r \in Served, NEW q \in Seq(Request)
    PROVE  /\ Joins(Line(lg, r, q), lg, Mid(r), r.tx, q)
           /\ Len(lg) \in Nat /\ Len(q) \in Nat /\ Mid(r) \in {0, 1}
<1> DEFINE m == IF r.pc = "write" THEN <<r.tx>> ELSE <<>>
           a == [i \in 1..Len(q) |-> q[i].tx]
<1>1. Len(lg) \in Nat /\ Len(q) \in Nat /\ Mid(r) \in {0, 1} /\ r.tx \in Nat
  BY LenProperties DEF Mid, Served
<1>2. m \in Seq(Nat) /\ Len(m) = Mid(r) /\ (Mid(r) = 1 => m[1] = r.tx)
  <2>1. CASE r.pc = "write"
    <3>1. m = <<r.tx>> /\ Mid(r) = 1
      BY <2>1 DEF Mid
    <3> HIDE DEF m
    <3> QED
      BY <1>1, <3>1
  <2>2. CASE r.pc # "write"
    <3>1. m = <<>> /\ Mid(r) = 0
      BY <2>2 DEF Mid
    <3> HIDE DEF m
    <3> QED
      BY <3>1, NoEntry
  <2> QED
    BY <2>1, <2>2
<1>3. a \in Seq(Nat) /\ Len(a) = Len(q) /\ \A i \in 1..Len(q) : a[i] = q[i].tx
  <2>1. \A i \in 1..Len(q) : q[i].tx \in Nat
    <3>1. \A i \in 1..Len(q) : q[i] \in Request
      BY ElementOfSeq
    <3> QED
      BY <3>1 DEF Request
  <2>2. a \in [1..Len(q) -> Nat]
    BY <2>1
  <2> QED
    BY <1>1, <2>2
<1>4. Line(lg, r, q) = lg \o m \o a
  BY DEF Line
<1> HIDE DEF m, a
<1>5. /\ lg \o m \in Seq(Nat) /\ Len(lg \o m) = Len(lg) + Mid(r)
      /\ \A i \in 1..(Len(lg) + Mid(r)) :
           (lg \o m)[i] = IF i <= Len(lg) THEN lg[i] ELSE r.tx
  <2>1. /\ lg \o m \in Seq(Nat) /\ Len(lg \o m) = Len(lg) + Len(m)
        /\ \A i \in 1..(Len(lg) + Len(m)) :
             (lg \o m)[i] = IF i <= Len(lg) THEN lg[i] ELSE m[i - Len(lg)]
    BY <1>2, ConcatProperties
  <2>2. ASSUME NEW i \in 1..(Len(lg) + Mid(r)), ~(i <= Len(lg)) PROVE m[i - Len(lg)] = r.tx
    <3>1. i - Len(lg) = 1 /\ Mid(r) = 1
      BY <1>1, <2>2
    <3> QED
      BY <1>2, <3>1
  <2> QED
    BY <1>2, <2>1, <2>2
<1>6. /\ (lg \o m) \o a \in Seq(Nat) /\ Len((lg \o m) \o a) = Len(lg) + Mid(r) + Len(q)
      /\ \A i \in 1..(Len(lg) + Mid(r) + Len(q)) :
           ((lg \o m) \o a)[i] = IF i <= Len(lg) + Mid(r) THEN (lg \o m)[i]
                                 ELSE a[i - (Len(lg) + Mid(r))]
  BY <1>3, <1>5, ConcatProperties
<1>7. ASSUME NEW i \in 1..(Len(lg) + Mid(r) + Len(q)), ~(i <= Len(lg) + Mid(r))
      PROVE  a[i - (Len(lg) + Mid(r))] = q[i - (Len(lg) + Mid(r))].tx
  <2>1. i - (Len(lg) + Mid(r)) \in 1..Len(q)
    BY <1>1, <1>7
  <2> QED
    BY <1>3, <2>1
<1>8. ASSUME NEW i \in 1..(Len(lg) + Mid(r) + Len(q)), i <= Len(lg) + Mid(r)
      PROVE  (lg \o m)[i] = IF i <= Len(lg) THEN lg[i] ELSE r.tx
  <2>1. i \in 1..(Len(lg) + Mid(r))
    BY <1>1, <1>8
  <2> QED
    BY <1>5, <2>1
<1>9. ASSUME NEW i \in 1..(Len(lg) + Mid(r) + Len(q))
      PROVE  ((lg \o m) \o a)[i] = IF i <= Len(lg) THEN lg[i]
                                   ELSE IF i <= Len(lg) + Mid(r) THEN r.tx
                                   ELSE q[i - (Len(lg) + Mid(r))].tx
  <2>1. i <= Len(lg) => i <= Len(lg) + Mid(r)
    BY <1>1
  <2>2. CASE i <= Len(lg) + Mid(r)
    BY <1>6, <1>8, <2>1, <2>2
  <2>3. CASE ~(i <= Len(lg) + Mid(r))
    BY <1>6, <1>7, <2>1, <2>3
  <2> QED
    BY <2>2, <2>3
<1> QED
  BY <1>1, <1>4, <1>6, <1>9 DEF Joins

\* The io thread takes the first request.
LEMMA LineTake ==
    ASSUME NEW lg \in Seq(Nat), NEW q \in Seq(Request), q # <<>>, NEW r \in Served,
           NEW s \in Served, r.pc # "write", s.pc = "write", s.tx = Head(q).tx
    PROVE  Line(lg, s, Tail(q)) = Line(lg, r, q)
<1> DEFINE a == Line(lg, s, Tail(q))
           b == Line(lg, r, q)
<1>1. /\ Len(q) \in Nat \ {0} /\ Head(q) = q[1] /\ Tail(q) \in Seq(Request)
      /\ Len(Tail(q)) = Len(q) - 1 /\ \A i \in 1..Len(Tail(q)) : Tail(q)[i] = q[i + 1]
  BY HeadLeaves
<1>2. Mid(r) = 0 /\ Mid(s) = 1 /\ Len(lg) \in Nat
  BY LenProperties DEF Mid
<1>3. /\ a \in Seq(Nat) /\ Len(a) = Len(lg) + 1 + (Len(q) - 1)
      /\ \A i \in 1..(Len(lg) + 1 + (Len(q) - 1)) :
           a[i] = IF i <= Len(lg) THEN lg[i] ELSE IF i <= Len(lg) + 1 THEN q[1].tx
                  ELSE Tail(q)[i - (Len(lg) + 1)].tx
  <2>1. Joins(a, lg, 1, q[1].tx, Tail(q))
    BY <1>1, <1>2, LineIs
  <2> QED
    BY <1>1, <2>1 DEF Joins
<1>4. /\ b \in Seq(Nat) /\ Len(b) = Len(lg) + 0 + Len(q)
      /\ \A i \in 1..(Len(lg) + 0 + Len(q)) :
           b[i] = IF i <= Len(lg) THEN lg[i] ELSE IF i <= Len(lg) + 0 THEN r.tx
                  ELSE q[i - (Len(lg) + 0)].tx
  <2>1. Joins(b, lg, 0, r.tx, q)
    BY <1>2, LineIs
  <2> QED
    BY <2>1 DEF Joins
<1> HIDE DEF a, b
<1>5. ASSUME NEW i \in 1..(Len(lg) + Len(q)) PROVE a[i] = b[i]
  <2>0. i \in 1..(Len(lg) + 1 + (Len(q) - 1)) /\ i \in 1..(Len(lg) + 0 + Len(q))
    BY <1>1, <1>2
  <2>1. CASE i <= Len(lg)
    BY <1>3, <1>4, <2>0, <2>1
  <2>2. CASE i = Len(lg) + 1
    <3>1. ~(i <= Len(lg)) /\ i <= Len(lg) + 1 /\ ~(i <= Len(lg) + 0)
          /\ i - (Len(lg) + 0) = 1
      BY <1>2, <2>2
    <3> QED
      BY <1>3, <1>4, <2>0, <3>1
  <2>3. CASE i > Len(lg) + 1
    <3>1. ~(i <= Len(lg)) /\ ~(i <= Len(lg) + 1) /\ ~(i <= Len(lg) + 0)
          /\ i - (Len(lg) + 1) \in 1..Len(Tail(q))
          /\ (i - (Len(lg) + 1)) + 1 = i - (Len(lg) + 0)
      BY <1>1, <1>2, <2>3
    <3>2. Tail(q)[i - (Len(lg) + 1)] = q[i - (Len(lg) + 0)]
      BY <1>1, <3>1
    <3> QED
      BY <1>3, <1>4, <2>0, <3>1, <3>2
  <2> QED
    BY <1>2, <2>1, <2>2, <2>3
<1>6. Len(a) = Len(lg) + Len(q) /\ Len(b) = Len(lg) + Len(q)
  BY <1>1, <1>2, <1>3, <1>4
<1>7. a = b
  BY <1>3, <1>4, <1>5, <1>6, SameSeq
<1> QED
  BY <1>7 DEF a, b

\* The request it serves is on disk.
LEMMA LineWritten ==
    ASSUME NEW lg \in Seq(Nat), NEW q \in Seq(Request), NEW r \in Served, NEW s \in Served,
           r.pc = "write", s.pc # "write"
    PROVE  Line(Append(lg, r.tx), s, q) = Line(lg, r, q)
<1> DEFINE l == Append(lg, r.tx)
           a == Line(l, s, q)
           b == Line(lg, r, q)
<1>1. Mid(r) = 1 /\ Mid(s) = 0 /\ Len(lg) \in Nat /\ Len(q) \in Nat /\ r.tx \in Nat
  BY LenProperties DEF Mid, Served
<1>2. /\ l \in Seq(Nat) /\ Len(l) = Len(lg) + 1 /\ l[Len(lg) + 1] = r.tx
      /\ \A i \in 1..Len(lg) : l[i] = lg[i]
  BY <1>1, AppendLast
<1> HIDE DEF l
<1>3. /\ a \in Seq(Nat) /\ Len(a) = (Len(lg) + 1) + 0 + Len(q)
      /\ \A i \in 1..((Len(lg) + 1) + 0 + Len(q)) :
           a[i] = IF i <= Len(lg) + 1 THEN l[i] ELSE IF i <= (Len(lg) + 1) + 0 THEN s.tx
                  ELSE q[i - ((Len(lg) + 1) + 0)].tx
  <2>1. Joins(a, l, 0, s.tx, q)
    BY <1>1, <1>2, LineIs
  <2> QED
    BY <1>2, <2>1 DEF Joins
<1>4. /\ b \in Seq(Nat) /\ Len(b) = Len(lg) + 1 + Len(q)
      /\ \A i \in 1..(Len(lg) + 1 + Len(q)) :
           b[i] = IF i <= Len(lg) THEN lg[i] ELSE IF i <= Len(lg) + 1 THEN r.tx
                  ELSE q[i - (Len(lg) + 1)].tx
  <2>1. Joins(b, lg, 1, r.tx, q)
    BY <1>1, LineIs
  <2> QED
    BY <2>1 DEF Joins
<1> HIDE DEF a, b
<1>5. ASSUME NEW i \in 1..(Len(lg) + 1 + Len(q)) PROVE a[i] = b[i]
  <2>0. i \in 1..((Len(lg) + 1) + 0 + Len(q))
    BY <1>1
  <2>1. CASE i <= Len(lg)
    <3>1. i <= Len(lg) + 1 /\ i \in 1..Len(lg)
      BY <1>1, <2>1
    <3> QED
      BY <1>2, <1>3, <1>4, <2>0, <2>1, <3>1
  <2>2. CASE i = Len(lg) + 1
    <3>1. ~(i <= Len(lg)) /\ i <= Len(lg) + 1
      BY <1>1, <2>2
    <3> QED
      BY <1>2, <1>3, <1>4, <2>0, <2>2, <3>1
  <2>3. CASE i > Len(lg) + 1
    <3>1. ~(i <= Len(lg)) /\ ~(i <= Len(lg) + 1) /\ ~(i <= (Len(lg) + 1) + 0)
          /\ i - ((Len(lg) + 1) + 0) = i - (Len(lg) + 1)
      BY <1>1, <2>3
    <3> QED
      BY <1>3, <1>4, <2>0, <3>1
  <2> QED
    BY <1>1, <2>1, <2>2, <2>3
<1>6. Len(a) = Len(lg) + 1 + Len(q) /\ Len(b) = Len(lg) + 1 + Len(q)
  BY <1>1, <1>3, <1>4
<1>7. a = b
  BY <1>3, <1>4, <1>5, <1>6, SameSeq
<1> QED
  BY <1>7 DEF a, b, l

\* A request is sent.
LEMMA LineAsked ==
    ASSUME NEW lg \in Seq(Nat), NEW q \in Seq(Request), NEW r \in Served, NEW e \in Request
    PROVE  Line(lg, r, Append(q, e)) = Append(Line(lg, r, q), e.tx)
<1> DEFINE n == Len(lg) + Mid(r)
           p == Append(q, e)
           l == Line(lg, r, q)
           a == Line(lg, r, p)
           b == Append(l, e.tx)
<1>1. /\ Len(lg) \in Nat /\ Len(q) \in Nat /\ Mid(r) \in {0, 1} /\ n \in Nat
      /\ Len(lg) <= n
  BY LineIs
<1>2. /\ p \in Seq(Request) /\ Len(p) = Len(q) + 1 /\ p[Len(q) + 1] = e
      /\ \A i \in 1..Len(q) : p[i] = q[i]
  BY AppendLast
<1>3. /\ l \in Seq(Nat) /\ Len(l) = n + Len(q)
      /\ \A i \in 1..(n + Len(q)) :
           l[i] = IF i <= Len(lg) THEN lg[i] ELSE IF i <= n THEN r.tx ELSE q[i - n].tx
  BY LineIs DEF Joins
<1> HIDE DEF p
<1>4. /\ a \in Seq(Nat) /\ Len(a) = n + (Len(q) + 1)
      /\ \A i \in 1..(n + (Len(q) + 1)) :
           a[i] = IF i <= Len(lg) THEN lg[i] ELSE IF i <= n THEN r.tx ELSE p[i - n].tx
  <2>1. Joins(a, lg, Mid(r), r.tx, p)
    BY <1>2, LineIs
  <2> QED
    BY <1>2, <2>1 DEF Joins
<1> HIDE DEF n, l, a
<1>5. /\ b \in Seq(Nat) /\ Len(b) = (n + Len(q)) + 1 /\ b[(n + Len(q)) + 1] = e.tx
      /\ \A i \in 1..(n + Len(q)) : b[i] = l[i]
  <2>1. e.tx \in Nat
    BY DEF Request
  <2> QED
    BY <1>3, <2>1, AppendLast
<1> HIDE DEF b
<1>6. ASSUME NEW i \in 1..(n + (Len(q) + 1)) PROVE a[i] = b[i]
  <2>1. CASE i = n + (Len(q) + 1)
    <3>1. ~(i <= Len(lg)) /\ ~(i <= n) /\ i - n = Len(q) + 1 /\ i = (n + Len(q)) + 1
      BY <1>1, <2>1
    <3> QED
      BY <1>2, <1>4, <1>5, <3>1
  <2>2. CASE i # n + (Len(q) + 1)
    <3>1. i \in 1..(n + Len(q)) /\ (~(i <= n) => i - n \in 1..Len(q))
      BY <1>1, <2>2
    <3>2. ~(i <= n) => p[i - n] = q[i - n]
      BY <1>2, <3>1
    <3> QED
      BY <1>3, <1>4, <1>5, <3>1, <3>2
  <2> QED
    BY <2>1, <2>2
<1>7. Len(a) = n + (Len(q) + 1) /\ Len(b) = n + (Len(q) + 1)
  BY <1>1, <1>4, <1>5
<1>8. a = b
  BY <1>4, <1>5, <1>6, <1>7, SameSeq
<1> QED
  BY <1>8 DEF a, b, l, p

\* Nothing is being written, before and after.
LEMMA LineSettled ==
    ASSUME NEW lg \in Seq(Nat), NEW q \in Seq(Request), NEW r \in Served, r.pc # "write"
    PROVE  /\ q = <<>> => Line(lg, r, q) = lg
           /\ \A s : s.pc # "write" => Line(lg, s, q) = Line(lg, r, q)
<1>1. \A s : s.pc # "write" => Line(lg, s, q) = Line(lg, r, q)
  BY DEF Line
<1>2. ASSUME q = <<>> PROVE Line(lg, r, q) = lg
  <2>1. /\ Line(lg, r, q) \in Seq(Nat) /\ Len(lg) \in Nat
        /\ Len(Line(lg, r, q)) = Len(lg) + Mid(r) + Len(q)
        /\ \A i \in 1..(Len(lg) + Mid(r) + Len(q)) :
             Line(lg, r, q)[i] = IF i <= Len(lg) THEN lg[i]
                                 ELSE IF i <= Len(lg) + Mid(r) THEN r.tx
                                 ELSE q[i - (Len(lg) + Mid(r))].tx
    BY LineIs DEF Joins
  <2>2. Mid(r) = 0 /\ Len(q) = 0
    BY <1>2, NoEntry DEF Mid
  <2>3. Len(lg) + Mid(r) + Len(q) = Len(lg) /\ Len(lg) + Mid(r) = Len(lg)
    BY <2>1, <2>2
  <2> HIDE DEF Mid
  <2>4. Len(Line(lg, r, q)) = Len(lg)
    BY <2>1, <2>3
  <2>5. \A i \in 1..Len(lg) : Line(lg, r, q)[i] = lg[i]
    BY <2>1, <2>3
  <2> QED
    BY <2>1, <2>4, <2>5, SameSeq
<1> QED
  BY <1>1, <1>2

\* What a crash leaves of the log begins the log to come.
LEMMA LineBegins ==
    ASSUME NEW lg \in Seq(Nat), NEW q \in Seq(Request), NEW r \in Served, NEW image,
           image = lg \/ (r.pc = "write" /\ image = Append(lg, r.tx))
    PROVE  /\ image \in Seq(Nat) /\ Len(image) \in Nat
           /\ \A i \in 1..Len(image) :
                i \in 1..Len(Line(lg, r, q)) /\ Line(lg, r, q)[i] = image[i]
<1> DEFINE l == Line(lg, r, q)
           n == Len(lg) + Mid(r)
<1>1. Len(lg) \in Nat /\ Len(q) \in Nat /\ Mid(r) \in {0, 1}
  BY LineIs
<1>2. /\ Len(l) = n + Len(q)
      /\ \A i \in 1..(n + Len(q)) :
           l[i] = IF i <= Len(lg) THEN lg[i] ELSE IF i <= n THEN r.tx ELSE q[i - n].tx
  BY LineIs DEF Joins
<1> HIDE DEF l
<1>3. \A i \in 1..n : i \in 1..(n + Len(q)) /\ l[i] = IF i <= Len(lg) THEN lg[i] ELSE r.tx
  <2>1. \A i \in 1..n : i \in 1..(n + Len(q)) /\ i <= n
    BY <1>1
  <2> QED
    BY <1>2, <2>1
<1>4. CASE image = lg
  <2>1. \A i \in 1..Len(lg) : i \in 1..n /\ i <= Len(lg)
    BY <1>1
  <2> QED
    BY <1>1, <1>2, <1>3, <1>4, <2>1 DEF l
<1>5. CASE r.pc = "write" /\ image = Append(lg, r.tx)
  <2>1. n = Len(lg) + 1
    BY <1>5 DEF Mid
  <2>2. r.tx \in Nat
    BY DEF Served
  <2>3. /\ image \in Seq(Nat) /\ Len(image) = n /\ image[n] = r.tx
        /\ \A i \in 1..Len(lg) : image[i] = lg[i]
    BY <1>5, <2>1, <2>2, AppendLast
  <2>4. ASSUME NEW i \in 1..n PROVE l[i] = image[i]
    <3>1. CASE i <= Len(lg)
      <4>1. i \in 1..Len(lg)
        BY <1>1, <3>1
      <4> QED
        BY <1>3, <2>3, <3>1, <4>1
    <3>2. CASE ~(i <= Len(lg))
      <4>1. i = n
        BY <1>1, <2>1, <3>2
      <4> QED
        BY <1>3, <2>3, <3>2, <4>1
    <3> QED
      BY <3>1, <3>2
  <2>5. n \in Nat
    BY <1>1
  <2> QED
    BY <1>2, <1>3, <2>3, <2>4, <2>5 DEF l
<1> QED
  BY <1>4, <1>5

-----------------------------------------------------------------------------
(* Replay.                                                                 *)

\* The versions of page p by t, the entries that replay applies when those up to z
\* are written over, and what Replayed computes from them.
From(z, lg) == {i \in Unmarked(lg) : i > z}
On(o, t, p) == {v \in Made(o, t) : o[v].page = p}
Replay(o, z, lg, p) ==
  LET on(t) == {v \in {w \in DOMAIN o : o[w].tx = t} : o[v].page = p}
      at == {i \in From(z, lg) : on(lg[i]) # {}}
  IN  IF at = {} THEN 0 ELSE Newest(on(lg[Newest(at)]))

\* x is what replay makes of page p: the newest version by the last transaction that
\* wrote it, among those that replay applies.
LastOn(k, o, z, lg, p) == \A i \in From(z, lg) : On(o, lg[i], p) # {} => i <= k
Restores(x, o, z, lg, p) ==
  \/ x = 0 /\ \A i \in From(z, lg) : On(o, lg[i], p) = {}
  \/ \E k \in From(z, lg) : /\ LastOn(k, o, z, lg, p) /\ x \in On(o, lg[k], p)
                         /\ \A v \in On(o, lg[k], p) : v <= x

LEMMA ReplayIs ==
    ASSUME NEW o \in Seq(Version), NEW z \in Nat, NEW lg \in Seq(Nat), NEW p
    PROVE  Restores(Replay(o, z, lg, p), o, z, lg, p)
<1> DEFINE at == {i \in From(z, lg) : On(o, lg[i], p) # {}}
<1>1. Len(o) \in Nat /\ DOMAIN o = 1..Len(o) /\ Len(lg) \in Nat /\ DOMAIN lg = 1..Len(lg)
  BY LenProperties
<1>2. \A t : On(o, t, p) = {v \in {w \in DOMAIN o : o[w].tx = t} : o[v].page = p}
  BY <1>1 DEF On, Made
<1>3. Replay(o, z, lg, p) = IF at = {} THEN 0 ELSE Newest(On(o, lg[Newest(at)], p))
  <2> DEFINE on(t) == {v \in {w \in DOMAIN o : o[w].tx = t} : o[v].page = p}
             found == {i \in From(z, lg) : on(lg[i]) # {}}
  <2>1. Replay(o, z, lg, p) = IF found = {} THEN 0 ELSE Newest(on(lg[Newest(found)]))
    BY DEF Replay
  <2>2. \A t : on(t) = On(o, t, p)
    BY <1>2
  <2> HIDE DEF on
  <2>3. found = at
    BY <2>2
  <2>4. on(lg[Newest(found)]) = On(o, lg[Newest(found)], p)
    BY <2>2
  <2> HIDE DEF found, at
  <2> QED
    BY <2>1, <2>3, <2>4
<1>4. at \in SUBSET (0..Len(lg)) /\ \A t : On(o, t, p) \in SUBSET (0..Len(o))
  <2>1. at \in SUBSET (1..Len(lg))
    BY <1>1 DEF From, Unmarked
  <2>2. \A t : On(o, t, p) \in SUBSET (1..Len(o))
    BY DEF On, Made
  <2>3. \A n \in Nat : 1..n \subseteq 0..n
    OBVIOUS
  <2> QED
    BY <1>1, <2>1, <2>2, <2>3
<1>5. CASE at = {}
  BY <1>3, <1>5 DEF Restores
<1>6. CASE at # {}
  <2> DEFINE k == Newest(at)
             x == Newest(On(o, lg[k], p))
  <2>1. k \in at /\ \A i \in at : i <= k
    BY <1>1, <1>4, <1>6, Greatest
  <2> HIDE DEF k
  <2>2. k \in From(z, lg) /\ On(o, lg[k], p) # {} /\ LastOn(k, o, z, lg, p)
    BY <2>1 DEF LastOn
  <2>3. x \in On(o, lg[k], p) /\ \A v \in On(o, lg[k], p) : v <= x
    BY <1>1, <1>4, <2>2, Greatest
  <2>4. Replay(o, z, lg, p) = x
    BY <1>3, <1>6 DEF k
  <2> HIDE DEF x
  <2> QED
    BY <2>2, <2>3, <2>4 DEF Restores
<1> QED
  BY <1>5, <1>6

LEMMA RestoresOne ==
    ASSUME NEW o \in Seq(Version), NEW z \in Nat, NEW lg \in Seq(Nat), NEW p, NEW x,
           NEW y,
           Restores(x, o, z, lg, p), Restores(y, o, z, lg, p)
    PROVE  x = y /\ x \in Nat
<1>1. Len(o) \in Nat /\ Len(lg) \in Nat /\ DOMAIN lg = 1..Len(lg)
  BY LenProperties
<1>2. \A i \in From(z, lg) : i \in Nat
  BY <1>1 DEF From, Unmarked
<1>3. \A t : \A v \in On(o, t, p) : v \in Nat
  BY <1>1 DEF On, Made
<1>4. CASE \A i \in From(z, lg) : On(o, lg[i], p) = {}
  <2>1. \A w : Restores(w, o, z, lg, p) => w = 0
    BY <1>4 DEF Restores
  <2>2. x = 0 /\ y = 0
    BY <2>1
  <2> QED
    BY <2>2
<1>5. CASE ~ \A i \in From(z, lg) : On(o, lg[i], p) = {}
  <2>1. PICK k \in From(z, lg) : /\ LastOn(k, o, z, lg, p) /\ x \in On(o, lg[k], p)
                              /\ \A v \in On(o, lg[k], p) : v <= x
    BY <1>5 DEF Restores
  <2>2. PICK m \in From(z, lg) : /\ LastOn(m, o, z, lg, p) /\ y \in On(o, lg[m], p)
                              /\ \A v \in On(o, lg[m], p) : v <= y
    BY <1>5 DEF Restores
  <2>3. k <= m /\ m <= k
    BY <2>1, <2>2 DEF LastOn
  <2>4. k = m
    BY <1>2, <2>3
  <2>5. x <= y /\ y <= x /\ x \in Nat /\ y \in Nat
    BY <1>3, <2>1, <2>2, <2>4
  <2> QED
    BY <2>5
<1> QED
  BY <1>4, <1>5

\* An entry is added to the log: a mark, a transaction that wrote the page, another.
LEMMA ReplayAppend ==
    ASSUME NEW o \in Seq(Version), NEW z \in Nat, NEW lg \in Seq(Nat), NEW t \in Nat, NEW p,
           z <= Len(lg)
    PROVE  /\ t = 0 => Replay(o, z, Append(lg, t), p) = 0
           /\ t # 0 /\ On(o, t, p) = {} => Replay(o, z, Append(lg, t), p) = Replay(o, z, lg, p)
           /\ t # 0 /\ On(o, t, p) # {} =>
                /\ Replay(o, z, Append(lg, t), p) \in On(o, t, p)
                /\ \A v \in On(o, t, p) : v <= Replay(o, z, Append(lg, t), p)
<1> DEFINE n == Len(lg) + 1
           m == Append(lg, t)
<1>1. /\ Len(lg) \in Nat /\ m \in Seq(Nat) /\ DOMAIN m = 1..n /\ m[n] = t
      /\ DOMAIN lg = 1..Len(lg) /\ \A i \in 1..Len(lg) : m[i] = lg[i]
  BY AppendLast, LenProperties
<1>2. n \in 1..n /\ \A i \in 1..n : i # n => i \in 1..Len(lg)
  BY <1>1
<1>20. \A i \in 1..Len(lg) : i \in 1..n /\ i # n /\ i < n /\ ~(n < i)
  BY <1>1
<1> HIDE DEF m, n
<1>3. Restores(Replay(o, z, m, p), o, z, m, p) /\ Restores(Replay(o, z, lg, p), o, z, lg, p)
  BY <1>1, ReplayIs
<1>4. ASSUME t = 0 PROVE Replay(o, z, m, p) = 0
  <2>1. From(z, m) = {}
    <3> SUFFICES ASSUME NEW i \in From(z, m) PROVE FALSE
      OBVIOUS
    <3>1. i \in 1..n /\ m[i] # 0 /\ n < i
      BY <1>1, <1>2, <1>4 DEF From, Unmarked
    <3> QED
      BY <1>1, <1>2, <1>4, <1>20, <3>1
  <2> QED
    BY <1>3, <2>1 DEF Restores
<1>5. ASSUME t # 0 PROVE From(z, m) = From(z, lg) \cup {n}
  <2>1. n \in From(z, m)
    <3>1. \A j \in 1..n : m[j] = 0 => j < n
      BY <1>1, <1>2, <1>20, <1>5
    <3>2. n > z
      BY <1>1 DEF n
    <3> QED
      BY <1>1, <1>2, <1>5, <3>1, <3>2 DEF From, Unmarked
  <2>2. ASSUME NEW i \in 1..Len(lg) PROVE i \in From(z, m) <=> i \in From(z, lg)
    <3>1. i \in 1..n /\ m[i] = lg[i]
      BY <1>1, <1>20
    <3>2. (\A j \in 1..n : m[j] = 0 => j < i) <=> (\A j \in 1..Len(lg) : lg[j] = 0 => j < i)
      BY <1>1, <1>2, <1>20, <1>5
    <3> QED
      BY <1>1, <3>1, <3>2 DEF From, Unmarked
  <2>3. From(z, m) \subseteq 1..n /\ From(z, lg) \subseteq 1..Len(lg)
    BY <1>1 DEF From, Unmarked
  <2> QED
    BY <1>2, <1>20, <2>1, <2>2, <2>3
<1>6. \A i \in From(z, lg) : i \in 1..Len(lg) /\ m[i] = lg[i]
  BY <1>1 DEF From, Unmarked
<1>7. ASSUME t # 0, On(o, t, p) = {} PROVE Replay(o, z, m, p) = Replay(o, z, lg, p)
  <2>1. CASE \A i \in From(z, lg) : On(o, lg[i], p) = {}
    <3>1. \A i \in From(z, m) : On(o, m[i], p) = {}
      BY <1>1, <1>5, <1>6, <1>7, <2>1
    <3> QED
      BY <1>3, <2>1, <3>1 DEF Restores
  <2>2. CASE ~ \A i \in From(z, lg) : On(o, lg[i], p) = {}
    <3>1. PICK k \in From(z, lg) : /\ LastOn(k, o, z, lg, p) /\ Replay(o, z, lg, p) \in On(o, lg[k], p)
                                /\ \A v \in On(o, lg[k], p) : v <= Replay(o, z, lg, p)
      BY <1>3, <2>2 DEF Restores
    <3>2. LastOn(k, o, z, m, p)
      BY <1>1, <1>5, <1>6, <1>7, <3>1 DEF LastOn
    <3>3. k \in From(z, m) /\ m[k] = lg[k]
      BY <1>5, <1>6, <1>7
    <3>4. Restores(Replay(o, z, lg, p), o, z, m, p)
      BY <3>1, <3>2, <3>3 DEF Restores
    <3> QED
      BY <1>1, <1>3, <3>4, RestoresOne
  <2> QED
    BY <2>1, <2>2
<1>8. ASSUME t # 0, On(o, t, p) # {}
      PROVE  /\ Replay(o, z, m, p) \in On(o, t, p)
             /\ \A v \in On(o, t, p) : v <= Replay(o, z, m, p)
  <2>1. n \in From(z, m)
    BY <1>5, <1>8
  <2>2. PICK k \in From(z, m) : /\ LastOn(k, o, z, m, p) /\ Replay(o, z, m, p) \in On(o, m[k], p)
                             /\ \A v \in On(o, m[k], p) : v <= Replay(o, z, m, p)
    BY <1>1, <1>3, <1>8, <2>1 DEF Restores
  <2>3. n <= k
    BY <1>1, <1>8, <2>1, <2>2 DEF LastOn
  <2>4. k \in 1..n /\ n \in Nat
    BY <1>1, <2>2 DEF From, Unmarked, n
  <2>5. k = n
    BY <2>3, <2>4
  <2> QED
    BY <1>1, <2>2, <2>5
<1> QED
  BY <1>4, <1>7, <1>8 DEF m

\* Versions of a transaction that is not in the log change nothing.
LEMMA ReplayGrows ==
    ASSUME NEW o \in Seq(Version), NEW g \in Seq(Version), NEW z \in Nat,
           NEW lg \in Seq(Nat), NEW p,
           \A i \in 1..Len(lg) : lg[i] # 0 => On(g, lg[i], p) = On(o, lg[i], p)
    PROVE  Replay(g, z, lg, p) = Replay(o, z, lg, p)
<1>1. DOMAIN lg = 1..Len(lg)
  BY LenProperties
<1>2. \A i \in From(z, lg) : On(g, lg[i], p) = On(o, lg[i], p)
  BY <1>1 DEF From, Unmarked
<1>3. \A x : Restores(x, g, z, lg, p) => Restores(x, o, z, lg, p)
  <2> SUFFICES ASSUME NEW x, Restores(x, g, z, lg, p) PROVE Restores(x, o, z, lg, p)
    OBVIOUS
  <2>1. \A k \in From(z, lg) : LastOn(k, g, z, lg, p) => LastOn(k, o, z, lg, p)
    BY <1>2 DEF LastOn
  <2>2. CASE x = 0 /\ \A i \in From(z, lg) : On(g, lg[i], p) = {}
    BY <1>2, <2>2 DEF Restores
  <2>3. ASSUME NEW k \in From(z, lg), LastOn(k, g, z, lg, p), x \in On(g, lg[k], p),
               \A v \in On(g, lg[k], p) : v <= x
        PROVE  Restores(x, o, z, lg, p)
    BY <1>2, <2>1, <2>3 DEF Restores
  <2> QED
    BY <2>2, <2>3 DEF Restores
<1> QED
  BY <1>3, ReplayIs, RestoresOne

\* When more of the log is written over, replay finds what it found before, or nothing.
LEMMA ReplayFades ==
    ASSUME NEW o \in Seq(Version), NEW z \in Nat, NEW y \in Nat, z <= y,
           NEW lg \in Seq(Nat), NEW p
    PROVE  Replay(o, y, lg, p) \in {0, Replay(o, z, lg, p)}
<1> DEFINE x == Replay(o, y, lg, p)
<1>1. DOMAIN lg = 1..Len(lg) /\ Len(lg) \in Nat
  BY LenProperties
<1>2. Restores(x, o, y, lg, p)
  BY ReplayIs
<1> HIDE DEF x
<1>3. \A i \in From(y, lg) : i \in From(z, lg)
  BY <1>1 DEF From, Unmarked
<1>4. ASSUME NEW k \in From(y, lg), LastOn(k, o, y, lg, p), x \in On(o, lg[k], p),
             \A v \in On(o, lg[k], p) : v <= x
      PROVE  Restores(x, o, z, lg, p)
  <2>1. LastOn(k, o, z, lg, p)
    <3> SUFFICES ASSUME NEW i \in From(z, lg), On(o, lg[i], p) # {} PROVE i <= k
      BY DEF LastOn
    <3>1. i \in 1..Len(lg) /\ k \in 1..Len(lg) /\ k > y
      BY <1>1 DEF From, Unmarked
    <3>2. CASE i > y
      <4>1. i \in From(y, lg)
        BY <3>2 DEF From
      <4> QED
        BY <1>4, <4>1 DEF LastOn
    <3>3. CASE ~(i > y)
      BY <1>1, <3>1, <3>3
    <3> QED
      BY <3>2, <3>3
  <2> QED
    BY <1>3, <1>4, <2>1 DEF Restores
<1>5. CASE x = 0
  BY <1>5 DEF x
<1>6. CASE x # 0
  <2>1. Restores(x, o, z, lg, p)
    BY <1>2, <1>4, <1>6 DEF Restores
  <2>2. x = Replay(o, z, lg, p)
    BY <2>1, ReplayIs, RestoresOne
  <2> QED
    BY <2>2 DEF x
<1> QED
  BY <1>5, <1>6

\* If the order of the log is the order of versions and what is before a mark is on
\* disk, a restart finds on its page a version in the log that is not written over, or a
\* newer one.
LEMMA Regained ==
    ASSUME NEW o \in Seq(Version), NEW z \in Nat, NEW lg \in Seq(Nat), NEW x,
           Ordered(lg, o, x),
           NEW i \in 1..Len(lg), lg[i] # 0, lg[i] \notin x, NEW v \in Made(o, lg[i]),
           NEW d \in Nat, Past(lg[i], lg) => v <= d, i \in Unmarked(lg) => i > z
    PROVE  LET y == Replay(o, z, lg, o[v].page) IN v <= (IF y = 0 THEN d ELSE y)
<1> DEFINE p == o[v].page
           y == Replay(o, z, lg, p)
<1>1. /\ Len(lg) \in Nat /\ DOMAIN lg = 1..Len(lg) /\ Len(o) \in Nat
      /\ v \in 1..Len(o) /\ v \in On(o, lg[i], p)
  BY LenProperties DEF On, Made
<1>2. Restores(y, o, z, lg, p)
  BY ReplayIs
<1> HIDE DEF p, y
<1>3. CASE y = 0 /\ \A k \in From(z, lg) : On(o, lg[k], p) = {}
  <2>1. i \notin Unmarked(lg)
    BY <1>1, <1>3 DEF From
  <2>2. PICK m \in 1..Len(lg) : lg[m] = 0 /\ ~(m < i)
    BY <1>1, <2>1 DEF Unmarked
  <2>3. i < m
    BY <2>2
  <2>4. v <= d
    BY <2>2, <2>3 DEF Past
  <2> QED
    BY <1>3, <2>4 DEF p, y
<1>4. ASSUME NEW k \in From(z, lg), LastOn(k, o, z, lg, p), y \in On(o, lg[k], p),
             \A w \in On(o, lg[k], p) : w <= y
      PROVE  y # 0 /\ v <= y
  <2>1. /\ k \in 1..Len(lg) /\ lg[k] # 0 /\ \A m \in 1..Len(lg) : lg[m] = 0 => m < k
    BY <1>1 DEF From, Unmarked
  <2>2. y \in 1..Len(o) /\ o[y].page = p /\ y \in Made(o, lg[k])
    BY <1>4 DEF On, Made
  <2>3. i <= k
    <3>1. CASE i \in From(z, lg)
      BY <1>1, <1>4, <3>1 DEF LastOn
    <3>2. CASE i \notin From(z, lg)
      <4>0. i \notin Unmarked(lg)
        BY <3>2 DEF From
      <4>1. PICK m \in 1..Len(lg) : lg[m] = 0 /\ ~(m < i)
        BY <1>1, <4>0 DEF Unmarked
      <4>2. m < k
        BY <2>1, <4>1
      <4> QED
        BY <2>1, <4>1, <4>2
    <3> QED
      BY <3>1, <3>2
  <2>4. CASE i = k
    BY <1>1, <1>4, <2>2, <2>4
  <2>5. CASE i < k
    <3>1. Older(o, lg[i], lg[k])
      BY <2>1, <2>5 DEF Ordered
    <3>2. v < y
      BY <2>2, <3>1 DEF Older, p
    <3> QED
      BY <1>1, <2>2, <3>2
  <2> QED
    BY <2>1, <2>3, <2>4, <2>5
<1>5. y = 0 \/ v <= y
  BY <1>2, <1>3, <1>4 DEF Restores
<1>6. y = 0 => v <= d
  BY <1>2, <1>3, <1>4 DEF Restores, p, y
<1> QED
  BY <1>5, <1>6 DEF p, y

-----------------------------------------------------------------------------
(* A version enters.                                                       *)

Grew(g, o, e) ==
  /\ g \in Seq(Version) /\ Len(g) = Len(o) + 1 /\ Len(o) \in Nat
  /\ g[Len(o) + 1] = e /\ \A v \in 1..Len(o) : g[v] = o[v] /\ v \in 1..Len(g)
  /\ \A t : t # e.tx => Made(g, t) = Made(o, t)
  /\ Made(g, e.tx) = Made(o, e.tx) \cup {Len(o) + 1}

LEMMA Grown ==
    ASSUME NEW o \in Seq(Version), NEW e \in Version
    PROVE  Grew(Append(o, e), o, e)
<1> DEFINE g == Append(o, e)
<1>1. /\ g \in Seq(Version) /\ Len(g) = Len(o) + 1 /\ Len(o) \in Nat
      /\ g[Len(o) + 1] = e /\ \A v \in 1..Len(o) : g[v] = o[v]
  BY AppendLast
<1> HIDE DEF g
<1>2. 1..Len(g) = (1..Len(o)) \cup {Len(o) + 1}
  BY <1>1
<1>3. \A t : t # e.tx => Made(g, t) = Made(o, t)
  BY <1>1, <1>2 DEF Made
<1>4. Made(g, e.tx) = Made(o, e.tx) \cup {Len(o) + 1}
  BY <1>1, <1>2 DEF Made
<1> QED
  BY <1>1, <1>2, <1>3, <1>4 DEF Grew, g

\* It is newer than all before it.
LEMMA OlderGrows ==
    ASSUME NEW o, NEW e, NEW g, Grew(g, o, e), NEW t, t # e.tx
    PROVE  /\ \A u : u # e.tx /\ Older(o, t, u) => Older(g, t, u)
           /\ Older(o, t, e.tx) => Older(g, t, e.tx)
<1>1. /\ Len(o) \in Nat /\ g[Len(o) + 1] = e /\ \A v \in 1..Len(o) : g[v] = o[v]
      /\ \A u : u # e.tx => Made(g, u) = Made(o, u)
      /\ Made(g, e.tx) = Made(o, e.tx) \cup {Len(o) + 1}
  BY DEF Grew
<1>2. \A u : Made(o, u) \subseteq 1..Len(o)
  BY DEF Made
<1>3. ASSUME NEW u, u # e.tx, Older(o, t, u) PROVE Older(g, t, u)
  <2>1. Made(g, t) = Made(o, t) /\ Made(g, u) = Made(o, u)
    BY <1>1, <1>3
  <2> QED
    BY <1>1, <1>2, <1>3, <2>1 DEF Older
<1>4. ASSUME Older(o, t, e.tx) PROVE Older(g, t, e.tx)
  <2> SUFFICES ASSUME NEW v \in Made(g, t), NEW w \in Made(g, e.tx), g[v].page = g[w].page
               PROVE  v < w
    BY DEF Older
  <2>1. v \in Made(o, t) /\ v \in 1..Len(o) /\ g[v] = o[v]
    BY <1>1, <1>2
  <2>2. CASE w = Len(o) + 1
    BY <1>1, <2>1, <2>2
  <2>3. CASE w \in Made(o, e.tx)
    <3>1. g[w] = o[w]
      BY <1>1, <1>2, <2>3
    <3> QED
      BY <1>4, <2>1, <2>3, <3>1 DEF Older
  <2> QED
    BY <1>1, <2>2, <2>3
<1> QED
  BY <1>3, <1>4

\* Those that wrote different pages stay so if none of the others had written this one.
LEMMA ApartGrows ==
    ASSUME NEW o, NEW e, NEW g, Grew(g, o, e), NEW t, t # e.tx
    PROVE  /\ \A u : u # e.tx /\ Apart(o, t, u) => Apart(g, t, u)
           /\ (\A v \in Made(o, t) : o[v].page # e.page) =>
                /\ Apart(o, t, e.tx) => Apart(g, t, e.tx)
                /\ Apart(o, e.tx, t) => Apart(g, e.tx, t)
<1>1. /\ Len(o) \in Nat /\ g[Len(o) + 1] = e /\ \A v \in 1..Len(o) : g[v] = o[v]
      /\ \A u : u # e.tx => Made(g, u) = Made(o, u)
      /\ Made(g, e.tx) = Made(o, e.tx) \cup {Len(o) + 1}
  BY DEF Grew
<1>2. \A u : Made(o, u) \subseteq 1..Len(o)
  BY DEF Made
<1>3. ASSUME NEW u, u # e.tx, Apart(o, t, u) PROVE Apart(g, t, u)
  <2>1. Made(g, t) = Made(o, t) /\ Made(g, u) = Made(o, u)
    BY <1>1, <1>3
  <2> QED
    BY <1>1, <1>2, <1>3, <2>1 DEF Apart
<1>4. \A v \in Made(g, t) : v \in Made(o, t) /\ g[v].page = o[v].page
  BY <1>1, <1>2
<1>5. \A w \in Made(g, e.tx) : \/ g[w].page = e.page
                               \/ w \in Made(o, e.tx) /\ g[w].page = o[w].page
  BY <1>1, <1>2
<1>6. ASSUME \A v \in Made(o, t) : o[v].page # e.page, Apart(o, t, e.tx)
      PROVE  Apart(g, t, e.tx)
  BY <1>4, <1>5, <1>6 DEF Apart
<1>7. ASSUME \A v \in Made(o, t) : o[v].page # e.page, Apart(o, e.tx, t)
      PROVE  Apart(g, e.tx, t)
  BY <1>4, <1>5, <1>7 DEF Apart
<1> QED
  BY <1>3, <1>6, <1>7

-----------------------------------------------------------------------------
(* What flush_all sends: each dirty page once, with its newest version.    *)

LEMMA BlocksOf ==
    ASSUME cache \in [Pages -> Nat], dirty \in SUBSET Pages
    PROVE  /\ Blocks \in Seq(Outgoing)
           /\ \A i \in 1..Len(Blocks) : /\ Blocks[i].page \in dirty
                                        /\ Blocks[i].version = cache[Blocks[i].page]
           /\ \A p \in dirty : \E i \in 1..Len(Blocks) : Blocks[i].page = p
           /\ \A i, j \in 1..Len(Blocks) : i # j => Blocks[i].page # Blocks[j].page
<1> DEFINE n == Cardinality(dirty)
           rank == [p \in dirty |-> UpTo(p)]
           page == [i \in 1..n |-> CHOOSE q \in dirty : UpTo(q) = i]
           entry == [i \in 1..n |-> [page |-> page[i], version |-> cache[page[i]]]]
<1>1. IsFiniteSet(dirty)
  <2>1. 0 \in Int /\ MaxPages - 1 \in Int
    BY PagesAssumption
  <2>2. IsFiniteSet(Pages)
    BY <2>1, FS_Interval DEF Pages
  <2> QED
    BY <2>2, FS_Subset
<1>2. n \in Nat /\ IsFiniteSet(1..n) /\ Cardinality(1..n) = n /\ dirty \subseteq Nat
  <2>1. n \in Nat
    BY <1>1, FS_CardinalityType
  <2>2. dirty \subseteq Nat
    BY PagesAssumption DEF Pages
  <2> QED
    BY <2>1, <2>2, FS_Interval
<1>3. ASSUME NEW p \in dirty, NEW q \in dirty, p < q PROVE UpTo(p) # UpTo(q)
  <2> DEFINE P == {x \in dirty : x <= p}
             Q == {x \in dirty : x <= q}
  <2>1. p \in Nat /\ q \in Nat /\ \A x \in dirty : x \in Nat /\ (x <= p => x <= q)
    BY <1>2, <1>3
  <2>2. q <= q /\ ~(q <= p)
    BY <1>3, <2>1
  <2>3. P \subseteq Q /\ q \in Q /\ q \notin P
    BY <2>1, <2>2
  <2>4. IsFiniteSet(Q)
    BY <1>1, FS_Subset
  <2>5. Cardinality(P) # Cardinality(Q)
    BY <2>3, <2>4, FS_Subset
  <2> QED
    BY <2>5 DEF UpTo
<1>4. \A p \in dirty : rank[p] \in 1..n
  <2> SUFFICES ASSUME NEW p \in dirty PROVE UpTo(p) \in 1..n
    OBVIOUS
  <2> DEFINE P == {x \in dirty : x <= p}
  <2>1. P \in SUBSET dirty /\ p \in P
    BY <1>2
  <2>2. IsFiniteSet(P) /\ Cardinality(P) <= n
    BY <1>1, <2>1, FS_Subset
  <2>3. Cardinality(P) \in Nat /\ Cardinality(P) # 0
    BY <2>1, <2>2, FS_CardinalityType, FS_EmptySet
  <2> QED
    BY <1>2, <2>2, <2>3 DEF UpTo
<1>5. rank \in [dirty -> 1..n] /\ \A p, q \in dirty : rank[p] = rank[q] => p = q
  BY <1>2, <1>3, <1>4
<1>6. rank \in Injection(dirty, 1..n)
  BY <1>5 DEF Injection, IsInjective
<1>7. rank \in Surjection(dirty, 1..n)
  BY <1>1, <1>2, <1>6, FS_Injection
<1>8. \A i \in 1..n : \E p \in dirty : UpTo(p) = i
  BY <1>7 DEF Surjection
<1>9. \A i \in 1..n : page[i] \in dirty /\ UpTo(page[i]) = i
  BY <1>8
<1>10. \A p \in dirty : UpTo(p) \in 1..n /\ page[UpTo(p)] = p
  <2> SUFFICES ASSUME NEW p \in dirty PROVE UpTo(p) \in 1..n /\ page[UpTo(p)] = p
    OBVIOUS
  <2>1. UpTo(p) \in 1..n
    BY <1>4
  <2>2. page[UpTo(p)] \in dirty /\ rank[page[UpTo(p)]] = rank[p]
    BY <1>9, <2>1
  <2> QED
    BY <1>5, <2>1, <2>2
<1>11. Blocks = entry
  BY DEF Blocks
<1> HIDE DEF page
<1>12. /\ entry \in Seq(Outgoing) /\ Len(entry) = n
       /\ \A i \in 1..n : entry[i].page = page[i] /\ entry[i].version = cache[page[i]]
  <2>1. \A i \in 1..n : page[i] \in Pages /\ entry[i] \in Outgoing
    BY <1>9 DEF Outgoing
  <2>2. entry \in [1..n -> Outgoing]
    BY <2>1
  <2> QED
    BY <1>2, <2>1, <2>2
<1> HIDE DEF entry, n
<1>13. \A p \in dirty : \E i \in 1..Len(entry) : entry[i].page = p
  BY <1>10, <1>12
<1>14. \A i, j \in 1..Len(entry) : i # j => entry[i].page # entry[j].page
  BY <1>9, <1>12
<1> QED
  BY <1>9, <1>11, <1>12, <1>13, <1>14

-----------------------------------------------------------------------------
(* Small facts about the state.                                            *)

LEMMA OrderIs ==
    /\ Ended = 9 /\ DOMAIN DropOrder = 1..8
    /\ DropOrder[1] = "send" /\ DropOrder[2] = "commit" /\ DropOrder[3] = "checkpoint"
    /\ DropOrder[4] = "io" /\ DropOrder[5] = "wal" /\ DropOrder[6] = "write"
    /\ DropOrder[7] = "undo" /\ DropOrder[8] = "data"
BY DEF Ended, DropOrder

LEMMA ReplayedIs ==
    /\ \A lg, p : Replayed(lg, p) = Replay(owner, gone, lg, p)
    /\ \A lg, p : Replayed(lg, p)' = Replay(owner', gone', lg, p)
<1>1. \A lg, p : Replayed(lg, p) = Replay(owner, gone, lg, p)
  BY DEF Replayed, Replay, VersionsOf, Live, From
<1>2. \A lg, p : Replayed(lg, p)' = Replay(owner', gone', lg, p)
  BY DEF Replayed, Replay, VersionsOf, Live, From
<1> QED
  BY <1>1, <1>2

\* Requests spawn threads.
LEMMA SpawnedUp ==
    ASSUME TypeOK, NEW S, Spawned(S)
    PROVE  /\ up' \in [Threads -> BOOLEAN]
           /\ \A t \in Threads : /\ up[t] \/ t \in S => up'[t]
                                 /\ t \notin S => up'[t] = up[t]
<1>1. up \in [Threads -> BOOLEAN] /\ DOMAIN up = Threads
  BY DEF TypeOK
<1>2. up' = [t \in Threads |-> up[t] \/ t \in S]
  BY <1>1 DEF Spawned
<1>3. up' \in [Threads -> BOOLEAN]
  BY <1>2
<1>4. \A t \in Threads : /\ up[t] \/ t \in S => up'[t]
                         /\ t \notin S => up'[t] = up[t]
  BY <1>1, <1>2
<1> QED
  BY <1>3, <1>4

-----------------------------------------------------------------------------
(* The start.                                                              *)

LEMMA InitType == Init => TypeOK
<1> SUFFICES ASSUME Init PROVE TypeOK
  OBVIOUS
<1>1. MaxPages \in Nat \ {0} /\ 1 \in 1..MaxPages
  BY PagesAssumption
<1>2. cl \in [Clients -> Client] /\ \A c \in Clients : cl[c].pc = "idle"
  BY DEF Init, NoCall, Client
<1>3. /\ owner \in Seq(Version) /\ log \in Seq(Nat) /\ ioq \in Seq(Request)
      /\ writes \in Seq(Outgoing) /\ commits \in Seq(Nat)
  BY NoEntry DEF Init
<1>30. gone \in 0..Len(log)
  BY NoEntry DEF Init
<1>4. io \in Served
  BY DEF Init, NoRequest, Served, Senders
<1>5. up \in [Threads -> BOOLEAN]
  BY DEF Init, Booted
<1>6. drop \in 0..Ended
  BY OrderIs DEF Init
<1>7. cache \in [Pages -> Nat] /\ disk \in [Pages -> Nat] /\ dirty \in SUBSET Pages
  BY DEF Init
<1>8. /\ lastTx \in Nat /\ last_index \in 1..MaxPages /\ ckq \in Nat
      /\ ck \in {"idle", "wait", "await"} /\ writing \in BOOLEAN
      /\ joining \in BOOLEAN /\ late \in BOOLEAN /\ short \in BOOLEAN
  BY <1>1 DEF Init
<1> QED
  BY <1>2, <1>3, <1>30, <1>4, <1>5, <1>6, <1>7, <1>8 DEF TypeOK

LEMMA InitInv == Init => Inv
<1> SUFFICES ASSUME Init PROVE Inv
  OBVIOUS
<1>1. TypeOK
  BY InitType
<1>2. /\ \A c \in Clients : cl[c].pc = "idle"
      /\ owner = <<>> /\ Len(owner) = 0 /\ log = <<>> /\ Len(log) = 0 /\ ioq = <<>> /\ Len(ioq) = 0
      /\ io.pc = "recv" /\ writes = <<>> /\ Len(writes) = 0
      /\ \A p \in Pages : cache[p] = 0 /\ disk[p] = 0
  BY NoEntry DEF Init, NoCall, NoRequest
<1>3. Coming = log
  <2>1. io.pc # "write"
    BY <1>2
  <2>2. Line(log, io, ioq) = log
    BY <1>1, <1>2, <2>1, LineSettled DEF TypeOK
  <2> QED
    BY <2>2 DEF Coming
<1>4. Len(Coming) = 0
  BY <1>2, <1>3
<1>0. \A c \in Clients : ~Running(c)
  BY <1>2 DEF Running
<1>5. Transactions /\ Order
  BY <1>0, <1>2, <1>4 DEF Transactions, Order, Ordered
<1>6. Requests
  BY <1>2 DEF Requests
<1>7. Pool
  BY <1>2 DEF Pool, Of, Sent, Init
<1>8. Allocator
  BY <1>2 DEF Allocator
<1>9. Acknowledged
  BY <1>2 DEF Acknowledged, Known, Init
<1>10. Cached /\ Flushed /\ Kept /\ OwnNewest
  BY <1>0, <1>2 DEF Cached, Flushed, Kept, KeptIn, OwnNewest
<1>11. Fresh
  <2> SUFFICES ASSUME NEW p \in Pages PROVE Replay(owner, gone, Coming, p) = 0
    BY ReplayedIs DEF Fresh
  <2>1. owner \in Seq(Version) /\ Coming \in Seq(Nat) /\ DOMAIN Coming = 1..Len(Coming)
        /\ gone \in Nat
    BY <1>1, <1>3, LenProperties DEF TypeOK
  <2>2. Restores(Replay(owner, gone, Coming, p), owner, gone, Coming, p)
    BY <2>1, ReplayIs
  <2>3. From(gone, Coming) = {}
    BY <1>4, <2>1 DEF From, Unmarked
  <2> QED
    BY <2>2, <2>3 DEF Restores
<1>12. Shutdown
  <2>1. up["meta"]
    BY DEF Init, Booted, Threads, Unclosed
  <2> QED
    BY <2>1 DEF Shutdown, Init
<1> QED
  BY <1>1, <1>5, <1>6, <1>7, <1>8, <1>9, <1>10, <1>11, <1>12 DEF Inv, Data

-----------------------------------------------------------------------------
(* The types, step by step.                                                *)

\* One client moves.
Turned(c, r) ==
  /\ cl' \in [Clients -> Client] /\ cl'[c] = r
  /\ \A d \in Clients : d # c => cl'[d] = cl[d]

LEMMA ClientTurns ==
    ASSUME TypeOK, NEW c \in Clients, NEW r \in Client, cl' = [cl EXCEPT ![c] = r]
    PROVE  Turned(c, r)
BY DEF TypeOK, Turned

LEMMA ClientSets ==
    ASSUME TypeOK, NEW c \in Clients, NEW pc \in {"idle", "open", "undo", "await"},
           NEW page \in Nat, Set(c, pc, page)
    PROVE  /\ Turned(c, [pc |-> pc, tx |-> cl[c].tx, page |-> page])
           /\ cl[c].tx \in Nat
<1>1. cl \in [Clients -> Client] /\ cl[c] \in Client
  BY DEF TypeOK
<1>2. [cl[c] EXCEPT !.pc = pc, !.page = page] = [pc |-> pc, tx |-> cl[c].tx, page |-> page]
  <2>1. ASSUME NEW r \in Client
        PROVE  [r EXCEPT !.pc = pc, !.page = page] = [pc |-> pc, tx |-> r.tx, page |-> page]
    <3>1. PICK x \in {"idle", "open", "undo", "await"}, y \in Nat, z \in Nat :
            r = [pc |-> x, tx |-> y, page |-> z]
      BY DEF Client
    <3>2. [r EXCEPT !.pc = pc, !.page = page] = [[r EXCEPT !.pc = pc] EXCEPT !.page = page]
      BY <3>1
    <3>3. [r EXCEPT !.pc = pc] = [pc |-> pc, tx |-> y, page |-> z] /\ r.tx = y
      BY <3>1
    <3>4. [[pc |-> pc, tx |-> y, page |-> z] EXCEPT !.page = page]
            = [pc |-> pc, tx |-> y, page |-> page]
      OBVIOUS
    <3> QED
      BY <3>2, <3>3, <3>4, Zenon
  <2> QED
    BY <1>1, <2>1, Zenon
<1>3. [pc |-> pc, tx |-> cl[c].tx, page |-> page] \in Client /\ cl[c].tx \in Nat
  BY <1>1 DEF Client
<1>4. cl' = [cl EXCEPT ![c] = [pc |-> pc, tx |-> cl[c].tx, page |-> page]]
  BY <1>2 DEF Set
<1> QED
  BY <1>3, <1>4, ClientTurns

\* The answer to the request that is served.
LEMMA AnswerIs ==
    ASSUME TypeOK, Answer
    PROVE  /\ io' = NoRequest /\ io' \in Served /\ cl' \in [Clients -> Client]
           /\ ck' \in {"idle", "wait", "await"}
           /\ io.from = Checkpointer => cl' = cl /\ ck' = "idle" /\ acked' = acked
           /\ io.from # Checkpointer =>
                /\ io.from \in Clients /\ Turned(io.from, NoCall)
                /\ acked' = acked \cup {io.tx} /\ ck' = ck
<1>1. io \in Served /\ cl \in [Clients -> Client] /\ ck \in {"idle", "wait", "await"}
  BY DEF TypeOK
<1>2. io' = NoRequest /\ NoRequest \in Served
  BY DEF Answer, NoRequest, Served, Senders
<1>3. CASE io.from = Checkpointer
  BY <1>1, <1>2, <1>3 DEF Answer
<1>4. CASE io.from # Checkpointer
  <2>1. io.from \in Clients
    BY <1>1, <1>4 DEF Served, Senders
  <2>2. cl' = [cl EXCEPT ![io.from] = NoCall] /\ acked' = acked \cup {io.tx} /\ ck' = ck
    BY <1>4 DEF Answer
  <2>3. NoCall \in Client
    BY DEF NoCall, Client
  <2>4. Turned(io.from, NoCall)
    BY <2>1, <2>2, <2>3, ClientTurns
  <2>5. cl' \in [Clients -> Client]
    BY <2>4 DEF Turned
  <2> QED
    BY <1>1, <1>2, <1>4, <2>1, <2>2, <2>4, <2>5
<1> QED
  BY <1>3, <1>4

\* What a restart finds.
Finds(image, f, n) ==
  /\ image \in Seq(Nat) /\ (image = log \/ (io.pc = "write" /\ image = Append(log, io.tx)))
  /\ f \in [Pages -> Nat]
  /\ \A p \in Pages : f[p] = IF Replay(owner, gone, image, p) = 0 THEN disk[p]
                             ELSE Replay(owner, gone, image, p)
  /\ n \in 1..MaxPages /\ \A p \in Pages : disk[p] # 0 => p < n

LEMMA RecoveredIs ==
    ASSUME TypeOK, NEW image \in Images
    PROVE  Finds(image, Recovered(image), FileLength)
<1>1. /\ log \in Seq(Nat) /\ io \in Served /\ io.tx \in Nat /\ owner \in Seq(Version)
      /\ disk \in [Pages -> Nat] /\ MaxPages \in Nat \ {0} /\ gone \in Nat
  BY PagesAssumption DEF TypeOK, Served
<1>2. image = log \/ (io.pc = "write" /\ image = Append(log, io.tx))
  BY DEF Images
<1>3. image \in Seq(Nat)
  <2>1. log \in Seq(Nat) /\ Append(log, io.tx) \in Seq(Nat)
    BY <1>1, AppendLast
  <2> QED
    BY <1>2, <2>1, Zenon
<1>4. \A p : Replay(owner, gone, image, p) \in Nat
  BY <1>1, <1>3, ReplayIs, RestoresOne
<1>5. Recovered(image) = [p \in Pages |-> IF Replay(owner, gone, image, p) = 0 THEN disk[p]
                                          ELSE Replay(owner, gone, image, p)]
  BY ReplayedIs DEF Recovered
<1>6. Recovered(image) \in [Pages -> Nat]
  BY <1>1, <1>4, <1>5
<1> DEFINE T == {1} \cup {p + 1 : p \in {q \in Pages : disk[q] # 0}}
<1>7. \A p \in Pages : p \in Nat /\ p + 1 \in 1..MaxPages
  BY <1>1 DEF Pages
<1>8. T \in SUBSET (0..MaxPages) /\ 1 \in T /\ \A x \in T : x >= 1
  <2>1. \A x \in T : x \in 1..MaxPages
    BY <1>1, <1>7
  <2>2. 1..MaxPages \subseteq 0..MaxPages
    BY <1>1
  <2>3. T \in SUBSET (0..MaxPages)
    BY <2>1, <2>2
  <2>4. \A x \in 1..MaxPages : x >= 1
    BY <1>1
  <2> QED
    BY <2>1, <2>3, <2>4
<1>9. Newest(T) \in T /\ \A x \in T : x <= Newest(T)
  BY <1>1, <1>8, Greatest
<1>10. FileLength = Newest(T)
  BY DEF FileLength
<1>11. \A p \in Pages : disk[p] # 0 => p + 1 \in T
  OBVIOUS
<1> HIDE DEF T
<1>12. FileLength \in 1..MaxPages
  <2>1. FileLength \in 0..MaxPages /\ FileLength >= 1
    BY <1>8, <1>9, <1>10
  <2> QED
    BY <1>1, <2>1
<1>13. \A p \in Pages : disk[p] # 0 => p < FileLength
  <2> SUFFICES ASSUME NEW p \in Pages, disk[p] # 0 PROVE p < FileLength
    OBVIOUS
  <2>1. p + 1 <= FileLength /\ p \in Nat
    BY <1>7, <1>9, <1>10, <1>11
  <2> QED
    BY <1>12, <2>1
<1> QED
  BY <1>2, <1>3, <1>5, <1>6, <1>12, <1>13 DEF Finds

LEMMA TypeStep == Inv /\ [Next]_vars => TypeOK'
<1> SUFFICES ASSUME Inv, [Next]_vars PROVE TypeOK'
  OBVIOUS
<1> USE DEF cursorVars, logVars, flushVars, dropVars, history, vars
<1>1. TypeOK
  BY DEF Inv
<1>2. \A c \in Clients : cl[c] \in Client /\ cl[c].tx \in Nat /\ cl[c].page \in Nat
  BY <1>1 DEF TypeOK, Client
<1>3. \A p \in Pages : p \in Nat
  BY PagesAssumption DEF Pages
<1>4. last_index \in Nat /\ \A i \in 1..MaxPages : i < MaxPages => i \in Pages /\ i + 1 \in 1..MaxPages
  BY <1>1, PagesAssumption DEF TypeOK, Pages
<1>5. drop \in 0..8 => drop + 1 \in 0..Ended
  BY OrderIs
<1>30. \A c \in Clients : cl[c].pc = "undo" => cl[c].page \in Pages
  BY <1>1 DEF TypeOK
<1>6. ASSUME NEW c \in Clients, Begin(c) PROVE TypeOK'
  <2> DEFINE r == [NoCall EXCEPT !.pc = "open", !.tx = lastTx + 1]
  <2>1. r \in Client
    <3>1. lastTx + 1 \in Nat /\ NoCall \in Client
      BY <1>1 DEF TypeOK, NoCall, Client
    <3>2. [NoCall EXCEPT !.pc = "open"] \in Client
      BY <3>1 DEF Client
    <3>3. r = [[NoCall EXCEPT !.pc = "open"] EXCEPT !.tx = lastTx + 1]
      BY DEF NoCall
    <3> QED
      BY <3>1, <3>2, <3>3 DEF Client
  <2>2. Turned(c, r) /\ r.pc = "open"
    BY <1>1, <1>6, <2>1, ClientTurns DEF Begin, NoCall
  <2>3. \A d \in Clients : cl'[d].pc = "undo" => cl[d].pc = "undo" /\ cl'[d].page = cl[d].page
    BY <2>2 DEF Turned
  <2>4. lastTx' \in Nat
    BY <1>1, <1>6 DEF Begin, TypeOK
  <2> QED
    BY <1>1, <1>6, <2>2, <2>3, <2>4 DEF Begin, TypeOK, Turned
<1>7. ASSUME NEW c \in Clients, Read(c) PROVE TypeOK'
  <2>1. up' \in [Threads -> BOOLEAN]
    BY <1>1, <1>7, SpawnedUp DEF Read
  <2> QED
    BY <1>1, <1>7, <2>1 DEF Read, TypeOK, Called
<1>8. ASSUME NEW c \in Clients, NEW p \in Pages, Update(c, p) PROVE TypeOK'
  <2>1. up' \in [Threads -> BOOLEAN]
    BY <1>1, <1>8, SpawnedUp DEF Update
  <2>2. Turned(c, [pc |-> "undo", tx |-> cl[c].tx, page |-> p])
    BY <1>1, <1>3, <1>8, ClientSets DEF Update
  <2>3. \A d \in Clients : cl'[d].pc = "undo" => cl'[d].page \in Pages
    BY <1>30, <2>2 DEF Turned
  <2> QED
    BY <1>1, <1>8, <2>1, <2>2, <2>3 DEF Update, TypeOK, Called, Turned
<1>9. ASSUME NEW c \in Clients, Insert(c) PROVE TypeOK'
  <2>1. up' \in [Threads -> BOOLEAN]
    BY <1>1, <1>9, SpawnedUp DEF Insert
  <2>2. Turned(c, [pc |-> "undo", tx |-> cl[c].tx, page |-> last_index])
    BY <1>1, <1>4, <1>9, ClientSets DEF Insert
  <2>3. last_index \in Pages /\ last_index' \in 1..MaxPages
    BY <1>1, <1>4, <1>9 DEF Insert, TypeOK
  <2>4. \A d \in Clients : cl'[d].pc = "undo" => cl'[d].page \in Pages
    BY <1>30, <2>2, <2>3 DEF Turned
  <2> QED
    BY <1>1, <1>9, <2>1, <2>2, <2>3, <2>4 DEF Insert, TypeOK, Called, Turned
<1>10. ASSUME NEW c \in Clients, Enter(c) PROVE TypeOK'
  <2>1. cl[c].page \in Pages /\ cl[c].tx \in Nat
    BY <1>1, <1>2, <1>10 DEF Enter, TypeOK
  <2>2. owner' = Append(owner, [page |-> cl[c].page, tx |-> cl[c].tx])
    BY <1>10 DEF Enter
  <2>3. owner' \in Seq(Version) /\ Len(owner') \in Nat
    BY <1>1, <2>1, <2>2, AppendLast DEF TypeOK, Version
  <2>4. cache' \in [Pages -> Nat] /\ dirty' \in SUBSET Pages
    BY <1>1, <1>10, <2>1, <2>3 DEF Enter, TypeOK
  <2>5. Turned(c, [pc |-> "open", tx |-> cl[c].tx, page |-> 0])
    BY <1>1, <1>10, ClientSets DEF Enter
  <2>6. \A d \in Clients : cl'[d].pc = "undo" => cl'[d].page \in Pages
    BY <1>30, <2>5 DEF Turned
  <2> QED
    BY <1>1, <1>10, <2>3, <2>4, <2>5, <2>6 DEF Enter, TypeOK, Turned
<1>11. ASSUME NEW c \in Clients, Commit(c) PROVE TypeOK'
  <2>1. up' \in [Threads -> BOOLEAN]
    BY <1>1, <1>11, SpawnedUp DEF Commit
  <2>2. Turned(c, [pc |-> "await", tx |-> cl[c].tx, page |-> 0])
    BY <1>1, <1>11, ClientSets DEF Commit
  <2>3. \A d \in Clients : cl'[d].pc = "undo" => cl'[d].page \in Pages
    BY <1>30, <2>2 DEF Turned
  <2>4. ioq' \in Seq(Request)
    <3>1. [from |-> c, tx |-> cl[c].tx] \in Request
      BY <1>2 DEF Request, Senders
    <3> QED
      BY <1>1, <1>11, <3>1, AppendLast DEF Commit, TypeOK
  <2> QED
    BY <1>1, <1>11, <2>1, <2>2, <2>3, <2>4 DEF Commit, TypeOK, Called, Turned
<1>12. ASSUME NEW c \in Clients, Abandon(c) PROVE TypeOK'
  <2>1. NoCall \in Client /\ NoCall.pc = "idle"
    BY DEF NoCall, Client
  <2>2. Turned(c, NoCall)
    BY <1>1, <1>12, <2>1, ClientTurns DEF Abandon
  <2>3. \A d \in Clients : cl'[d].pc = "undo" => cl'[d].page \in Pages
    BY <1>30, <2>1, <2>2 DEF Turned
  <2> QED
    BY <1>1, <1>12, <2>2, <2>3 DEF Abandon, TypeOK, Turned
<1>13. ASSUME IoTake PROVE TypeOK'
  <2>1. Head(ioq) \in Request /\ Tail(ioq) \in Seq(Request)
    BY <1>1, <1>13, HeadLeaves DEF IoTake, TypeOK
  <2>2. io' \in Served
    BY <1>13, <2>1 DEF IoTake, Served, Request
  <2>3. commits' \in Seq(Nat)
    <3>1. Head(ioq).tx \in Nat
      BY <2>1 DEF Request
    <3> QED
      BY <1>1, <1>13, <3>1, AppendLast DEF IoTake, TypeOK
  <2>4. up' \in [Threads -> BOOLEAN]
    BY <1>1, <1>13, SpawnedUp DEF IoTake
  <2> QED
    BY <1>1, <1>13, <2>1, <2>2, <2>3, <2>4 DEF IoTake, TypeOK
<1>14. \A c \in Clients : Answer /\ cl'[c].pc = "undo" => cl'[c].page \in Pages
  <2> SUFFICES ASSUME NEW c \in Clients, Answer, cl'[c].pc = "undo" PROVE cl'[c].page \in Pages
    OBVIOUS
  <2>1. cl'[c] = cl[c]
    BY <1>1, AnswerIs DEF Turned, NoCall
  <2> QED
    BY <1>1, <2>1 DEF TypeOK
<1>15. ASSUME IoWritten PROVE TypeOK'
  <2>1. log' \in Seq(Nat)
    BY <1>1, <1>15, AppendLast DEF IoWritten, TypeOK, Served
  <2>5. gone' \in 0..Len(log')
    <3>1. Len(log') = Len(log) + 1 /\ Len(log) \in Nat
      BY <1>1, <1>15, AppendLast DEF IoWritten, TypeOK, Served
    <3>2. gone' = gone /\ gone \in 0..Len(log)
      BY <1>1, <1>15 DEF IoWritten, TypeOK
    <3> QED
      BY <3>1, <3>2
  <2>2. CASE counter > CheckpointCount
    <3>1. io' \in Served /\ UNCHANGED <<cl, ck>>
      BY <1>1, <1>15, <2>2 DEF IoWritten, TypeOK, Served
    <3> QED
      BY <1>1, <1>15, <2>1, <2>5, <3>1 DEF IoWritten, TypeOK
  <2>3. CASE ~(counter > CheckpointCount)
    <3>1. Answer
      BY <1>15, <2>3 DEF IoWritten
    <3> QED
      BY <1>1, <1>14, <1>15, <2>1, <2>5, <3>1, AnswerIs DEF IoWritten, TypeOK
  <2> QED
    BY <2>2, <2>3
<1>16. ASSUME IoSignal PROVE TypeOK'
  <2>1. Spawned({"checkpoint"}) /\ Answer /\ ckq' = ckq + 1
    BY <1>16 DEF IoSignal
  <2>2. up' \in [Threads -> BOOLEAN]
    BY <1>1, <2>1, SpawnedUp
  <2>3. ckq' \in Nat
    BY <1>1, <2>1 DEF TypeOK
  <2>4. /\ io' \in Served /\ cl' \in [Clients -> Client] /\ ck' \in {"idle", "wait", "await"}
        /\ \A c \in Clients : cl'[c].pc = "undo" => cl'[c].page \in Pages
    BY <1>1, <1>14, <2>1, AnswerIs
  <2> QED
    BY <1>1, <1>16, <2>2, <2>3, <2>4 DEF IoSignal, TypeOK
<1>31. ASSUME IoOverwrite PROVE TypeOK'
  <2>1. gone' \in 0..Len(log)
    <3>1. gone \in 0..Len(log) /\ Len(log) \in Nat
      BY <1>1, LenProperties DEF TypeOK
    <3>2. gone' \in gone + 1..Len(log)
      BY <1>31 DEF IoOverwrite
    <3> QED
      BY <3>1, <3>2
  <2> QED
    BY <1>1, <1>31, <2>1 DEF IoOverwrite, TypeOK
<1>17. ASSUME CkNothing PROVE TypeOK'
  <2>1. ckq' \in Nat
    BY <1>1, <1>17 DEF CkNothing, CkRequest, TypeOK
  <2>2. up' \in [Threads -> BOOLEAN]
    BY <1>1, <1>17, SpawnedUp DEF CkNothing
  <2> QED
    BY <1>1, <1>17, <2>1, <2>2 DEF CkNothing, TypeOK
<1>18. ASSUME CkRequest \/ CkTimer, CkDrain PROVE TypeOK'
  <2>1. ckq' \in Nat
    BY <1>1, <1>18 DEF CkRequest, CkTimer, TypeOK
  <2>2. up' \in [Threads -> BOOLEAN]
    BY <1>1, <1>18, SpawnedUp DEF CkDrain
  <2>3. writes' \in Seq(Outgoing)
    <3>1. Blocks \in Seq(Outgoing)
      BY <1>1, BlocksOf DEF TypeOK
    <3> QED
      BY <1>1, <1>18, <3>1, ConcatProperties DEF CkDrain, TypeOK
  <2> QED
    BY <1>1, <1>18, <2>1, <2>2, <2>3 DEF CkDrain, TypeOK
<1>19. ASSUME CkFlushed PROVE TypeOK'
  <2>1. up' \in [Threads -> BOOLEAN]
    BY <1>1, <1>19, SpawnedUp DEF CkFlushed, Mark
  <2>2. ioq' \in Seq(Request)
    <3>1. [from |-> Checkpointer, tx |-> 0] \in Request
      BY DEF Request, Senders
    <3> QED
      BY <1>1, <1>19, <3>1, AppendLast DEF CkFlushed, Mark, TypeOK
  <2> QED
    BY <1>1, <1>19, <2>1, <2>2 DEF CkFlushed, Mark, TypeOK
<1>20. ASSUME WriteBegin PROVE TypeOK'
  <2>1. up' \in [Threads -> BOOLEAN]
    BY <1>1, <1>20, SpawnedUp DEF WriteBegin
  <2> QED
    BY <1>1, <1>20, <2>1 DEF WriteBegin, TypeOK
<1>21. ASSUME WriteEnd PROVE TypeOK'
  <2>1. writes # <<>>
    BY <1>21 DEF Inv, Data, Pool, WriteEnd
  <2>2. Head(writes) \in Outgoing /\ Tail(writes) \in Seq(Outgoing)
    BY <1>1, <2>1, HeadLeaves DEF TypeOK
  <2>3. disk' \in [Pages -> Nat]
    BY <1>1, <1>21, <2>2 DEF WriteEnd, TypeOK, Outgoing
  <2>4. up' \in [Threads -> BOOLEAN]
    BY <1>1, <1>21, SpawnedUp DEF WriteEnd
  <2> QED
    BY <1>1, <1>21, <2>2, <2>3, <2>4 DEF WriteEnd, TypeOK
<1>22. ASSUME CommitTake PROVE TypeOK'
  <2>1. up' \in [Threads -> BOOLEAN]
    BY <1>1, <1>22, SpawnedUp DEF CommitTake
  <2>2. commits' \in Seq(Nat)
    BY <1>1, <1>22, HeadLeaves DEF CommitTake, TypeOK
  <2> QED
    BY <1>1, <1>22, <2>1, <2>2 DEF CommitTake, TypeOK
<1>23. ASSUME DropBegin PROVE TypeOK'
  <2>1. drop' \in 0..Ended /\ late' \in BOOLEAN
    BY <1>5, <1>23 DEF DropBegin
  <2> QED
    BY <1>1, <1>23, <2>1 DEF DropBegin, TypeOK
<1>24. ASSUME DropSend PROVE TypeOK'
  <2>1. drop' \in 0..Ended /\ ckq' \in Nat
    BY <1>1, <1>24, OrderIs DEF DropSend, Calls, Dropping, TypeOK
  <2>2. up' \in [Threads -> BOOLEAN]
    BY <1>1, <1>24, SpawnedUp DEF DropSend
  <2> QED
    BY <1>1, <1>24, <2>1, <2>2 DEF DropSend, TypeOK
<1>25. ASSUME DropClose PROVE TypeOK'
  BY <1>1, <1>25 DEF DropClose, TypeOK
<1>26. ASSUME DropJoined PROVE TypeOK'
  <2>1. drop \in 1..8
    BY <1>26 DEF DropJoined, Locked, Inv, Shutdown
  <2>2. drop' \in 0..Ended
    BY <1>26, <2>1, OrderIs DEF DropJoined
  <2>3. up' \in [Threads -> BOOLEAN]
    BY <1>1, <1>26 DEF DropJoined, TypeOK
  <2> QED
    BY <1>1, <1>26, <2>2, <2>3 DEF DropJoined, TypeOK
<1>27. ASSUME DropFile PROVE TypeOK'
  <2>1. drop' \in 0..Ended
    BY <1>27, OrderIs DEF DropFile, Calls, Dropping
  <2>2. up' \in [Threads -> BOOLEAN]
    BY <1>1, <1>27 DEF DropFile, TypeOK
  <2> QED
    BY <1>1, <1>27, <2>1, <2>2 DEF DropFile, TypeOK
<1>28. ASSUME Restart PROVE TypeOK'
  <2>1. PICK image \in Images : /\ log' = image /\ cache' = Recovered(image)
                                /\ dirty' = {p \in Pages : Replayed(image, p) # 0}
                                /\ gone' \in gone..Len(image)
    BY <1>28 DEF Restart
  <2>10. last_index' = FileLength
    BY <1>28 DEF Restart
  <2>2. log' \in Seq(Nat) /\ cache' \in [Pages -> Nat] /\ last_index' \in 1..MaxPages
    <3>1. /\ image \in Seq(Nat) /\ Recovered(image) \in [Pages -> Nat]
          /\ FileLength \in 1..MaxPages
      BY <1>1, RecoveredIs DEF Finds
    <3> QED
      BY <2>1, <2>10, <3>1
  <2>11. gone' \in 0..Len(log')
    <3>1. gone \in Nat /\ Len(log') \in Nat
      BY <1>1, <2>2, LenProperties DEF TypeOK
    <3> QED
      BY <2>1, <3>1
  <2>3. dirty' \in SUBSET Pages
    BY <2>1
  <2>4. /\ ioq' \in Seq(Request) /\ writes' \in Seq(Outgoing) /\ commits' \in Seq(Nat)
    BY <1>28, NoEntry DEF Restart
  <2>5. io' \in Served
    BY <1>28 DEF Restart, NoRequest, Served, Senders
  <2>6. cl' \in [Clients -> Client] /\ \A c \in Clients : cl'[c].pc = "idle"
    BY <1>28 DEF Restart, NoCall, Client
  <2>7. up' \in [Threads -> BOOLEAN]
    BY <1>28 DEF Restart, Booted
  <2>8. drop' \in 0..Ended
    BY <1>28, OrderIs DEF Restart
  <2>9. short' \in BOOLEAN
    BY <1>1, <1>28 DEF Restart, TypeOK
  <2> QED
    BY <1>1, <1>28, <2>2, <2>3, <2>4, <2>5, <2>6, <2>7, <2>8, <2>9, <2>11 DEF Restart, TypeOK
<1>29. ASSUME UNCHANGED vars PROVE TypeOK'
  BY <1>1, <1>29 DEF TypeOK
<1> QED
  BY <1>6, <1>7, <1>8, <1>9, <1>10, <1>11, <1>12, <1>13, <1>15, <1>16, <1>17, <1>18, <1>19,
     <1>20, <1>21, <1>22, <1>23, <1>24, <1>25, <1>26, <1>27, <1>28, <1>29, <1>31
  DEF Next, Cursor, Io, Checkpoint, Write, Dropper, Rest

-----------------------------------------------------------------------------
(* What the steps that leave the versions alone keep.                      *)

\* No transaction is new, none runs again, and the log to come loses at most its end.
Calm ==
  /\ UNCHANGED <<lastTx, owner, clash>>
  /\ \A i \in 1..Len(Coming') : i \in 1..Len(Coming) /\ Coming'[i] = Coming[i]
  /\ \A c \in Clients : \/ cl'[c].pc = "idle"
                        \/ cl'[c].tx = cl[c].tx /\ cl[c].pc # "idle" /\ (Running(c)' => Running(c))

LEMMA CalmIs ==
    ASSUME Calm
    PROVE  /\ \A c \in Clients : Running(c)' => Running(c) /\ cl'[c].tx = cl[c].tx
           /\ \A t : Alive(t)' => Alive(t)
           /\ exposed \subseteq exposed' => \A v : Tracked(v)' => Tracked(v)
<1>1. \A c \in Clients : Running(c)' => Running(c) /\ cl'[c].tx = cl[c].tx
  BY DEF Calm, Running
<1>2. ASSUME NEW t, Alive(t)' PROVE Alive(t)
  <2>1. CASE \E i \in 1..Len(Coming') : Coming'[i] = t
    BY <2>1 DEF Calm, Alive
  <2>2. CASE \E c \in Clients : Running(c)' /\ cl'[c].tx = t
    BY <1>1, <2>2 DEF Alive
  <2> QED
    BY <1>2, <2>1, <2>2 DEF Alive
<1>3. ASSUME exposed \subseteq exposed', NEW v, Tracked(v)' PROVE Tracked(v)
  <2>1. Alive(owner[v].tx)' /\ owner' = owner /\ owner[v].tx \notin exposed \cup clash
    BY <1>3 DEF Tracked, Calm
  <2>2. Alive(owner[v].tx)
    BY <1>2, <2>1 DEF Alive
  <2> QED
    BY <2>1, <2>2 DEF Tracked
<1> QED
  BY <1>1, <1>2, <1>3

LEMMA CalmTransactions == Transactions /\ Calm => Transactions'
<1> SUFFICES ASSUME Transactions, Calm PROVE Transactions'
  OBVIOUS
<1>1. Tx' = Tx /\ owner' = owner
  BY DEF Calm, Tx
<1>2. \A c \in Clients : cl'[c].pc # "idle" => cl[c].pc # "idle" /\ cl'[c].tx = cl[c].tx
  BY DEF Calm
<1>3. \A i \in 1..Len(Coming') : i \in 1..Len(Coming) /\ Coming'[i] = Coming[i]
  BY DEF Calm
<1>4. \A c \in Clients : Running(c)' => Running(c) /\ cl'[c].tx = cl[c].tx
  BY CalmIs
<1>5. \A c \in Clients : cl'[c].pc # "idle" => cl'[c].tx \in Tx
  BY <1>2 DEF Transactions
<1>6. \A c, d \in Clients : c # d /\ cl'[c].pc # "idle" /\ cl'[d].pc # "idle" => cl'[c].tx # cl'[d].tx
  BY <1>2 DEF Transactions
<1>7. \A i \in 1..Len(Coming') : Coming'[i] \in Tx \cup {0}
  BY <1>3 DEF Transactions
<1>8. \A i, j \in 1..Len(Coming') : i # j /\ Coming'[i] # 0 => Coming'[i] # Coming'[j]
  BY <1>3 DEF Transactions
<1>9. \A c \in Clients, i \in 1..Len(Coming') : Running(c)' => Coming'[i] # cl'[c].tx
  BY <1>3, <1>4 DEF Transactions
<1>10. \A v \in 1..Len(owner) : owner[v].tx \in Tx
  BY DEF Transactions
<1> QED
  BY <1>1, <1>5, <1>6, <1>7, <1>8, <1>9, <1>10 DEF Transactions

LEMMA CalmOrder == Order /\ Calm => Order'
<1> SUFFICES ASSUME Order, Calm PROVE Order'
  OBVIOUS
<1>1. owner' = owner /\ clash' = clash
  BY DEF Calm
<1>2. \A i \in 1..Len(Coming') : i \in 1..Len(Coming) /\ Coming'[i] = Coming[i]
  BY DEF Calm
<1>3. \A c \in Clients : Running(c)' => Running(c) /\ cl'[c].tx = cl[c].tx
  BY CalmIs
<1>4. Ordered(Coming', owner, clash)
  BY <1>2 DEF Order, Ordered
<1>5. \A c \in Clients, i \in 1..Len(Coming') :
        Running(c)' /\ Coming'[i] # 0 /\ Coming'[i] \notin clash => Older(owner, Coming'[i], cl'[c].tx)
  BY <1>2, <1>3 DEF Order
<1>6. \A c, d \in Clients : c # d /\ Running(c)' /\ Running(d)' /\ cl'[c].tx \notin clash =>
        Apart(owner, cl'[c].tx, cl'[d].tx)
  BY <1>3 DEF Order
<1> QED
  BY <1>1, <1>4, <1>5, <1>6 DEF Order

\* What waits goes on waiting.
LEMMA RequestsStay ==
    ASSUME Requests, UNCHANGED <<ioq, io, log>>, ck = "await" => ck' = ck,
           \A c \in Clients : cl[c].pc = "await" => cl'[c] = cl[c],
           ioq \in Seq(Request), io \in Served
    PROVE  Requests'
<1>1. ASSUME NEW r, r.from \in Senders, Asks(r) PROVE Asks(r)'
  <2>1. CASE r.from = Checkpointer
    BY <1>1, <2>1 DEF Asks
  <2>2. CASE r.from # Checkpointer
    <3>1. r.from \in Clients
      BY <1>1, <2>2 DEF Senders
    <3> QED
      BY <1>1, <2>2, <3>1 DEF Asks
  <2> QED
    BY <2>1, <2>2
<1>2. \A i \in 1..Len(ioq) : ioq[i].from \in Senders
  <2>1. \A i \in 1..Len(ioq) : ioq[i] \in Request
    BY ElementOfSeq
  <2> QED
    BY <2>1 DEF Request
<1>3. io.from \in Senders
  BY DEF Served
<1>4. \A i \in 1..Len(ioq) : Asks(ioq[i])'
  <2> SUFFICES ASSUME NEW i \in 1..Len(ioq) PROVE Asks(ioq[i])'
    OBVIOUS
  <2>1. Asks(ioq[i])
    BY DEF Requests
  <2> QED
    BY <1>1, <1>2, <2>1 DEF Asks
<1>5. io.pc # "recv" => Asks(io)'
  BY <1>1, <1>3 DEF Requests, Asks
<1> QED
  BY <1>4, <1>5 DEF Requests, Asks

LEMMA PoolStays ==
    ASSUME Pool, UNCHANGED <<cache, disk, owner, writes, dirty>>,
           ck' # "wait" => ck # "wait" \/ writes = <<>>, writing' => writes # <<>>
    PROVE  Pool'
BY DEF Pool, Sent, Of

LEMMA AllocatorStays ==
    ASSUME Allocator, UNCHANGED <<short, cache, last_index>>,
           \A c \in Clients : cl'[c].pc = "undo" => cl'[c] = cl[c]
    PROVE  Allocator'
BY DEF Allocator

LEMMA CachedStays ==
    ASSUME Cached, Calm, exposed \subseteq exposed', cache' = cache
    PROVE  Cached'
<1>1. \A v : Tracked(v)' => Tracked(v)
  BY CalmIs
<1>2. owner' = owner
  BY DEF Calm
<1> QED
  BY <1>1, <1>2 DEF Cached

LEMMA FlushedStays ==
    ASSUME Flushed, Calm, exposed \subseteq exposed', UNCHANGED <<writes, disk, since>>,
           ck' # "idle" => ck # "idle"
    PROVE  Flushed'
<1>1. \A v : Tracked(v)' => Tracked(v)
  BY CalmIs
<1>2. owner' = owner
  BY DEF Calm
<1> QED
  BY <1>1, <1>2 DEF Flushed, Coverable, Sent

LEMMA OwnNewestStays ==
    ASSUME OwnNewest, Calm, cache' = cache
    PROVE  OwnNewest'
<1>1. \A c \in Clients : Running(c)' => Running(c) /\ cl'[c].tx = cl[c].tx
  BY CalmIs
<1>2. owner' = owner /\ clash' = clash
  BY DEF Calm
<1> QED
  BY <1>1, <1>2 DEF OwnNewest

LEMMA FreshStays ==
    ASSUME Fresh, Coming' = Coming, UNCHANGED <<owner, clash, cache, gone>>,
           \A p \in Pages : p \in dirty => p \in dirty' \/ ck' = "wait", ck = "wait" => ck' = "wait"
    PROVE  Fresh'
BY ReplayedIs DEF Fresh

\* More of the log is written over.
LEMMA FreshFades ==
    ASSUME TypeOK, Fresh, Coming' = Coming, UNCHANGED <<owner, clash, cache, dirty, ck>>,
           gone' \in Nat, gone <= gone'
    PROVE  Fresh'
<1>1. owner \in Seq(Version) /\ Coming \in Seq(Nat) /\ gone \in Nat
  <2>1. owner \in Seq(Version) /\ log \in Seq(Nat) /\ gone \in Nat
    BY LenProperties DEF TypeOK
  <2> QED
    BY <2>1, LineIs DEF TypeOK, Coming, Joins
<1> SUFFICES ASSUME clash = {}, NEW p \in Pages, p \notin dirty, ck # "wait"
             PROVE  Replay(owner, gone', Coming, p) \in {0, cache[p]}
  BY ReplayedIs DEF Fresh
<1>2. Replay(owner, gone', Coming, p) \in {0, Replay(owner, gone, Coming, p)}
  BY <1>1, ReplayFades
<1>3. Replay(owner, gone, Coming, p) \in {0, cache[p]}
  BY ReplayedIs DEF Fresh
<1> QED
  BY <1>2, <1>3

\* The steps that change nothing of all this but what of the log is written over.
LEMMA Outside ==
    ASSUME TypeOK, Data, writing' => writes # <<>>,
           gone' = gone \/ (gone' \in Nat /\ gone <= gone'),
           UNCHANGED <<cl, lastTx, owner, cache, dirty, last_index, disk, log, ioq, io, ck, writes,
                       acked, since, exposed, early, clash, short>>
    PROVE  Data'
<1>1. Coming' = Coming
  BY DEF Coming
<1>2. Calm
  BY <1>1 DEF Calm, Running
<1>3. Transactions' /\ Order'
  BY <1>2, CalmTransactions, CalmOrder DEF Data
<1>4. Requests'
  BY RequestsStay DEF Data, TypeOK
<1>5. Pool'
  BY PoolStays DEF Data, Pool
<1>6. Allocator'
  BY AllocatorStays DEF Data
<1>7. Acknowledged'
  BY DEF Data, Acknowledged, Known
<1>8. Cached' /\ Flushed' /\ OwnNewest'
  BY <1>2, CachedStays, FlushedStays, OwnNewestStays DEF Data
<1>9. Kept'
  BY DEF Data, Kept, KeptIn, Coverable
<1>10. Fresh'
  <2>1. CASE gone' = gone
    BY <1>1, <2>1, FreshStays DEF Data
  <2>2. CASE gone' \in Nat /\ gone <= gone'
    BY <1>1, <2>2, FreshFades DEF Data
  <2> QED
    BY <2>1, <2>2
<1> QED
  BY <1>3, <1>4, <1>5, <1>6, <1>7, <1>8, <1>9, <1>10 DEF Data

-----------------------------------------------------------------------------
(* The data: cursors.                                                      *)

\* One client that does not wait moves without touching versions.
LEMMA CursorMoves ==
    ASSUME TypeOK, Data, NEW c \in Clients, NEW r \in Client, Turned(c, r),
           cl[c].pc \notin {"idle", "await"},
           r.pc = "idle" \/ (r.tx = cl[c].tx /\ (r.pc \in {"open", "undo"} => Running(c))),
           UNCHANGED <<lastTx, owner, cache, dirty, disk, log, ioq, io, ck, writes, writing, acked,
                       since, exposed, early, clash, short, gone>>
    PROVE  /\ Transactions' /\ Order' /\ Requests' /\ Pool' /\ Acknowledged'
           /\ Cached' /\ Flushed' /\ Kept' /\ OwnNewest' /\ Fresh'
<1>1. Coming' = Coming
  BY DEF Coming
<1>2. Calm
  <2>1. ASSUME NEW d \in Clients
        PROVE  \/ cl'[d].pc = "idle"
               \/ cl'[d].tx = cl[d].tx /\ cl[d].pc # "idle" /\ (Running(d)' => Running(d))
    <3>1. CASE d = c
      BY <3>1 DEF Turned, Running
    <3>2. CASE d # c
      <4>1. cl'[d] = cl[d]
        BY <3>2 DEF Turned
      <4> QED
        BY <4>1 DEF Running
    <3> QED
      BY <3>1, <3>2
  <2> QED
    BY <1>1, <2>1 DEF Calm
<1>3. \A d \in Clients : cl[d].pc = "await" => cl'[d] = cl[d]
  BY DEF Turned
<1>4. Requests'
  BY <1>3, RequestsStay DEF Data, TypeOK
<1>5. Pool'
  BY PoolStays DEF Data, Pool
<1>6. Acknowledged'
  BY DEF Data, Acknowledged, Known
<1>7. Kept'
  BY DEF Data, Kept, KeptIn, Coverable
<1>8. Cached' /\ Flushed' /\ OwnNewest' /\ Fresh'
  BY <1>1, <1>2, CachedStays, FlushedStays, OwnNewestStays, FreshStays DEF Data
<1> QED
  BY <1>2, <1>4, <1>5, <1>6, <1>7, <1>8, CalmTransactions, CalmOrder DEF Data

LEMMA UpdateData ==
    ASSUME TypeOK, Data, NEW c \in Clients, NEW p \in Pages, Update(c, p)
    PROVE  Data'
<1> DEFINE r == [pc |-> "undo", tx |-> cl[c].tx, page |-> p]
<1>1. p \in Nat
  BY PagesAssumption DEF Pages
<1>2. Turned(c, r) /\ r \in Client /\ r.pc = "undo" /\ r.tx = cl[c].tx /\ r.page = p
  BY <1>1, ClientSets DEF Update, Client
<1> HIDE DEF r
<1>3. cl[c].pc = "open" /\ Running(c) /\ (p < last_index \/ cache[p] # 0)
  BY DEF Update, Running
<1>4. UNCHANGED <<lastTx, owner, cache, dirty, disk, log, ioq, io, ck, writes, writing, acked,
                  since, exposed, early, clash, short, last_index, gone>>
  BY DEF Update, logVars, flushVars
<1>5. /\ Transactions' /\ Order' /\ Requests' /\ Pool' /\ Acknowledged'
      /\ Cached' /\ Flushed' /\ Kept' /\ OwnNewest' /\ Fresh'
  BY <1>2, <1>3, <1>4, CursorMoves
<1>6. Allocator'
  <2>1. CASE short
    BY <1>4, <2>1 DEF Allocator
  <2>2. CASE ~short
    <3>1. p < last_index
      BY <1>1, <1>3, <2>2 DEF Data, Allocator, TypeOK
    <3>2. \A d \in Clients : cl'[d].pc = "undo" => cl'[d].page < last_index
      BY <1>2, <2>2, <3>1 DEF Data, Allocator, Turned
    <3> QED
      BY <1>4, <2>2, <3>2 DEF Data, Allocator
  <2> QED
    BY <2>1, <2>2
<1> QED
  BY <1>5, <1>6 DEF Data

LEMMA InsertData ==
    ASSUME TypeOK, Data, NEW c \in Clients, Insert(c)
    PROVE  Data'
<1> DEFINE r == [pc |-> "undo", tx |-> cl[c].tx, page |-> last_index]
<1>1. last_index \in Nat /\ \A p \in Pages : p \in Nat
  BY PagesAssumption DEF TypeOK, Pages
<1>2. Turned(c, r) /\ r \in Client /\ r.pc = "undo" /\ r.tx = cl[c].tx /\ r.page = last_index
  BY <1>1, ClientSets DEF Insert, Client
<1> HIDE DEF r
<1>3. cl[c].pc = "open" /\ Running(c) /\ last_index' = last_index + 1
  BY DEF Insert, Running
<1>4. UNCHANGED <<lastTx, owner, cache, dirty, disk, log, ioq, io, ck, writes, writing, acked,
                  since, exposed, early, clash, short, gone>>
  BY DEF Insert, logVars, flushVars
<1>5. /\ Transactions' /\ Order' /\ Requests' /\ Pool' /\ Acknowledged'
      /\ Cached' /\ Flushed' /\ Kept' /\ OwnNewest' /\ Fresh'
  BY <1>2, <1>3, <1>4, CursorMoves
<1>6. Allocator'
  <2>1. CASE short
    BY <1>4, <2>1 DEF Allocator
  <2>2. CASE ~short
    <3>1. \A p \in Pages : p >= last_index' => cache'[p] = 0
      BY <1>1, <1>3, <1>4, <2>2 DEF Data, Allocator
    <3>2. ASSUME NEW d \in Clients, cl'[d].pc = "undo" PROVE cl'[d].page < last_index'
      <4>1. CASE d = c
        BY <1>1, <1>2, <1>3, <4>1 DEF Turned
      <4>2. CASE d # c
        <5>1. cl'[d] = cl[d] /\ cl[d].page < last_index /\ cl[d].page \in Pages
          BY <1>2, <2>2, <3>2, <4>2 DEF Data, Allocator, Turned, TypeOK
        <5> QED
          BY <1>1, <1>3, <5>1
      <4> QED
        BY <4>1, <4>2
    <3> QED
      BY <3>1, <3>2 DEF Allocator
  <2> QED
    BY <2>1, <2>2
<1> QED
  BY <1>5, <1>6 DEF Data

LEMMA AbandonData ==
    ASSUME TypeOK, Data, NEW c \in Clients, Abandon(c)
    PROVE  Data'
<1>1. NoCall \in Client /\ NoCall.pc = "idle"
  BY DEF NoCall, Client
<1>2. Turned(c, NoCall)
  BY <1>1, ClientTurns DEF Abandon
<1>3. cl[c].pc = "open"
  BY DEF Abandon
<1>4. UNCHANGED <<lastTx, owner, cache, dirty, disk, log, ioq, io, ck, writes, writing, acked,
                  since, exposed, early, clash, short, last_index, gone>>
  BY DEF Abandon, logVars, flushVars, history
<1>5. /\ Transactions' /\ Order' /\ Requests' /\ Pool' /\ Acknowledged'
      /\ Cached' /\ Flushed' /\ Kept' /\ OwnNewest' /\ Fresh'
  BY <1>1, <1>2, <1>3, <1>4, CursorMoves
<1>6. \A d \in Clients : cl'[d].pc = "undo" => cl'[d] = cl[d]
  BY <1>1, <1>2 DEF Turned
<1>7. Allocator'
  BY <1>4, <1>6, AllocatorStays DEF Data
<1> QED
  BY <1>5, <1>7 DEF Data

\* A transaction begins: it has no version.
LEMMA BeginData ==
    ASSUME TypeOK, Data, NEW c \in Clients, Begin(c)
    PROVE  Data'
<1> DEFINE n == lastTx + 1
           r == [NoCall EXCEPT !.pc = "open", !.tx = n]
<1>1. lastTx \in Nat /\ n \in Nat /\ n \notin Tx /\ Tx' = Tx \cup {n} /\ 0 \notin Tx /\ lastTx' = n
  <2>1. lastTx \in Nat /\ lastTx' = lastTx + 1
    BY DEF TypeOK, Begin
  <2>2. 1..(lastTx + 1) = (1..lastTx) \cup {lastTx + 1}
    BY <2>1
  <2> QED
    BY <2>1, <2>2 DEF Tx
<1>2. r = [pc |-> "open", tx |-> n, page |-> 0]
  <2>1. [NoCall EXCEPT !.pc = "open"] = [pc |-> "open", tx |-> 0, page |-> 0]
    BY DEF NoCall
  <2>2. r = [[NoCall EXCEPT !.pc = "open"] EXCEPT !.tx = n]
    BY DEF NoCall
  <2>3. [[pc |-> "open", tx |-> 0, page |-> 0] EXCEPT !.tx = n] = [pc |-> "open", tx |-> n, page |-> 0]
    OBVIOUS
  <2> QED
    BY <2>1, <2>2, <2>3, Zenon
<1> HIDE DEF r
<1>3. r \in Client /\ r.pc = "open" /\ r.tx = n
  BY <1>1, <1>2 DEF Client
<1>4. Turned(c, r) /\ cl[c].pc = "idle"
  BY <1>3, ClientTurns DEF Begin, r
<1> HIDE DEF n
<1>5. UNCHANGED <<owner, cache, dirty, last_index, disk, log, ioq, io, ck, writes, writing, acked,
                  since, exposed, early, clash, short, gone>>
  BY DEF Begin, logVars, flushVars, history
<1>6. Coming' = Coming
  BY <1>5 DEF Coming
<1>7. \A d \in Clients : \/ d = c /\ cl'[d].tx = n /\ cl'[d].pc = "open"
                         \/ d # c /\ cl'[d] = cl[d]
  BY <1>3, <1>4 DEF Turned
<1>8. \A d \in Clients : Running(d)' => (d = c /\ cl'[d].tx = n) \/ (d # c /\ Running(d) /\ cl'[d] = cl[d])
  BY <1>7 DEF Running
<1>9. \A v \in 1..Len(owner) : owner[v].tx \in Tx
  BY DEF Data, Transactions
<1>10. Made(owner, n) = {}
  BY <1>1, <1>9 DEF Made
<1>11. Transactions'
  <2>1. \A d \in Clients : cl[d].pc # "idle" => cl[d].tx \in Tx
    BY DEF Data, Transactions
  <2>2. \A i \in 1..Len(Coming) : Coming[i] \in Tx \cup {0} /\ Coming[i] # n
    <3>1. \A i \in 1..Len(Coming) : Coming[i] \in Tx \cup {0}
      BY DEF Data, Transactions
    <3>2. n # 0
      BY <1>1 DEF n
    <3> QED
      BY <1>1, <3>1, <3>2
  <2>3. \A d \in Clients : cl'[d].pc # "idle" => cl'[d].tx \in Tx \cup {n}
    BY <1>7, <2>1
  <2>4. \A d, e \in Clients : d # e /\ cl'[d].pc # "idle" /\ cl'[e].pc # "idle" => cl'[d].tx # cl'[e].tx
    <3> SUFFICES ASSUME NEW d \in Clients, NEW e \in Clients, d # e,
                        cl'[d].pc # "idle", cl'[e].pc # "idle"
                 PROVE  cl'[d].tx # cl'[e].tx
      OBVIOUS
    <3>1. CASE d # c /\ e # c
      BY <1>7, <3>1 DEF Data, Transactions
    <3>2. CASE d = c
      BY <1>1, <1>7, <2>1, <3>2
    <3>3. CASE e = c
      BY <1>1, <1>7, <2>1, <3>3
    <3> QED
      BY <3>1, <3>2, <3>3
  <2>5. \A d \in Clients, i \in 1..Len(Coming) : Running(d)' => Coming[i] # cl'[d].tx
    BY <1>8, <2>2 DEF Data, Transactions
  <2>6. \A i, j \in 1..Len(Coming) : i # j /\ Coming[i] # 0 => Coming[i] # Coming[j]
    BY DEF Data, Transactions
  <2> QED
    BY <1>1, <1>5, <1>6, <1>9, <2>2, <2>3, <2>4, <2>5, <2>6 DEF Transactions
<1>12. Order'
  <2>1. \A t : Older(owner, t, n) /\ Apart(owner, t, n) /\ Apart(owner, n, t)
    BY <1>10 DEF Older, Apart
  <2>2. \A d \in Clients, i \in 1..Len(Coming) :
          Running(d)' /\ Coming[i] # 0 /\ Coming[i] \notin clash => Older(owner, Coming[i], cl'[d].tx)
    BY <1>8, <2>1 DEF Data, Order
  <2>3. \A d, e \in Clients : d # e /\ Running(d)' /\ Running(e)' /\ cl'[d].tx \notin clash =>
          Apart(owner, cl'[d].tx, cl'[e].tx)
    <3> SUFFICES ASSUME NEW d \in Clients, NEW e \in Clients, d # e, Running(d)', Running(e)',
                        cl'[d].tx \notin clash
                 PROVE  Apart(owner, cl'[d].tx, cl'[e].tx)
      OBVIOUS
    <3>1. CASE d # c /\ e # c
      BY <1>8, <3>1 DEF Data, Order
    <3>2. CASE d = c
      BY <1>8, <2>1, <3>2
    <3>3. CASE e = c
      BY <1>8, <2>1, <3>3
    <3> QED
      BY <3>1, <3>2, <3>3
  <2> QED
    BY <1>5, <1>6, <2>2, <2>3 DEF Data, Order
<1>13. Requests'
  <2>1. \A d \in Clients : cl[d].pc = "await" => cl'[d] = cl[d]
    BY <1>4, <1>7
  <2> QED
    BY <1>5, <2>1, RequestsStay DEF Data, TypeOK
<1>14. Pool' /\ Acknowledged' /\ Kept'
  <2>1. Pool'
    BY <1>5, PoolStays DEF Data, Pool
  <2>2. Acknowledged'
    BY <1>5 DEF Data, Acknowledged, Known
  <2>3. Kept'
    BY <1>5 DEF Data, Kept, KeptIn, Coverable
  <2> QED
    BY <2>1, <2>2, <2>3
<1>15. Allocator'
  <2>1. \A d \in Clients : cl'[d].pc = "undo" => cl'[d] = cl[d]
    BY <1>7
  <2> QED
    BY <1>5, <2>1, AllocatorStays DEF Data
<1>16. \A v \in 1..Len(owner) : Tracked(v)' => Tracked(v)
  <2> SUFFICES ASSUME NEW v \in 1..Len(owner), Tracked(v)' PROVE Tracked(v)
    OBVIOUS
  <2>1. owner[v].tx # n /\ owner[v].tx \notin exposed \cup clash /\ Alive(owner[v].tx)'
    BY <1>1, <1>5, <1>9 DEF Tracked
  <2>2. CASE \E i \in 1..Len(Coming') : Coming'[i] = owner[v].tx
    BY <1>6, <2>1, <2>2 DEF Tracked, Alive
  <2>3. CASE \E d \in Clients : Running(d)' /\ cl'[d].tx = owner[v].tx
    BY <1>8, <2>1, <2>3 DEF Tracked, Alive
  <2> QED
    BY <1>5, <2>1, <2>2, <2>3 DEF Alive
<1>17. Cached' /\ Flushed'
  <2>1. Cached'
    BY <1>5, <1>16 DEF Data, Cached
  <2>2. Flushed'
    BY <1>5, <1>16 DEF Data, Flushed, Coverable, Sent
  <2> QED
    BY <2>1, <2>2
<1>18. OwnNewest'
  <2> SUFFICES ASSUME clash = {}, NEW d \in Clients, Running(d)', NEW v \in Made(owner, cl'[d].tx)
               PROVE  LET x == cache[owner[v].page] IN v <= x /\ owner[x].tx = cl'[d].tx
    BY <1>5 DEF OwnNewest
  <2>1. d # c /\ Running(d) /\ cl'[d] = cl[d]
    BY <1>8, <1>10
  <2> QED
    BY <2>1 DEF Data, OwnNewest
<1>19. Fresh'
  BY <1>5, <1>6, FreshStays DEF Data
<1> QED
  BY <1>11, <1>12, <1>13, <1>14, <1>15, <1>17, <1>18, <1>19 DEF Data

-----------------------------------------------------------------------------
(* The data: a request is sent to the io thread.                           *)

\* The log to come grows by one.
Longer(x) ==
  /\ Coming' \in Seq(Nat) /\ Coming' = Append(Coming, x) /\ Coming \in Seq(Nat)
  /\ Len(Coming) \in Nat /\ Len(Coming') = Len(Coming) + 1 /\ Coming'[Len(Coming) + 1] = x
  /\ \A i \in 1..Len(Coming) : Coming'[i] = Coming[i] /\ i \in 1..Len(Coming')
  /\ \A i \in 1..Len(Coming') : i \in 1..Len(Coming) \/ i = Len(Coming) + 1

LEMMA ComingLonger ==
    ASSUME TypeOK, NEW e \in Request, ioq' = Append(ioq, e), UNCHANGED <<log, io>>
    PROVE  Longer(e.tx)
<1>1. /\ log \in Seq(Nat) /\ io \in Served /\ ioq \in Seq(Request) /\ e.tx \in Nat
      /\ Coming \in Seq(Nat)
  <2>1. log \in Seq(Nat) /\ io \in Served /\ ioq \in Seq(Request) /\ e.tx \in Nat
    BY DEF TypeOK, Request
  <2> QED
    BY <2>1, LineIs DEF Coming, Joins
<1>2. Coming' = Append(Coming, e.tx)
  <2>1. Coming' = Line(log, io, Append(ioq, e))
    BY DEF Coming
  <2> QED
    BY <1>1, <2>1, LineAsked DEF Coming
<1>3. /\ Coming' \in Seq(Nat) /\ Len(Coming) \in Nat /\ Len(Coming') = Len(Coming) + 1
      /\ Coming'[Len(Coming) + 1] = e.tx /\ \A i \in 1..Len(Coming) : Coming'[i] = Coming[i]
  BY <1>1, <1>2, AppendLast
<1>4. /\ \A i \in 1..Len(Coming) : i \in 1..(Len(Coming) + 1)
      /\ \A i \in 1..(Len(Coming) + 1) : i \in 1..Len(Coming) \/ i = Len(Coming) + 1
  BY <1>3
<1> QED
  BY <1>1, <1>2, <1>3, <1>4 DEF Longer

LEMMA GoneBefore ==
    ASSUME TypeOK
    PROVE  gone \in Nat /\ gone <= Len(Coming)
<1>1. log \in Seq(Nat) /\ io \in Served /\ ioq \in Seq(Request) /\ gone \in 0..Len(log)
  BY DEF TypeOK
<1>2. /\ Len(log) \in Nat /\ Len(ioq) \in Nat /\ Mid(io) \in {0, 1}
      /\ Len(Coming) = Len(log) + Mid(io) + Len(ioq)
  BY <1>1, LineIs DEF Coming, Joins
<1> QED
  BY <1>1, <1>2

LEMMA RequestsGrow ==
    ASSUME TypeOK, Requests, NEW e \in Request, ioq' = Append(ioq, e), UNCHANGED <<log, io>>,
           IF e.from = Checkpointer THEN e.tx = 0 /\ ck' = "await"
                                    ELSE e.tx = cl'[e.from].tx /\ cl'[e.from].pc = "await",
           \A i \in 1..Len(ioq) : ioq[i].from # e.from, io.pc # "recv" => io.from # e.from,
           e.from = Checkpointer => cl' = cl,
           e.from # Checkpointer => ck' = ck /\ \A d \in Clients : d # e.from => cl'[d] = cl[d]
    PROVE  Requests'
<1>1. /\ Len(ioq) \in Nat /\ Len(ioq') = Len(ioq) + 1 /\ ioq'[Len(ioq) + 1] = e
      /\ \A i \in 1..Len(ioq) : ioq'[i] = ioq[i]
  BY AppendLast DEF TypeOK
<1>2. \A i \in 1..Len(ioq') : i \in 1..Len(ioq) \/ i = Len(ioq) + 1
  BY <1>1
<1>3. ASSUME NEW r, r.from \in Senders, r.from # e.from, Asks(r) PROVE Asks(r)'
  <2>1. CASE r.from = Checkpointer
    BY <1>3, <2>1 DEF Asks
  <2>2. CASE r.from # Checkpointer
    <3>1. r.from \in Clients /\ cl'[r.from] = cl[r.from]
      BY <1>3, <2>2 DEF Senders
    <3> QED
      BY <1>3, <2>2, <3>1 DEF Asks
  <2> QED
    BY <2>1, <2>2
<1>4. \A i \in 1..Len(ioq) : ioq[i].from \in Senders
  <2>1. \A i \in 1..Len(ioq) : ioq[i] \in Request
    BY ElementOfSeq DEF TypeOK
  <2> QED
    BY <2>1 DEF Request
<1>5. \A i \in 1..Len(ioq) : Asks(ioq[i])'
  <2> SUFFICES ASSUME NEW i \in 1..Len(ioq) PROVE Asks(ioq[i])'
    OBVIOUS
  <2>1. Asks(ioq[i]) /\ ioq'[i] = ioq[i] /\ ioq[i].from # e.from
    BY <1>1 DEF Requests
  <2>2. \A r : r = ioq[i] => Asks(r)'
    BY <1>3, <1>4, <2>1
  <2> QED
    BY <2>1, <2>2 DEF Asks
<1>6. \A i \in 1..Len(ioq') : Asks(ioq[i])' /\ (io.pc # "recv" => ioq'[i].from # io.from)
  <2> SUFFICES ASSUME NEW i \in 1..Len(ioq')
               PROVE  Asks(ioq[i])' /\ (io.pc # "recv" => ioq'[i].from # io.from)
    OBVIOUS
  <2>1. CASE i \in 1..Len(ioq)
    BY <1>1, <1>5, <2>1 DEF Requests
  <2>2. CASE i = Len(ioq) + 1
    BY <1>1, <2>2 DEF Asks
  <2> QED
    BY <1>2, <2>1, <2>2
<1>7. \A i, j \in 1..Len(ioq') : i # j => ioq'[i].from # ioq'[j].from
  <2> SUFFICES ASSUME NEW i \in 1..Len(ioq'), NEW j \in 1..Len(ioq'), i # j
               PROVE  ioq'[i].from # ioq'[j].from
    OBVIOUS
  <2>1. CASE i \in 1..Len(ioq) /\ j \in 1..Len(ioq)
    BY <1>1, <2>1 DEF Requests
  <2>2. CASE i \in 1..Len(ioq) /\ j = Len(ioq) + 1
    BY <1>1, <2>2
  <2>3. CASE j \in 1..Len(ioq) /\ i = Len(ioq) + 1
    BY <1>1, <2>3
  <2> QED
    BY <1>2, <2>1, <2>2, <2>3
<1>8. io.pc # "recv" => Asks(io)'
  <2>1. \A r : r = io => r.from \in Senders
    BY DEF TypeOK, Served
  <2>2. io.pc # "recv" => \A r : r = io => Asks(r)'
    BY <1>3, <2>1 DEF Requests
  <2> QED
    BY <2>2 DEF Asks
<1>9. io'.pc = "signal" /\ io'.from # Checkpointer => io'.tx \in Logged(log')
  BY DEF Requests
<1> QED
  BY <1>6, <1>7, <1>8, <1>9 DEF Requests

LEMMA CommitData ==
    ASSUME TypeOK, Data, NEW c \in Clients, Commit(c)
    PROVE  Data'
<1> DEFINE t == cl[c].tx
           n == Len(Coming)
           r == [pc |-> "await", tx |-> t, page |-> 0]
           e == [from |-> c, tx |-> t]
<1>1. /\ cl[c].pc = "open" /\ Running(c) /\ t \in Tx /\ t # 0 /\ t \in Nat /\ c # Checkpointer
      /\ lastTx \in Nat
  <2>1. t \in Tx /\ cl[c].pc = "open"
    BY DEF Commit, Data, Transactions
  <2> QED
    BY <2>1, CheckpointerAssumption DEF TypeOK, Tx, Running
<1>2. Turned(c, r) /\ r.pc = "await" /\ r.tx = t
  BY <1>1, ClientSets DEF Commit
<1>3. UNCHANGED <<lastTx, owner, cache, dirty, last_index, disk, log, io, ck, writes, writing,
                  acked, since, exposed, early, clash, short, gone>>
  BY DEF Commit, flushVars
<1>4. e \in Request /\ e.from = c /\ e.tx = t /\ ioq' = Append(ioq, e)
  BY <1>1 DEF Commit, Request, Senders
<1>5. Longer(t)
  BY <1>3, <1>4, ComingLonger
<1> HIDE DEF r, e
<1>6. \A d \in Clients : \/ d = c /\ cl'[d].pc = "await" /\ cl'[d].tx = t /\ ~Running(d)'
                         \/ d # c /\ cl'[d] = cl[d] /\ (Running(d)' <=> Running(d))
  BY <1>2 DEF Turned, Running
<1>7. \A d \in Clients : (cl'[d].pc = "idle" <=> cl[d].pc = "idle") /\ cl'[d].tx = cl[d].tx
  BY <1>1, <1>6
<1>8. \A i \in 1..n : Coming[i] # t
  BY <1>1 DEF Data, Transactions
<1>9. /\ \A i \in 1..n : Coming'[i] = Coming[i] /\ i # n + 1
      /\ Coming'[n + 1] = t /\ \A i \in 1..Len(Coming') : i \in 1..n \/ i = n + 1
      /\ n \in Nat
  BY <1>5 DEF Longer
<1> HIDE DEF n, t
<1>10. Transactions'
  <2>1. Tx' = Tx
    BY <1>3 DEF Tx
  <2>2. \A d \in Clients : cl'[d].pc # "idle" => cl'[d].tx \in Tx
    BY <1>7 DEF Data, Transactions
  <2>3. \A d, f \in Clients : d # f /\ cl'[d].pc # "idle" /\ cl'[f].pc # "idle" => cl'[d].tx # cl'[f].tx
    BY <1>7 DEF Data, Transactions
  <2>4. \A v \in 1..Len(owner) : owner[v].tx \in Tx
    BY DEF Data, Transactions
  <2>5. \A i \in 1..n : Coming[i] \in Tx \cup {0}
    BY DEF Data, Transactions, n
  <2>6. \A i \in 1..Len(Coming') : Coming'[i] \in Tx \cup {0}
    BY <1>1, <1>9, <2>5
  <2>7. \A i, j \in 1..n : i # j /\ Coming[i] # 0 => Coming[i] # Coming[j]
    BY DEF Data, Transactions, n
  <2>8. \A i, j \in 1..Len(Coming') : i # j /\ Coming'[i] # 0 => Coming'[i] # Coming'[j]
    BY <1>8, <1>9, <2>7
  <2>9. \A d \in Clients, i \in 1..n : Running(d) => Coming[i] # cl[d].tx
    BY DEF Data, Transactions, n
  <2>10. \A d \in Clients : d # c /\ cl[d].pc # "idle" => cl[d].tx # t
    BY <1>1 DEF Data, Transactions, t
  <2>11. \A d \in Clients, i \in 1..Len(Coming') : Running(d)' => Coming'[i] # cl'[d].tx
    <3> SUFFICES ASSUME NEW d \in Clients, NEW i \in 1..Len(Coming'), Running(d)'
                 PROVE  Coming'[i] # cl'[d].tx
      OBVIOUS
    <3>1. d # c /\ Running(d) /\ cl'[d] = cl[d] /\ cl[d].pc # "idle"
      BY <1>6 DEF Running
    <3> QED
      BY <1>9, <2>9, <2>10, <3>1
  <2> QED
    BY <1>3, <2>1, <2>2, <2>3, <2>4, <2>6, <2>8, <2>11 DEF Transactions
<1>11. Order'
  <2>1. \A i \in 1..n : Coming[i] # 0 /\ Coming[i] \notin clash => Older(owner, Coming[i], t)
    BY <1>1 DEF Data, Order, n, t
  <2>2. Ordered(Coming, owner, clash)
    BY DEF Data, Order
  <2>3. Ordered(Coming', owner, clash)
    <3> SUFFICES ASSUME NEW i \in 1..Len(Coming'), NEW j \in 1..Len(Coming'), i < j,
                        Coming'[i] # 0, Coming'[j] # 0, Coming'[i] \notin clash
                 PROVE  Older(owner, Coming'[i], Coming'[j])
      BY DEF Ordered
    <3>1. i \in 1..n
      BY <1>9
    <3>2. CASE j \in 1..n
      BY <1>9, <2>2, <3>1, <3>2 DEF Ordered, n
    <3>3. CASE j = n + 1
      BY <1>9, <2>1, <3>1, <3>3
    <3> QED
      BY <1>9, <3>2, <3>3
  <2>4. \A d \in Clients : d # c /\ Running(d) /\ t \notin clash => Older(owner, t, cl[d].tx)
    <3>1. \A d \in Clients : d # c /\ Running(d) /\ t \notin clash => Apart(owner, t, cl[d].tx)
      BY <1>1 DEF Data, Order, t
    <3> QED
      BY <3>1 DEF Apart, Older
  <2>5. \A d \in Clients, i \in 1..n : Running(d) /\ Coming[i] # 0 /\ Coming[i] \notin clash =>
          Older(owner, Coming[i], cl[d].tx)
    BY DEF Data, Order, n
  <2>6. \A d \in Clients, i \in 1..Len(Coming') :
          Running(d)' /\ Coming'[i] # 0 /\ Coming'[i] \notin clash => Older(owner, Coming'[i], cl'[d].tx)
    <3> SUFFICES ASSUME NEW d \in Clients, NEW i \in 1..Len(Coming'), Running(d)',
                        Coming'[i] # 0, Coming'[i] \notin clash
                 PROVE  Older(owner, Coming'[i], cl'[d].tx)
      OBVIOUS
    <3>1. d # c /\ Running(d) /\ cl'[d] = cl[d]
      BY <1>6
    <3>2. CASE i \in 1..n
      BY <1>9, <2>5, <3>1, <3>2
    <3>3. CASE i = n + 1
      BY <1>9, <2>4, <3>1, <3>3
    <3> QED
      BY <1>9, <3>2, <3>3
  <2>7. \A d, f \in Clients : d # f /\ Running(d)' /\ Running(f)' /\ cl'[d].tx \notin clash =>
          Apart(owner, cl'[d].tx, cl'[f].tx)
    BY <1>6 DEF Data, Order
  <2> QED
    BY <1>3, <2>3, <2>6, <2>7 DEF Order
<1>12. Requests'
  <2>0. Requests
    BY DEF Data
  <2>1. e.from # Checkpointer /\ e.tx = cl'[e.from].tx /\ cl'[e.from].pc = "await"
    BY <1>1, <1>4, <1>6
  <2>2. \A i \in 1..Len(ioq) : ioq[i].from # c
    BY <1>1, <2>0 DEF Requests, Asks
  <2>3. io.pc # "recv" => io.from # c
    BY <1>1, <2>0 DEF Requests, Asks
  <2>4. \A d \in Clients : d # e.from => cl'[d] = cl[d]
    BY <1>4, <1>6
  <2> QED
    BY <1>1, <1>3, <1>4, <2>0, <2>1, <2>2, <2>3, <2>4, RequestsGrow
<1>13. Pool' /\ Acknowledged' /\ Kept'
  <2>1. Pool'
    BY <1>3, PoolStays DEF Data, Pool
  <2>2. Acknowledged'
    BY <1>3 DEF Data, Acknowledged, Known
  <2>3. Kept'
    BY <1>3 DEF Data, Kept, KeptIn, Coverable
  <2> QED
    BY <2>1, <2>2, <2>3
<1>14. Allocator'
  <2>1. \A d \in Clients : cl'[d].pc = "undo" => cl'[d] = cl[d]
    BY <1>6
  <2> QED
    BY <1>3, <2>1, AllocatorStays DEF Data
<1>15. \A v : Tracked(v)' => Tracked(v)
  <2> SUFFICES ASSUME NEW v, Tracked(v)' PROVE Tracked(v)
    OBVIOUS
  <2> DEFINE u == owner[v].tx
  <2>1. /\ u \notin exposed \cup clash
        /\ \/ \E i \in 1..Len(Coming') : Coming'[i] = u
           \/ \E d \in Clients : Running(d)' /\ cl'[d].tx = u
    BY <1>3 DEF Tracked, Alive
  <2> HIDE DEF u
  <2>2. Alive(u)
    <3>1. CASE \E i \in 1..Len(Coming') : Coming'[i] = u
      <4>1. u = t \/ \E i \in 1..n : Coming[i] = u
        BY <1>9, <3>1
      <4> QED
        BY <1>1, <4>1 DEF Alive, n, t
    <3>2. CASE \E d \in Clients : Running(d)' /\ cl'[d].tx = u
      BY <1>6, <3>2 DEF Alive
    <3>3. \/ \E i \in 1..Len(Coming') : Coming'[i] = u
          \/ \E d \in Clients : Running(d)' /\ cl'[d].tx = u
      BY <2>1
    <3> QED
      BY <3>1, <3>2, <3>3
  <2> QED
    BY <2>1, <2>2 DEF Tracked, u
<1>16. Cached' /\ Flushed'
  <2>1. Cached'
    BY <1>3, <1>15 DEF Data, Cached
  <2>2. Flushed'
    BY <1>3, <1>15 DEF Data, Flushed, Coverable, Sent
  <2> QED
    BY <2>1, <2>2
<1>17. OwnNewest'
  <2> SUFFICES ASSUME clash = {}, NEW d \in Clients, Running(d)', NEW v \in Made(owner, cl'[d].tx)
               PROVE  LET x == cache[owner[v].page] IN v <= x /\ owner[x].tx = cl'[d].tx
    BY <1>3 DEF OwnNewest
  <2>1. Running(d) /\ cl'[d] = cl[d]
    BY <1>6
  <2> QED
    BY <2>1 DEF Data, OwnNewest
<1>18. Fresh'
  <2> SUFFICES ASSUME clash = {}, NEW p \in Pages, p \notin dirty, ck # "wait"
               PROVE  Replay(owner, gone, Coming', p) \in {0, cache[p]}
    BY <1>3, ReplayedIs DEF Fresh
  <2>1. Replay(owner, gone, Coming, p) \in {0, cache[p]}
    BY ReplayedIs DEF Data, Fresh
  <2>2. /\ owner \in Seq(Version) /\ Coming \in Seq(Nat) /\ Coming' = Append(Coming, t)
        /\ t \in Nat /\ t # 0 /\ cache[p] \in Nat /\ Len(owner) \in Nat
    BY <1>1, <1>5, LenProperties DEF Longer, TypeOK
  <2>5. gone \in Nat /\ gone <= Len(Coming)
    BY GoneBefore
  <2> DEFINE y == Replay(owner, gone, Append(Coming, t), p)
  <2>3. CASE On(owner, t, p) = {}
    <3>1. y = Replay(owner, gone, Coming, p)
      BY <2>2, <2>3, <2>5, ReplayAppend
    <3> QED
      BY <2>1, <2>2, <3>1
  <2>4. CASE On(owner, t, p) # {}
    <3>1. y \in On(owner, t, p) /\ \A v \in On(owner, t, p) : v <= y
      BY <2>2, <2>4, <2>5, ReplayAppend
    <3> HIDE DEF y
    <3>2. y \in Made(owner, t) /\ owner[y].page = p /\ y \in 1..Len(owner)
      BY <3>1 DEF On, Made
    <3>3. y <= cache[p] /\ owner[cache[p]].tx = t
      BY <1>1, <3>2 DEF Data, OwnNewest, t
    <3>4. cache[p] # 0
      BY <2>2, <3>2, <3>3
    <3>5. cache[p] \in 1..Len(owner) /\ owner[cache[p]].page = p
      BY <3>4 DEF Data, Pool, Of
    <3>6. cache[p] \in On(owner, t, p)
      BY <3>3, <3>5 DEF On, Made
    <3>7. y = cache[p]
      BY <2>2, <3>1, <3>2, <3>3, <3>6
    <3> QED
      BY <2>2, <3>7 DEF y
  <2> QED
    BY <2>3, <2>4
<1> QED
  BY <1>10, <1>11, <1>12, <1>13, <1>14, <1>16, <1>17, <1>18 DEF Data

LEMMA FlushedData ==
    ASSUME TypeOK, Data, CkFlushed
    PROVE  Data'
<1> DEFINE n == Len(Coming)
<1>1. UNCHANGED <<cl, lastTx, owner, cache, dirty, last_index, disk, log, io, writes, writing,
                  acked, since, exposed, early, clash, short, gone>>
  BY DEF CkFlushed, Mark, cursorVars, flushVars, history
<1>2. ck = "wait" /\ ck' = "await" /\ writes = <<>>
  BY DEF CkFlushed, Mark
<1>3. PICK e \in Request : e.from = Checkpointer /\ e.tx = 0 /\ ioq' = Append(ioq, e)
  <2>1. [from |-> Checkpointer, tx |-> 0] \in Request
    BY DEF Request, Senders
  <2> QED
    BY <2>1 DEF CkFlushed, Mark
<1>4. Longer(0)
  BY <1>1, <1>3, ComingLonger
<1>5. /\ \A i \in 1..n : Coming'[i] = Coming[i]
      /\ Coming'[n + 1] = 0 /\ \A i \in 1..Len(Coming') : i \in 1..n \/ i = n + 1
      /\ n \in Nat
  BY <1>4 DEF Longer
<1> HIDE DEF n
<1>6. \A i \in 1..Len(Coming') : Coming'[i] = 0 \/ (i \in 1..n /\ Coming'[i] = Coming[i])
  BY <1>5
<1>7. \A d \in Clients : (Running(d)' <=> Running(d)) /\ cl'[d] = cl[d]
  BY <1>1 DEF Running
<1>8. 0 \notin Tx /\ Tx' = Tx
  BY <1>1 DEF Tx, TypeOK
<1>9. \A v \in 1..Len(owner) : owner[v].tx \in Tx
  BY DEF Data, Transactions
<1>10. Transactions'
  <2>1. \A d \in Clients : cl[d].pc # "idle" => cl[d].tx \in Tx
    BY DEF Data, Transactions
  <2>2. \A c, d \in Clients : c # d /\ cl[c].pc # "idle" /\ cl[d].pc # "idle" => cl[c].tx # cl[d].tx
    BY DEF Data, Transactions
  <2>3. \A i \in 1..n : Coming[i] \in Tx \cup {0}
    BY DEF Data, Transactions, n
  <2>4. \A i, j \in 1..n : i # j /\ Coming[i] # 0 => Coming[i] # Coming[j]
    BY DEF Data, Transactions, n
  <2>5. \A d \in Clients, i \in 1..n : Running(d) => Coming[i] # cl[d].tx
    BY DEF Data, Transactions, n
  <2>6. \A i \in 1..Len(Coming') : Coming'[i] \in Tx \cup {0}
    BY <1>6, <2>3
  <2>7. \A i, j \in 1..Len(Coming') : i # j /\ Coming'[i] # 0 => Coming'[i] # Coming'[j]
    BY <1>6, <2>4
  <2>8. \A d \in Clients, i \in 1..Len(Coming') : Running(d) => Coming'[i] # cl[d].tx
    <3>1. \A d \in Clients : Running(d) => cl[d].tx # 0
      BY <1>8, <2>1 DEF Running
    <3> QED
      BY <1>6, <2>5, <3>1
  <2> QED
    BY <1>1, <1>7, <1>8, <1>9, <2>1, <2>2, <2>6, <2>7, <2>8 DEF Transactions
<1>11. Order'
  <2>1. Ordered(Coming', owner, clash)
    <3>1. Ordered(Coming, owner, clash)
      BY DEF Data, Order
    <3> QED
      BY <1>6, <3>1 DEF Ordered, n
  <2>2. \A d \in Clients, i \in 1..n : Running(d) /\ Coming[i] # 0 /\ Coming[i] \notin clash =>
          Older(owner, Coming[i], cl[d].tx)
    BY DEF Data, Order, n
  <2>3. \A d \in Clients, i \in 1..Len(Coming') :
          Running(d)' /\ Coming'[i] # 0 /\ Coming'[i] \notin clash => Older(owner, Coming'[i], cl'[d].tx)
    BY <1>6, <1>7, <2>2
  <2>4. \A d, f \in Clients : d # f /\ Running(d)' /\ Running(f)' /\ cl'[d].tx \notin clash =>
          Apart(owner, cl'[d].tx, cl'[f].tx)
    BY <1>7 DEF Data, Order
  <2> QED
    BY <1>1, <2>1, <2>3, <2>4 DEF Order
<1>12. Requests'
  <2>0. Requests
    BY DEF Data
  <2>1. \A i \in 1..Len(ioq) : ioq[i].from # Checkpointer
    BY <1>2, <2>0 DEF Requests, Asks
  <2>2. io.pc # "recv" => io.from # Checkpointer
    BY <1>2, <2>0 DEF Requests, Asks
  <2> QED
    BY <1>1, <1>2, <1>3, <2>0, <2>1, <2>2, RequestsGrow
<1>13. Pool' /\ Acknowledged' /\ Kept'
  <2>1. Pool'
    BY <1>1, <1>2, PoolStays DEF Data, Pool
  <2>2. Acknowledged'
    BY <1>1 DEF Data, Acknowledged, Known
  <2>3. Kept'
    BY <1>1 DEF Data, Kept, KeptIn, Coverable
  <2> QED
    BY <2>1, <2>2, <2>3
<1>14. Allocator'
  BY <1>1, AllocatorStays DEF Data
<1>15. \A v \in 1..Len(owner) : Tracked(v)' => Tracked(v)
  <2> SUFFICES ASSUME NEW v \in 1..Len(owner), Tracked(v)' PROVE Tracked(v)
    OBVIOUS
  <2> DEFINE u == owner[v].tx
  <2>1. /\ u \notin exposed \cup clash /\ u # 0
        /\ \/ \E i \in 1..Len(Coming') : Coming'[i] = u
           \/ \E d \in Clients : Running(d)' /\ cl'[d].tx = u
    BY <1>1, <1>8, <1>9 DEF Tracked, Alive
  <2> HIDE DEF u
  <2>2. Alive(u)
    BY <1>6, <1>7, <2>1 DEF Alive, n
  <2> QED
    BY <2>1, <2>2 DEF Tracked, u
<1>16. Cached' /\ Flushed'
  <2>1. Cached'
    BY <1>1, <1>15 DEF Data, Cached
  <2>2. Flushed'
    BY <1>1, <1>2, <1>15 DEF Data, Flushed, Coverable, Sent
  <2> QED
    BY <2>1, <2>2
<1>17. OwnNewest'
  BY <1>1, <1>7 DEF Data, OwnNewest
<1>18. Fresh'
  <2> SUFFICES ASSUME NEW p \in Pages PROVE Replay(owner, gone, Coming', p) = 0
    BY <1>1, ReplayedIs DEF Fresh
  <2>1. owner \in Seq(Version) /\ Coming \in Seq(Nat) /\ Coming' = Append(Coming, 0)
    BY <1>4 DEF Longer, TypeOK
  <2>3. gone \in Nat /\ gone <= Len(Coming)
    BY GoneBefore
  <2>2. Replay(owner, gone, Append(Coming, 0), p) = 0
    BY <2>1, <2>3, ReplayAppend
  <2> QED
    BY <2>1, <2>2
<1> QED
  BY <1>10, <1>11, <1>12, <1>13, <1>14, <1>16, <1>17, <1>18 DEF Data

-----------------------------------------------------------------------------
(* The data: a version enters the cache.                                   *)

LEMMA EnterData ==
    ASSUME TypeOK, Data, NEW c \in Clients, Enter(c)
    PROVE  Data'
<1> DEFINE p == cl[c].page
           t == cl[c].tx
           n == Len(owner) + 1
           e == [page |-> p, tx |-> t]
           g == Append(owner, e)
           r == [pc |-> "open", tx |-> t, page |-> 0]
           others == Overlapped(c, p)
           x == IF others = {} THEN clash ELSE clash \cup others \cup {t}
<1>1. /\ cl[c].pc = "undo" /\ Running(c) /\ t \in Tx /\ p \in Pages /\ t \in Nat /\ e \in Version
      /\ owner \in Seq(Version) /\ cache \in [Pages -> Nat]
  <2>1. cl[c].pc = "undo" /\ t \in Tx /\ p \in Pages
    BY DEF Enter, Data, Transactions, TypeOK
  <2> QED
    BY <2>1 DEF Running, Tx, TypeOK, Version
<1>2. Grew(g, owner, e)
  BY <1>1, Grown
<1>3. owner' = g /\ Len(g) = n /\ Len(owner) \in Nat /\ n \in Nat
  BY <1>2 DEF Enter, Grew
<1>4. /\ cache' = [cache EXCEPT ![p] = n] /\ dirty' = dirty \cup {p}
      /\ since' = since \cup {t} /\ clash' = x
  BY <1>3 DEF Enter
<1>5. UNCHANGED <<lastTx, last_index, disk, log, ioq, io, ck, writes, writing, acked, exposed,
                  early, short, gone>>
  BY DEF Enter, logVars, flushVars
<1>6. Turned(c, r)
  BY <1>1, ClientSets DEF Enter
<1>7. r.pc = "open" /\ r.tx = t /\ e.page = p /\ e.tx = t
  OBVIOUS
<1>8. clash \subseteq x
  OBVIOUS
<1>9. \A d \in Clients : d # c /\ Running(d) /\ cl[d].tx \notin others =>
        \A v \in Made(owner, cl[d].tx) : owner[v].page # p
  <2>1. \A d \in Clients : VersionsOf(cl[d].tx) = Made(owner, cl[d].tx)
    BY <1>1, LenProperties DEF VersionsOf, Made
  <2> QED
    BY <2>1 DEF Overlapped, Running
<1>10. t \notin x => others = {}
  OBVIOUS
<1>11. others \subseteq x
  OBVIOUS
<1> HIDE DEF x, others, r, e, g, n
<1>12. \A d \in Clients : (Running(d)' <=> Running(d)) /\ cl'[d].tx = cl[d].tx
                          /\ (cl'[d].pc = "idle" <=> cl[d].pc = "idle")
  BY <1>1, <1>6, <1>7 DEF Turned, Running
<1>13. \A d \in Clients : cl'[d].pc \in {"undo", "await"} => cl'[d] = cl[d] /\ d # c
  BY <1>6, <1>7 DEF Turned
<1>14. /\ g \in Seq(Version) /\ g[n] = e /\ n \in 1..Len(g)
       /\ \A v \in 1..Len(owner) : g[v] = owner[v] /\ v \in 1..Len(g) /\ v # n /\ v <= n
       /\ \A v \in 1..Len(g) : v \in 1..Len(owner) \/ v = n
  <2>1. /\ \A v \in 1..Len(owner) : v # Len(owner) + 1 /\ v <= Len(owner) + 1
        /\ \A v \in 1..(Len(owner) + 1) : v \in 1..Len(owner) \/ v = Len(owner) + 1
        /\ Len(owner) + 1 \in 1..(Len(owner) + 1)
    BY <1>3
  <2> QED
    BY <1>2, <1>3, <2>1 DEF Grew, n
<1>15. Coming' = Coming
  BY <1>5 DEF Coming
<1>16. \A i \in 1..Len(Coming) : Coming[i] # t
  BY <1>1 DEF Data, Transactions
<1>17. \A d \in Clients : d # c /\ Running(d) => cl[d].tx # t
  BY <1>1 DEF Data, Transactions, Running
<1> HIDE DEF p, t
<1>20. Transactions'
  <2>1. Tx' = Tx
    BY <1>5 DEF Tx
  <2>2. \A d \in Clients : cl'[d].pc # "idle" => cl'[d].tx \in Tx
    BY <1>12 DEF Data, Transactions
  <2>3. \A d, f \in Clients : d # f /\ cl'[d].pc # "idle" /\ cl'[f].pc # "idle" => cl'[d].tx # cl'[f].tx
    BY <1>12 DEF Data, Transactions
  <2>4. \A v \in 1..Len(g) : g[v].tx \in Tx
    BY <1>1, <1>7, <1>14 DEF Data, Transactions
  <2>5. \A i \in 1..Len(Coming) : Coming[i] \in Tx \cup {0}
    BY DEF Data, Transactions
  <2>6. \A i, j \in 1..Len(Coming) : i # j /\ Coming[i] # 0 => Coming[i] # Coming[j]
    BY DEF Data, Transactions
  <2>7. \A d \in Clients, i \in 1..Len(Coming) : Running(d)' => Coming[i] # cl'[d].tx
    BY <1>12 DEF Data, Transactions
  <2> QED
    BY <1>3, <1>15, <2>1, <2>2, <2>3, <2>4, <2>5, <2>6, <2>7 DEF Transactions
<1>21. Order'
  <2>1. \A u, w : u # t /\ w # t /\ Older(owner, u, w) => Older(g, u, w)
    BY <1>2, <1>7, OlderGrows
  <2>2. \A u : u # t /\ Older(owner, u, t) => Older(g, u, t)
    BY <1>2, <1>7, OlderGrows
  <2>3. \A i, j \in 1..Len(Coming) : i < j /\ Coming[i] # 0 /\ Coming[j] # 0 /\ Coming[i] \notin clash
          => Older(owner, Coming[i], Coming[j])
    BY DEF Data, Order, Ordered
  <2>4. Ordered(Coming, g, x)
    BY <1>8, <1>16, <2>1, <2>3 DEF Ordered
  <2>5. \A d \in Clients, i \in 1..Len(Coming) : Running(d) /\ Coming[i] # 0 /\ Coming[i] \notin clash
          => Older(owner, Coming[i], cl[d].tx)
    BY DEF Data, Order
  <2>6. \A d \in Clients, i \in 1..Len(Coming) : Running(d) /\ Coming[i] # 0 /\ Coming[i] \notin x
          => Older(g, Coming[i], cl[d].tx)
    BY <1>8, <1>16, <2>1, <2>2, <2>5
  <2>7. \A d, f \in Clients : d # f /\ Running(d) /\ Running(f) /\ cl[d].tx \notin clash
          => Apart(owner, cl[d].tx, cl[f].tx)
    BY DEF Data, Order
  <2>8. ASSUME NEW d \in Clients, NEW f \in Clients, d # f, Running(d), Running(f), cl[d].tx \notin x
        PROVE  Apart(g, cl[d].tx, cl[f].tx)
    <3>1. Apart(owner, cl[d].tx, cl[f].tx)
      BY <1>8, <2>7, <2>8
    <3>2. CASE d # c /\ f # c
      <4>1. cl[d].tx # t /\ cl[f].tx # t
        BY <1>17, <2>8, <3>2
      <4> QED
        BY <1>2, <1>7, <3>1, <4>1, ApartGrows
    <3>3. CASE d # c /\ f = c
      <4>1. cl[d].tx # t /\ cl[f].tx = t /\ \A v \in Made(owner, cl[d].tx) : owner[v].page # p
        BY <1>9, <1>11, <1>17, <2>8, <3>3 DEF t
      <4> QED
        BY <1>2, <1>7, <3>1, <4>1, ApartGrows
    <3>4. CASE d = c
      <4>1. cl[f].tx # t /\ cl[d].tx = t /\ f # c
        BY <1>17, <2>8, <3>4 DEF t
      <4>2. \A v \in Made(owner, cl[f].tx) : owner[v].page # p
        BY <1>9, <1>10, <2>8, <4>1
      <4> QED
        BY <1>2, <1>7, <3>1, <4>1, <4>2, ApartGrows
    <3> QED
      BY <3>2, <3>3, <3>4
  <2>9. Ordered(Coming', owner', clash')
    BY <1>3, <1>4, <1>15, <2>4
  <2>10. \A d \in Clients, i \in 1..Len(Coming') : Running(d)' /\ Coming'[i] # 0 /\ Coming'[i] \notin clash'
          => Older(owner', Coming'[i], cl'[d].tx)
    BY <1>3, <1>4, <1>12, <1>15, <2>6
  <2>11. \A d, f \in Clients : d # f /\ Running(d)' /\ Running(f)' /\ cl'[d].tx \notin clash'
          => Apart(owner', cl'[d].tx, cl'[f].tx)
    BY <1>3, <1>4, <1>12, <2>8
  <2> QED
    BY <2>9, <2>10, <2>11 DEF Order
<1>22. Requests'
  <2>1. \A d \in Clients : cl[d].pc = "await" => cl'[d] = cl[d]
    BY <1>1, <1>6 DEF Turned
  <2> QED
    BY <1>5, <2>1, RequestsStay DEF Data, TypeOK
<1>23. \A y, q : Of(y, q, owner) => Of(y, q, g)
  BY <1>14 DEF Of
<1>24. cache'[p] = n /\ \A q \in Pages : q # p => cache'[q] = cache[q]
  BY <1>1, <1>4
<1>25. Pool'
  <2>0. Pool
    BY DEF Data
  <2>1. Of(n, p, g)
    BY <1>7, <1>14 DEF Of
  <2>2. \A q \in Pages : Of(cache'[q], q, g) /\ Of(disk[q], q, g)
    BY <1>23, <1>24, <2>0, <2>1 DEF Pool
  <2>3. \A i \in 1..Len(writes) : Of(writes[i].version, writes[i].page, g)
    BY <1>23, <2>0 DEF Pool
  <2>4. \A i \in 1..Len(writes) : writes[i].page \in Pages
    <3>1. \A i \in 1..Len(writes) : writes[i] \in Outgoing
      BY ElementOfSeq DEF TypeOK
    <3> QED
      BY <3>1 DEF Outgoing
  <2>5. \A i \in 1..Len(writes) : writes[i].page \notin dirty' => writes[i].version = cache'[writes[i].page]
    BY <1>4, <1>24, <2>0, <2>4 DEF Pool
  <2>6. \A q \in Pages \ dirty' : Sent(q) \/ disk[q] = cache'[q]
    BY <1>4, <1>24, <2>0 DEF Pool
  <2> QED
    BY <1>3, <1>5, <2>0, <2>2, <2>3, <2>5, <2>6 DEF Pool, Sent
<1>26. Allocator'
  <2>1. CASE short
    BY <1>5, <2>1 DEF Allocator
  <2>2. CASE ~short
    <3>1. p < last_index /\ p \in Nat /\ last_index \in Nat
      BY <1>1, <2>2, PagesAssumption DEF Data, Allocator, TypeOK, Pages, p
    <3>2. \A q \in Pages : q >= last_index => cache[q] = 0 /\ q # p
      BY <2>2, <3>1 DEF Data, Allocator
    <3>3. \A q \in Pages : q >= last_index' => cache'[q] = 0
      BY <1>5, <1>24, <3>2
    <3>4. \A d \in Clients : cl'[d].pc = "undo" => cl'[d].page < last_index'
      BY <1>5, <1>13, <2>2 DEF Data, Allocator
    <3> QED
      BY <3>3, <3>4 DEF Allocator
  <2> QED
    BY <2>1, <2>2
<1>27. Acknowledged'
  <2>1. \A y, q : Of(y, q, owner) /\ Known(y) => Known(y)'
    <3> SUFFICES ASSUME NEW y, NEW q, Of(y, q, owner), Known(y), y # 0
                 PROVE  owner'[y].tx \in Logged(log)' \cup early'
      BY DEF Known
    <3>1. y \in 1..Len(owner) /\ owner'[y] = owner[y]
      BY <1>3, <1>14 DEF Of
    <3> QED
      BY <1>5, <3>1 DEF Known, Logged
  <2>2. \A q \in Pages : Known(disk[q])'
    <3> SUFFICES ASSUME NEW q \in Pages PROVE Known(disk[q])'
      OBVIOUS
    <3>1. \A y : y = disk[q] => Known(y)'
      BY <2>1 DEF Data, Acknowledged, Pool
    <3> QED
      BY <1>5, <3>1 DEF Known
  <2>3. \A i \in 1..Len(writes) : Known(writes[i].version)'
    <3> SUFFICES ASSUME NEW i \in 1..Len(writes) PROVE Known(writes[i].version)'
      OBVIOUS
    <3>1. \A y : y = writes[i].version => Known(y)'
      BY <2>1 DEF Data, Acknowledged, Pool
    <3> QED
      BY <1>5, <3>1 DEF Known
  <2>4. acked' \subseteq Logged(log')
    BY <1>5 DEF Data, Acknowledged
  <2> QED
    BY <1>5, <2>2, <2>3, <2>4 DEF Acknowledged
<1>28. ASSUME NEW v \in 1..Len(owner), Tracked(v)' PROVE Tracked(v)
  <2> DEFINE u == owner[v].tx
  <2>1. owner'[v] = owner[v]
    BY <1>3, <1>14
  <2>2. /\ u \notin exposed \cup clash
        /\ \/ \E i \in 1..Len(Coming') : Coming'[i] = u
           \/ \E d \in Clients : Running(d)' /\ cl'[d].tx = u
    BY <1>4, <1>5, <1>8, <1>28, <2>1 DEF Tracked, Alive
  <2> HIDE DEF u
  <2>3. Alive(u)
    BY <1>12, <1>15, <2>2 DEF Alive
  <2> QED
    BY <2>2, <2>3 DEF Tracked, u
<1>29. \A v \in 1..Len(owner) : owner[v].page \in Pages /\ cache[owner[v].page] \in Nat
  <2>1. \A v \in 1..Len(owner) : owner[v] \in Version
    BY <1>1, ElementOfSeq
  <2> QED
    BY <1>1, <2>1 DEF Version
<1>30. Cached'
  <2> SUFFICES ASSUME NEW v \in 1..Len(g), Tracked(v)' PROVE v <= cache'[g[v].page]
    BY <1>3 DEF Cached
  <2>1. CASE v = n
    BY <1>3, <1>7, <1>14, <1>24, <2>1
  <2>2. CASE v \in 1..Len(owner)
    <3>1. v <= cache[owner[v].page] /\ g[v] = owner[v] /\ v <= n
      BY <1>14, <1>28, <2>2 DEF Data, Cached
    <3> QED
      BY <1>24, <1>29, <2>2, <3>1
  <2> QED
    BY <1>14, <2>1, <2>2
<1>31. Flushed'
  <2> SUFFICES ASSUME ck # "idle", NEW v \in 1..Len(g), Tracked(v)', g[v].tx \notin since'
               PROVE  /\ \A i \in 1..Len(writes) : writes[i].page = g[v].page => v <= writes[i].version
                      /\ Sent(g[v].page) \/ v <= disk[g[v].page]
    BY <1>3, <1>5 DEF Flushed, Coverable, Sent
  <2>1. v # n
    BY <1>4, <1>7, <1>14
  <2>2. v \in 1..Len(owner) /\ g[v] = owner[v]
    BY <1>14, <2>1
  <2>3. Tracked(v) /\ owner[v].tx \notin since
    BY <1>4, <1>28, <2>2
  <2>4. Coverable(v) /\ (Sent(owner[v].page) \/ v <= disk[owner[v].page])
    BY <2>2, <2>3 DEF Data, Flushed
  <2> QED
    BY <2>2, <2>4 DEF Coverable
<1>32. Kept'
  <2> SUFFICES ASSUME NEW v \in 1..Len(g), Past(g[v].tx, log), g[v].tx \notin exposed \cup x
               PROVE  /\ \A i \in 1..Len(writes) : writes[i].page = g[v].page => v <= writes[i].version
                      /\ v <= disk[g[v].page]
    BY <1>3, <1>4, <1>5 DEF Kept, KeptIn, Coverable
  <2>1. PICK i \in 1..Len(log) : log[i] = g[v].tx
    BY DEF Past
  <2>2. Coming[i] = log[i] /\ i \in 1..Len(Coming)
    BY <2>1, LineBegins DEF TypeOK, Coming
  <2>3. v # n
    BY <1>7, <1>14, <1>16, <2>1, <2>2
  <2>4. v \in 1..Len(owner) /\ g[v] = owner[v]
    BY <1>14, <2>3
  <2>5. Coverable(v) /\ v <= disk[owner[v].page]
    BY <1>8, <2>4 DEF Data, Kept, KeptIn
  <2> QED
    BY <2>4, <2>5 DEF Coverable
<1>33. ASSUME x = {} PROVE clash = {} /\ others = {}
  BY <1>8, <1>10, <1>33
<1>34. OwnNewest'
  <2> SUFFICES ASSUME x = {}, NEW d \in Clients, Running(d), NEW v \in Made(g, cl[d].tx)
               PROVE  v <= cache'[g[v].page] /\ g[cache'[g[v].page]].tx = cl[d].tx
    BY <1>3, <1>4, <1>12 DEF OwnNewest
  <2>1. \A w \in Made(owner, cl[d].tx) :
          LET y == cache[owner[w].page] IN w <= y /\ owner[y].tx = cl[d].tx
    BY <1>33 DEF Data, OwnNewest
  <2>2. ASSUME v \in Made(owner, cl[d].tx), owner[v].page # p
        PROVE  v <= cache'[g[v].page] /\ g[cache'[g[v].page]].tx = cl[d].tx
    <3>1. v \in 1..Len(owner) /\ g[v] = owner[v] /\ owner[v].page \in Pages
      BY <1>14, <1>29, <2>2 DEF Made
    <3>2. cache'[g[v].page] = cache[owner[v].page]
      BY <1>24, <2>2, <3>1
    <3> DEFINE y == cache[owner[v].page]
    <3>3. v <= y /\ owner[y].tx = cl[d].tx
      BY <2>1, <2>2
    <3>4. y # 0
      BY <1>3, <1>29, <3>1, <3>3
    <3>5. y \in 1..Len(owner)
      BY <3>1, <3>4 DEF Data, Pool, Of
    <3>6. g[y] = owner[y]
      BY <1>14, <3>5
    <3> QED
      BY <3>2, <3>3, <3>6
  <2>3. CASE d # c
    <3>1. cl[d].tx # t /\ v \in Made(owner, cl[d].tx)
      BY <1>2, <1>7, <1>17, <2>3 DEF Grew
    <3>2. owner[v].page # p
      BY <1>9, <1>33, <2>3, <3>1
    <3> QED
      BY <2>2, <3>1, <3>2
  <2>4. CASE d = c
    <3>0. cl[d].tx = t
      BY <2>4 DEF t
    <3>1. v = n \/ v \in Made(owner, t)
      BY <1>2, <1>7, <3>0 DEF Grew, n
    <3>2. CASE g[v].page = p
      <4>1. v \in 1..Len(g) /\ v <= n
        BY <1>3, <1>14 DEF Made
      <4> QED
        BY <1>7, <1>14, <1>24, <3>0, <3>2, <4>1
    <3>3. CASE g[v].page # p
      <4>1. v \in Made(owner, t) /\ g[v] = owner[v]
        BY <1>7, <1>14, <3>1, <3>3 DEF Made
      <4> QED
        BY <2>2, <3>0, <3>3, <4>1
    <3> QED
      BY <3>2, <3>3
  <2> QED
    BY <2>3, <2>4
<1>35. Fresh'
  <2> SUFFICES ASSUME x = {}, NEW q \in Pages, q # p, q \notin dirty, ck # "wait"
               PROVE  Replay(g, gone, Coming, q) \in {0, cache'[q]}
    BY <1>3, <1>4, <1>5, <1>15, ReplayedIs DEF Fresh
  <2>1. Replay(owner, gone, Coming, q) \in {0, cache[q]} /\ cache'[q] = cache[q]
    BY <1>24, <1>33, ReplayedIs DEF Data, Fresh
  <2>2. Coming \in Seq(Nat)
    BY LineIs DEF TypeOK, Coming, Joins
  <2>3. \A i \in 1..Len(Coming) : Coming[i] # 0 => On(g, Coming[i], q) = On(owner, Coming[i], q)
    <3> SUFFICES ASSUME NEW i \in 1..Len(Coming)
                 PROVE  On(g, Coming[i], q) = On(owner, Coming[i], q)
      OBVIOUS
    <3>1. Made(g, Coming[i]) = Made(owner, Coming[i])
      BY <1>2, <1>7, <1>16 DEF Grew
    <3>2. \A w \in Made(owner, Coming[i]) : g[w] = owner[w]
      BY <1>14 DEF Made
    <3> QED
      BY <3>1, <3>2 DEF On
  <2>4. Replay(g, gone, Coming, q) = Replay(owner, gone, Coming, q)
    BY <1>1, <1>14, <2>2, <2>3, GoneBefore, ReplayGrows
  <2> QED
    BY <2>1, <2>4
<1> QED
  BY <1>20, <1>21, <1>22, <1>25, <1>26, <1>27, <1>30, <1>31, <1>32, <1>34, <1>35 DEF Data

-----------------------------------------------------------------------------
(* The data: the io thread.                                                *)

\* Whoever is served has a transaction, or is the checkpoint thread with a mark.
LEMMA ServedIs ==
    ASSUME TypeOK, Data, io.pc # "recv"
    PROVE  /\ io.from = Checkpointer => io.tx = 0 /\ ck = "await" /\ writes = <<>>
           /\ io.from # Checkpointer => /\ io.from \in Clients /\ io.tx \in Tx /\ io.tx # 0
                                        /\ cl[io.from].pc = "await"
<1>1. Asks(io) /\ io.from \in Senders
  BY DEF Data, Requests, TypeOK, Served
<1>2. CASE io.from = Checkpointer
  BY <1>1, <1>2 DEF Asks, Data, Pool
<1>3. CASE io.from # Checkpointer
  <2>1. io.from \in Clients /\ cl[io.from].pc = "await" /\ io.tx = cl[io.from].tx
    BY <1>1, <1>3 DEF Asks, Senders
  <2>2. io.tx \in Tx
    BY <2>1 DEF Data, Transactions
  <2> QED
    BY <1>3, <2>1, <2>2 DEF Tx, TypeOK
<1> QED
  BY <1>2, <1>3

\* What is on disk is enough for a log with the entry that is being written: a mark is
\* written after the flush it stands for.
LEMMA MarkKeeps ==
    ASSUME TypeOK, Data, io.pc = "write"
    PROVE  KeptIn(Append(log, io.tx), exposed \cup Passed(log, io.tx))
<1> DEFINE m == Append(log, io.tx)
           n == Len(log)
<1>1. /\ log \in Seq(Nat) /\ io.tx \in Nat /\ n \in Nat /\ Len(m) = n + 1 /\ m[n + 1] = io.tx
      /\ \A i \in 1..n : m[i] = log[i]
  BY AppendLast DEF TypeOK, Served
<1> HIDE DEF m
<1> SUFFICES ASSUME NEW v \in 1..Len(owner), Past(owner[v].tx, m),
                    owner[v].tx \notin exposed \cup Passed(log, io.tx) \cup clash
             PROVE  Coverable(v) /\ v <= disk[owner[v].page]
  BY DEF KeptIn, m
<1> DEFINE t == owner[v].tx
<1>2. t \in Tx /\ t # 0
  BY DEF Data, Transactions, Tx, TypeOK
<1>3. PICK i \in 1..Len(m), k \in 1..Len(m) : i < k /\ m[i] = t /\ m[k] = 0
  BY DEF Past
<1>4. i \in 1..n /\ log[i] = t
  BY <1>1, <1>3
<1>5. CASE k \in 1..n
  <2>1. Past(t, log)
    BY <1>1, <1>3, <1>4, <1>5 DEF Past
  <2> QED
    BY <2>1 DEF Data, Kept, KeptIn
<1>6. CASE k = n + 1
  <2>1. io.tx = 0
    BY <1>1, <1>3, <1>6
  <2>2. ck = "await" /\ writes = <<>>
    BY <2>1, ServedIs
  <2>3. t \in Logged(log)
    BY <1>2, <1>4, LenProperties DEF Logged, ToSet
  <2>4. t \notin since
    BY <2>1, <2>3 DEF Passed
  <2>5. Coming[i] = log[i] /\ i \in 1..Len(Coming)
    BY <1>4, LineBegins DEF TypeOK, Coming
  <2>6. Tracked(v)
    BY <1>4, <2>5 DEF Tracked, Alive
  <2>7. Coverable(v) /\ (Sent(owner[v].page) \/ v <= disk[owner[v].page])
    BY <2>2, <2>4, <2>6 DEF Data, Flushed
  <2>8. ~Sent(owner[v].page)
    BY <2>2, NoEntry DEF Sent
  <2> QED
    BY <2>7, <2>8
<1> QED
  BY <1>1, <1>3, <1>5, <1>6

LEMMA TakeData ==
    ASSUME TypeOK, Data, IoTake
    PROVE  Data'
<1> DEFINE h == Head(ioq)
<1>1. UNCHANGED <<cl, lastTx, owner, cache, dirty, last_index, disk, log, ck, writes, writing,
                  acked, since, exposed, early, clash, short, gone>>
  BY DEF IoTake, cursorVars, flushVars, history
<1>2. /\ io.pc = "recv" /\ ioq # <<>> /\ ioq' = Tail(ioq)
      /\ io' = [pc |-> "write", from |-> h.from, tx |-> h.tx]
  BY DEF IoTake
<1>3. /\ ioq \in Seq(Request) /\ Len(ioq) \in Nat \ {0} /\ h = ioq[1] /\ h \in Request
      /\ ioq' \in Seq(Request) /\ Len(ioq') = Len(ioq) - 1
      /\ \A i \in 1..Len(ioq') : ioq'[i] = ioq[i + 1]
  BY <1>2, HeadLeaves DEF TypeOK
<1>4. io' \in Served /\ io'.pc = "write" /\ io'.tx = h.tx /\ io'.from = h.from
  BY <1>2, <1>3 DEF Served, Request
<1>5. Coming' = Coming
  <2>1. io'.pc = "write" /\ io.pc # "write" /\ io \in Served /\ log \in Seq(Nat)
    BY <1>2, <1>4 DEF TypeOK
  <2>2. Line(log, io', Tail(ioq)) = Line(log, io, ioq)
    BY <1>2, <1>3, <1>4, <2>1, LineTake
  <2>3. Coming' = Line(log, io', Tail(ioq))
    BY <1>1, <1>2 DEF Coming
  <2> QED
    BY <2>2, <2>3 DEF Coming
<1>6. Calm
  BY <1>1, <1>5 DEF Calm, Running
<1>7. Requests'
  <2>0. Requests
    BY DEF Data
  <2>1. \A i \in 1..Len(ioq') : i + 1 \in 1..Len(ioq) /\ i + 1 # 1 /\ 1 \in 1..Len(ioq)
    BY <1>3
  <2>2. \A r : Asks(r) => Asks(r)'
    BY <1>1 DEF Asks
  <2>3. \A i \in 1..Len(ioq') : Asks(ioq[i])' /\ ioq'[i].from # io'.from
    <3> SUFFICES ASSUME NEW i \in 1..Len(ioq') PROVE Asks(ioq[i])' /\ ioq'[i].from # io'.from
      OBVIOUS
    <3>1. Asks(ioq[i + 1]) /\ ioq[i + 1].from # ioq[1].from
      BY <2>0, <2>1 DEF Requests
    <3>2. \A r : r = ioq[i + 1] => Asks(r)'
      BY <2>2, <3>1
    <3> QED
      BY <1>3, <1>4, <3>1, <3>2 DEF Asks
  <2>4. \A i, j \in 1..Len(ioq') : i # j => ioq'[i].from # ioq'[j].from
    <3> SUFFICES ASSUME NEW i \in 1..Len(ioq'), NEW j \in 1..Len(ioq'), i # j
                 PROVE  ioq'[i].from # ioq'[j].from
      OBVIOUS
    <3>1. i + 1 # j + 1
      OBVIOUS
    <3> QED
      BY <1>3, <2>0, <2>1, <3>1 DEF Requests
  <2>5. Asks(io)'
    <3>1. Asks(ioq[1]) /\ 1 \in 1..Len(ioq)
      BY <1>3, <2>0 DEF Requests
    <3> QED
      BY <1>1, <1>3, <1>4, <3>1 DEF Asks
  <2>6. io'.pc # "signal"
    BY <1>4
  <2> QED
    BY <2>3, <2>4, <2>5, <2>6 DEF Requests
<1>8. Pool' /\ Acknowledged' /\ Kept'
  <2>1. Pool'
    BY <1>1, PoolStays DEF Data, Pool
  <2>2. Acknowledged'
    BY <1>1 DEF Data, Acknowledged, Known
  <2>3. Kept'
    BY <1>1 DEF Data, Kept, KeptIn, Coverable
  <2> QED
    BY <2>1, <2>2, <2>3
<1>9. Allocator'
  BY <1>1, AllocatorStays DEF Data
<1>10. Cached' /\ Flushed' /\ OwnNewest' /\ Fresh'
  BY <1>1, <1>5, <1>6, CachedStays, FlushedStays, OwnNewestStays, FreshStays DEF Data
<1> QED
  BY <1>6, <1>7, <1>8, <1>9, <1>10, CalmTransactions, CalmOrder DEF Data

\* A request is answered: whoever waited for it goes on.
LEMMA Answered ==
    ASSUME TypeOK, Data, io.pc # "recv", Answer, UNCHANGED <<ioq, lastTx, owner, clash>>,
           Coming' = Coming
    PROVE  /\ Calm /\ Requests' /\ (ck' # "wait" => ck # "wait" \/ writes = <<>>)
           /\ (ck' # "idle" => ck # "idle") /\ (ck = "wait" => ck' = "wait")
           /\ \A c \in Clients : cl'[c].pc = "undo" => cl'[c] = cl[c]
           /\ acked' \subseteq acked \cup ({io.tx} \ {0})
<1>1. /\ io' = NoRequest /\ io'.pc = "recv"
      /\ io.from = Checkpointer => cl' = cl /\ ck' = "idle" /\ acked' = acked
      /\ io.from # Checkpointer =>
           io.from \in Clients /\ Turned(io.from, NoCall) /\ acked' = acked \cup {io.tx} /\ ck' = ck
  BY AnswerIs DEF NoRequest
<1>2. /\ io.from = Checkpointer => io.tx = 0 /\ ck = "await" /\ writes = <<>>
      /\ io.from # Checkpointer => io.from \in Clients /\ io.tx # 0 /\ cl[io.from].pc = "await"
  BY ServedIs
<1>3. \A c \in Clients : \/ cl'[c] = cl[c]
                         \/ c = io.from /\ io.from # Checkpointer /\ cl'[c].pc = "idle"
  BY <1>1 DEF Turned, NoCall
<1>4. Calm
  <2>1. \A c \in Clients : \/ cl'[c].pc = "idle"
                           \/ cl'[c].tx = cl[c].tx /\ cl[c].pc # "idle" /\ (Running(c)' => Running(c))
    BY <1>3 DEF Running
  <2> QED
    BY <2>1 DEF Calm
<1>5. Requests'
  <2>0. Requests
    BY DEF Data
  <2>1. \A i \in 1..Len(ioq) : Asks(ioq[i]) /\ ioq[i].from # io.from /\ ioq[i].from \in Senders
    <3>1. \A i \in 1..Len(ioq) : ioq[i] \in Request
      BY ElementOfSeq DEF TypeOK
    <3> QED
      BY <2>0, <3>1 DEF Requests, Request
  <2>2. ASSUME NEW r, Asks(r), r.from # io.from, r.from \in Senders PROVE Asks(r)'
    <3>1. CASE r.from = Checkpointer
      BY <1>1, <2>2, <3>1 DEF Asks
    <3>2. CASE r.from # Checkpointer
      <4>1. r.from \in Clients
        BY <2>2, <3>2 DEF Senders
      <4>2. cl'[r.from] = cl[r.from]
        BY <1>3, <2>2, <4>1
      <4> QED
        BY <2>2, <3>2, <4>1, <4>2 DEF Asks
    <3> QED
      BY <3>1, <3>2
  <2>3. \A i \in 1..Len(ioq) : Asks(ioq[i])'
    <3> SUFFICES ASSUME NEW i \in 1..Len(ioq) PROVE Asks(ioq[i])'
      OBVIOUS
    <3>1. \A r : r = ioq[i] => Asks(r)'
      BY <2>1, <2>2
    <3> QED
      BY <3>1 DEF Asks
  <2> QED
    BY <1>1, <2>0, <2>3 DEF Requests
<1>6. \A c \in Clients : cl'[c].pc = "undo" => cl'[c] = cl[c]
  BY <1>3
<1> QED
  BY <1>1, <1>2, <1>4, <1>5, <1>6

LEMMA WrittenData ==
    ASSUME TypeOK, Data, IoWritten
    PROVE  Data'
<1>1. UNCHANGED <<lastTx, owner, cache, last_index, dirty, ioq, disk, writes, writing,
                  since, early, clash, short, gone>>
  BY DEF IoWritten, flushVars
<1>2. /\ io.pc = "write" /\ log' = Append(log, io.tx) /\ exposed' = exposed \cup Passed(log, io.tx)
      /\ log \in Seq(Nat) /\ io.tx \in Nat /\ io \in Served /\ ioq \in Seq(Request)
  BY DEF IoWritten, TypeOK, Served
<1>3. \/ io' = [io EXCEPT !.pc = "signal"] /\ UNCHANGED <<cl, ck, acked>>
      \/ Answer
  BY DEF IoWritten
<1>4. io' \in Served /\ io'.pc # "write"
  <2>1. CASE io' = [io EXCEPT !.pc = "signal"]
    BY <1>2, <2>1 DEF Served
  <2>2. CASE Answer
    BY <2>2, AnswerIs DEF NoRequest
  <2> QED
    BY <1>3, <2>1, <2>2
<1>5. Coming' = Coming
  <2>1. Line(log', io', ioq) = Line(log, io, ioq)
    BY <1>2, <1>4, LineWritten
  <2>2. Coming' = Line(log', io', ioq)
    BY <1>1 DEF Coming
  <2> QED
    BY <2>1, <2>2 DEF Coming
<1>6. Logged(log') = Logged(log) \cup ({io.tx} \ {0})
  <2>1. /\ Len(log') = Len(log) + 1 /\ log'[Len(log) + 1] = io.tx /\ Len(log) \in Nat
        /\ \A i \in 1..Len(log) : log'[i] = log[i]
        /\ DOMAIN log = 1..Len(log) /\ DOMAIN log' = 1..(Len(log) + 1)
    BY <1>2, AppendLast, LenProperties
  <2>2. /\ 1..(Len(log) + 1) = (1..Len(log)) \cup {Len(log) + 1}
    BY <2>1
  <2>3. ToSet(log') = ToSet(log) \cup {io.tx}
    BY <2>1, <2>2 DEF ToSet
  <2> QED
    BY <2>3 DEF Logged
<1>7. /\ Calm /\ Requests' /\ (ck' # "wait" => ck # "wait" \/ writes = <<>>)
      /\ (ck' # "idle" => ck # "idle") /\ (ck = "wait" => ck' = "wait")
      /\ \A c \in Clients : cl'[c].pc = "undo" => cl'[c] = cl[c]
      /\ acked' \subseteq acked \cup ({io.tx} \ {0})
  <2>1. ASSUME io' = [io EXCEPT !.pc = "signal"], UNCHANGED <<cl, ck, acked>>
        PROVE  <1>7!1
    <3>1. Calm
      BY <1>1, <1>5, <2>1 DEF Calm, Running
    <3>2. io'.pc = "signal" /\ io'.from = io.from /\ io'.tx = io.tx
      BY <1>2, <2>1 DEF Served
    <3>3. io.from # Checkpointer => io.tx # 0
      BY <1>2, ServedIs
    <3>4. Requests'
      <4>0. Requests /\ Asks(io)
        BY <1>2 DEF Data, Requests
      <4>1. \A r : Asks(r) => Asks(r)'
        BY <2>1 DEF Asks
      <4>2. \A i \in 1..Len(ioq) : Asks(ioq[i])' /\ ioq[i].from # io'.from
        <5>1. \A i \in 1..Len(ioq) : \A r : r = ioq[i] => Asks(r)'
          BY <4>0, <4>1 DEF Requests
        <5> QED
          BY <1>1, <1>2, <3>2, <4>0, <5>1 DEF Requests, Asks
      <4>3. Asks(io)'
        BY <2>1, <3>2, <4>0 DEF Asks
      <4>4. \A i, j \in 1..Len(ioq) : i # j => ioq[i].from # ioq[j].from
        BY <4>0 DEF Requests
      <4>5. io'.from # Checkpointer => io'.tx \in Logged(log')
        BY <1>6, <3>2, <3>3
      <4> QED
        BY <1>1, <4>2, <4>3, <4>4, <4>5 DEF Requests
    <3> QED
      BY <2>1, <3>1, <3>4 DEF Data, Pool
  <2>2. CASE Answer
    BY <1>1, <1>2, <1>5, <2>2, Answered
  <2> QED
    BY <1>3, <2>1, <2>2
<1>8. Pool'
  BY <1>1, <1>7, PoolStays DEF Data, Pool
<1>9. Acknowledged'
  <2>1. \A y : Known(y) => Known(y)'
    BY <1>1, <1>6 DEF Known
  <2>2. acked \subseteq Logged(log) /\ (\A p \in Pages : Known(disk[p]))
        /\ \A i \in 1..Len(writes) : Known(writes[i].version)
    BY DEF Data, Acknowledged
  <2>3. \A p \in Pages : \A y : y = disk[p] => Known(y)'
    BY <2>1, <2>2
  <2>4. \A i \in 1..Len(writes) : \A y : y = writes[i].version => Known(y)'
    BY <2>1, <2>2
  <2>5. acked' \subseteq Logged(log')
    BY <1>6, <1>7, <2>2
  <2> QED
    BY <1>1, <2>3, <2>4, <2>5 DEF Acknowledged, Known
<1>10. Allocator'
  BY <1>1, <1>7, AllocatorStays DEF Data
<1>11. Kept'
  <2>1. KeptIn(Append(log, io.tx), exposed \cup Passed(log, io.tx))
    BY <1>2, MarkKeeps
  <2> QED
    BY <1>1, <1>2, <2>1 DEF Kept, KeptIn, Coverable
<1>12. exposed \subseteq exposed'
  BY <1>2
<1>13. Cached' /\ Flushed' /\ OwnNewest' /\ Fresh'
  BY <1>1, <1>5, <1>7, <1>12, CachedStays, FlushedStays, OwnNewestStays, FreshStays DEF Data
<1> QED
  BY <1>7, <1>8, <1>9, <1>10, <1>11, <1>13, CalmTransactions, CalmOrder DEF Data

LEMMA SignalData ==
    ASSUME TypeOK, Data, IoSignal
    PROVE  Data'
<1>1. UNCHANGED <<lastTx, owner, cache, last_index, dirty, log, ioq, disk, writes, writing,
                  since, exposed, early, clash, short, gone>>
  BY DEF IoSignal, flushVars
<1>2. io.pc = "signal" /\ Answer
  BY DEF IoSignal
<1>3. Coming' = Coming
  <2>1. io'.pc # "write" /\ io.pc # "write"
    BY <1>2, AnswerIs DEF NoRequest
  <2> QED
    BY <1>1, <2>1 DEF Coming, Line
<1>4. /\ Calm /\ Requests' /\ (ck' # "wait" => ck # "wait" \/ writes = <<>>)
      /\ (ck' # "idle" => ck # "idle") /\ (ck = "wait" => ck' = "wait")
      /\ \A c \in Clients : cl'[c].pc = "undo" => cl'[c] = cl[c]
      /\ acked' \subseteq acked \cup ({io.tx} \ {0})
  BY <1>1, <1>2, <1>3, Answered
<1>5. Pool'
  BY <1>1, <1>4, PoolStays DEF Data, Pool
<1>6. Acknowledged'
  <2>1. io.tx # 0 => io.from # Checkpointer
    BY <1>2, ServedIs
  <2>2. io.tx # 0 => io.tx \in Logged(log)
    BY <1>2, <2>1 DEF Data, Requests
  <2> QED
    BY <1>1, <1>4, <2>2 DEF Data, Acknowledged, Known
<1>7. Allocator'
  BY <1>1, <1>4, AllocatorStays DEF Data
<1>8. Kept'
  BY <1>1 DEF Data, Kept, KeptIn, Coverable
<1>9. Cached' /\ Flushed' /\ OwnNewest' /\ Fresh'
  BY <1>1, <1>3, <1>4, CachedStays, FlushedStays, OwnNewestStays, FreshStays DEF Data
<1> QED
  BY <1>4, <1>5, <1>6, <1>7, <1>8, <1>9, CalmTransactions, CalmOrder DEF Data

-----------------------------------------------------------------------------
(* The data: the flush of a checkpoint.                                    *)

LEMMA DrainData ==
    ASSUME TypeOK, Data, CkDrain
    PROVE  Data'
<1> DEFINE b == Blocks
<1>1. UNCHANGED <<cl, lastTx, owner, cache, last_index, log, ioq, io, disk, writing, acked, exposed,
                  clash, short, gone>>
  BY DEF CkDrain, cursorVars, logVars
<1>2. /\ ck = "idle" /\ ck' = "wait" /\ dirty' = {} /\ since' = {} /\ writes' = writes \o b
      /\ early' = early \cup ({owner[cache[p]].tx : p \in dirty} \ Logged(log))
  BY DEF CkDrain
<1>3. writes = <<>> /\ ~writing /\ Len(writes) = 0
  BY <1>2, NoEntry DEF Data, Pool
<1>4. /\ b \in Seq(Outgoing)
      /\ \A i \in 1..Len(b) : b[i].page \in dirty /\ b[i].version = cache[b[i].page]
      /\ \A p \in dirty : \E i \in 1..Len(b) : b[i].page = p
      /\ \A i, j \in 1..Len(b) : i # j => b[i].page # b[j].page
  BY BlocksOf DEF TypeOK
<1> HIDE DEF b
<1>5. writes' = b
  BY <1>2, <1>3, <1>4, EmptySeq
<1>6. Coming' = Coming
  BY <1>1 DEF Coming
<1>7. Calm
  BY <1>1, <1>6 DEF Calm, Running
<1>8. dirty \subseteq Pages /\ cache \in [Pages -> Nat] /\ \A p \in Pages : ~Sent(p)
  BY <1>3 DEF TypeOK, Sent
<1>9. Requests'
  BY <1>1, <1>2, RequestsStay DEF Data, TypeOK
<1>10. Pool'
  <2>0. Pool
    BY DEF Data
  <2>1. \A i \in 1..Len(b) : Of(b[i].version, b[i].page, owner)
    BY <1>4, <1>8, <2>0 DEF Pool
  <2>2. \A p \in Pages : (\E i \in 1..Len(b) : b[i].page = p) \/ disk[p] = cache[p]
    BY <1>4, <1>8, <2>0 DEF Pool
  <2>3. \A p \in Pages : Of(cache[p], p, owner) /\ Of(disk[p], p, owner)
    BY <2>0 DEF Pool
  <2> QED
    BY <1>1, <1>2, <1>3, <1>4, <1>5, <2>1, <2>2, <2>3 DEF Pool, Sent
<1>11. Allocator'
  BY <1>1, AllocatorStays DEF Data
<1>12. Acknowledged'
  <2>1. \A p \in Pages : disk[p] # 0 => owner[disk[p]].tx \in Logged(log) \cup early
    BY DEF Data, Acknowledged, Known
  <2>2. \A i \in 1..Len(b) : b[i].version # 0 => owner[b[i].version].tx \in Logged(log) \cup early'
    <3> DEFINE E == {owner[cache[p]].tx : p \in dirty}
    <3>1. \A p \in dirty : owner[cache[p]].tx \in E
      OBVIOUS
    <3>2. early' = early \cup (E \ Logged(log))
      BY <1>2
    <3> HIDE DEF E
    <3>3. \A i \in 1..Len(b) : owner[b[i].version].tx \in E
      BY <1>4, <3>1
    <3> QED
      BY <3>2, <3>3
  <2>3. \A p \in Pages : disk[p] # 0 => owner[disk[p]].tx \in Logged(log) \cup early'
    BY <1>2, <2>1
  <2>4. acked \subseteq Logged(log)
    BY DEF Data, Acknowledged
  <2> QED
    BY <1>1, <1>5, <2>2, <2>3, <2>4 DEF Acknowledged, Known, Logged
<1>13. Cached' /\ OwnNewest'
  BY <1>1, <1>7, CachedStays, OwnNewestStays DEF Data
<1>14. ASSUME NEW v \in 1..Len(owner), Tracked(v)
       PROVE  /\ Coverable(v)'
              /\ (\E i \in 1..Len(b) : b[i].page = owner[v].page) \/ v <= disk[owner[v].page]
  <2>1. v <= cache[owner[v].page]
    BY <1>14 DEF Data, Cached
  <2>2. owner[v].page \in Pages
    <3>1. owner[v] \in Version
      BY ElementOfSeq DEF TypeOK
    <3> QED
      BY <3>1 DEF Version
  <2>3. Coverable(v)'
    BY <1>1, <1>4, <1>5, <2>1 DEF Coverable
  <2>4. CASE owner[v].page \in dirty
    BY <1>4, <2>3, <2>4
  <2>5. CASE owner[v].page \notin dirty
    <3>1. disk[owner[v].page] = cache[owner[v].page]
      BY <1>8, <2>2, <2>5 DEF Data, Pool
    <3> QED
      BY <2>1, <2>3, <3>1
  <2> QED
    BY <2>4, <2>5
<1>15. \A v : Tracked(v)' => Tracked(v)
  BY <1>1, <1>7, CalmIs
<1>16. Flushed'
  <2>1. \A v \in 1..Len(owner) : Tracked(v)' =>
          Coverable(v)' /\ ((\E i \in 1..Len(b) : b[i].page = owner[v].page) \/ v <= disk[owner[v].page])
    BY <1>14, <1>15
  <2> QED
    BY <1>1, <1>5, <2>1 DEF Flushed, Sent
<1>17. Kept'
  <2> SUFFICES ASSUME NEW v \in 1..Len(owner), Past(owner[v].tx, log),
                      owner[v].tx \notin exposed \cup clash
               PROVE  Coverable(v)' /\ v <= disk[owner[v].page]
    BY <1>1 DEF Kept, KeptIn
  <2>1. v <= disk[owner[v].page]
    BY DEF Data, Kept, KeptIn
  <2>2. PICK i \in 1..Len(log) : log[i] = owner[v].tx
    BY DEF Past
  <2>3. Coming[i] = log[i] /\ i \in 1..Len(Coming)
    BY <2>2, LineBegins DEF TypeOK, Coming
  <2>4. Tracked(v)
    BY <2>2, <2>3 DEF Tracked, Alive
  <2> QED
    BY <1>14, <2>1, <2>4
<1>18. Fresh'
  BY <1>1, <1>2, <1>6, FreshStays DEF Data
<1> QED
  BY <1>7, <1>9, <1>10, <1>11, <1>12, <1>13, <1>16, <1>17, <1>18, CalmTransactions, CalmOrder
  DEF Data

LEMMA WriteEndData ==
    ASSUME TypeOK, Data, WriteEnd
    PROVE  Data'
<1> DEFINE h == Head(writes)
<1>1. UNCHANGED <<cl, lastTx, owner, cache, last_index, dirty, log, ioq, io, ck, acked, since,
                  exposed, early, clash, short, gone>>
  BY DEF WriteEnd, cursorVars, logVars, history
<1>2. /\ writing /\ writing' = FALSE /\ writes' = Tail(writes)
      /\ disk' = [disk EXCEPT ![h.page] = h.version]
  BY DEF WriteEnd
<1>0. Pool
  BY DEF Data
<1>3. /\ Len(writes) \in Nat \ {0} /\ h = writes[1] /\ h \in Outgoing
      /\ Len(writes') = Len(writes) - 1 /\ \A i \in 1..Len(writes') : writes'[i] = writes[i + 1]
  <2>1. writes \in Seq(Outgoing) /\ writes # <<>>
    BY <1>0, <1>2 DEF Pool, TypeOK
  <2> QED
    BY <1>2, <2>1, HeadLeaves
<1>4. /\ h.page \in Pages /\ disk'[h.page] = h.version
      /\ \A p \in Pages : p # h.page => disk'[p] = disk[p]
  BY <1>2, <1>3 DEF Outgoing, TypeOK
<1> HIDE DEF h
<1>5. /\ 1 \in 1..Len(writes)
      /\ \A i \in 1..Len(writes') : i + 1 \in 1..Len(writes) /\ writes'[i] = writes[i + 1]
                                    /\ writes'[i].page # h.page
      /\ \A i \in 1..Len(writes) : i = 1 \/ (i - 1 \in 1..Len(writes') /\ writes'[i - 1] = writes[i])
  <2>1. /\ 1 \in 1..Len(writes) /\ \A i \in 1..Len(writes') : i + 1 \in 1..Len(writes) /\ i + 1 # 1
        /\ \A i \in 1..Len(writes) : i = 1 \/ (i - 1 \in 1..Len(writes') /\ (i - 1) + 1 = i)
    BY <1>3
  <2>2. \A i, j \in 1..Len(writes) : i # j => writes[i].page # writes[j].page
    BY <1>0 DEF Pool
  <2> QED
    BY <1>3, <2>1, <2>2
<1>6. \A p : Sent(p) => Sent(p)' \/ p = h.page
  BY <1>3, <1>5 DEF Sent
<1>7. Coming' = Coming
  BY <1>1 DEF Coming
<1>8. Calm
  BY <1>1, <1>7 DEF Calm, Running
<1>9. Requests'
  BY <1>1, RequestsStay DEF Data, TypeOK
<1>10. Pool'
  <2>1. \A p \in Pages : Of(cache[p], p, owner) /\ Of(disk'[p], p, owner)
    BY <1>0, <1>3, <1>4, <1>5 DEF Pool
  <2>2. \A i \in 1..Len(writes') : Of(writes'[i].version, writes'[i].page, owner)
    BY <1>0, <1>5 DEF Pool
  <2>3. \A i, j \in 1..Len(writes') : i # j => writes'[i].page # writes'[j].page
    <3> SUFFICES ASSUME NEW i \in 1..Len(writes'), NEW j \in 1..Len(writes'), i # j
                 PROVE  writes'[i].page # writes'[j].page
      OBVIOUS
    <3>1. i + 1 # j + 1 /\ i + 1 \in 1..Len(writes) /\ j + 1 \in 1..Len(writes)
      BY <1>5
    <3>2. \A k, m \in 1..Len(writes) : k # m => writes[k].page # writes[m].page
      BY <1>0 DEF Pool
    <3>3. writes[i + 1].page # writes[j + 1].page
      BY <3>1, <3>2
    <3>4. writes'[i] = writes[i + 1] /\ writes'[j] = writes[j + 1]
      BY <1>5
    <3> QED
      BY <3>3, <3>4
  <2>4. \A i \in 1..Len(writes') : writes'[i].page \notin dirty => writes'[i].version = cache[writes'[i].page]
    BY <1>0, <1>5 DEF Pool
  <2>5. \A p \in Pages \ dirty : Sent(p)' \/ disk'[p] = cache[p]
    <3> SUFFICES ASSUME NEW p \in Pages \ dirty PROVE Sent(p)' \/ disk'[p] = cache[p]
      OBVIOUS
    <3>1. CASE p = h.page
      BY <1>0, <1>3, <1>4, <1>5, <3>1 DEF Pool
    <3>2. CASE p # h.page
      BY <1>0, <1>4, <1>6, <3>2 DEF Pool
    <3> QED
      BY <3>1, <3>2
  <2>6. ck # "wait" => writes' = <<>>
    BY <1>0, <1>3, NoEntry DEF Pool
  <2> QED
    BY <1>1, <1>2, <2>1, <2>2, <2>3, <2>4, <2>5, <2>6 DEF Pool, Sent
<1>11. Allocator'
  BY <1>1, AllocatorStays DEF Data
<1>12. Acknowledged'
  <2>1. \A y : Known(y) => Known(y)'
    BY <1>1 DEF Known, Logged
  <2>2. acked \subseteq Logged(log) /\ (\A p \in Pages : Known(disk[p]))
        /\ \A i \in 1..Len(writes) : Known(writes[i].version)
    BY DEF Data, Acknowledged
  <2>3. \A p \in Pages : \A y : y = disk'[p] => Known(y)'
    <3> SUFFICES ASSUME NEW p \in Pages, NEW y, y = disk'[p] PROVE Known(y)
      BY <2>1
    <3>1. CASE p = h.page
      BY <1>3, <1>4, <1>5, <2>2, <3>1
    <3>2. CASE p # h.page
      BY <1>4, <2>2, <3>2
    <3> QED
      BY <3>1, <3>2
  <2>4. \A i \in 1..Len(writes') : \A y : y = writes'[i].version => Known(y)'
    BY <1>5, <2>1, <2>2
  <2> QED
    BY <1>1, <2>2, <2>3, <2>4 DEF Acknowledged, Known
<1>13. Cached' /\ OwnNewest' /\ Fresh'
  BY <1>1, <1>7, <1>8, CachedStays, OwnNewestStays, FreshStays DEF Data
<1>14. ASSUME NEW v \in 1..Len(owner), Coverable(v)
       PROVE  /\ Coverable(v)' /\ (v <= disk[owner[v].page] => v <= disk'[owner[v].page])
              /\ (Sent(owner[v].page) => Sent(owner[v].page)' \/ v <= disk'[owner[v].page])
  <2>1. owner[v].page \in Pages
    <3>1. owner[v] \in Version
      BY ElementOfSeq DEF TypeOK
    <3> QED
      BY <3>1 DEF Version
  <2>2. Coverable(v)'
    BY <1>1, <1>5, <1>14 DEF Coverable
  <2>3. owner[v].page = h.page => v <= disk'[owner[v].page]
    BY <1>3, <1>4, <1>5, <1>14 DEF Coverable
  <2>4. owner[v].page # h.page => disk'[owner[v].page] = disk[owner[v].page]
    BY <1>4, <2>1
  <2>5. Sent(owner[v].page) => owner[v].page = h.page \/ Sent(owner[v].page)'
    BY <1>1, <1>6 DEF Sent
  <2> QED
    BY <2>2, <2>3, <2>4, <2>5
<1>15. \A v : Tracked(v)' => Tracked(v)
  BY <1>1, <1>8, CalmIs
<1>16. Flushed'
  <2> SUFFICES ASSUME ck # "idle", NEW v \in 1..Len(owner), Tracked(v), owner[v].tx \notin since
               PROVE  Coverable(v)' /\ (Sent(owner[v].page)' \/ v <= disk'[owner[v].page])
    BY <1>1, <1>15 DEF Flushed
  <2>1. Coverable(v) /\ (Sent(owner[v].page) \/ v <= disk[owner[v].page])
    BY DEF Data, Flushed
  <2> QED
    BY <1>14, <2>1
<1>17. Kept'
  <2> SUFFICES ASSUME NEW v \in 1..Len(owner), Past(owner[v].tx, log),
                      owner[v].tx \notin exposed \cup clash
               PROVE  Coverable(v)' /\ v <= disk'[owner[v].page]
    BY <1>1 DEF Kept, KeptIn
  <2>1. Coverable(v) /\ v <= disk[owner[v].page]
    BY DEF Data, Kept, KeptIn
  <2> QED
    BY <1>14, <2>1
<1> QED
  BY <1>8, <1>9, <1>10, <1>11, <1>12, <1>13, <1>16, <1>17, CalmTransactions, CalmOrder DEF Data

-----------------------------------------------------------------------------
(* The data: a restart.                                                    *)

\* What replay finds for a page is a version of it, by a transaction in the log.
LEMMA ReplayOf ==
    ASSUME NEW o \in Seq(Version), NEW z \in Nat, NEW lg \in Seq(Nat), NEW p
    PROVE  /\ Of(Replay(o, z, lg, p), p, o)
           /\ Replay(o, z, lg, p) # 0 => o[Replay(o, z, lg, p)].tx \in Logged(lg)
<1> DEFINE y == Replay(o, z, lg, p)
<1>1. Restores(y, o, z, lg, p) /\ DOMAIN lg = 1..Len(lg)
  BY ReplayIs, LenProperties
<1> HIDE DEF y
<1>2. CASE y = 0
  BY <1>2 DEF Of, y
<1>3. CASE y # 0
  <2>1. PICK k \in From(z, lg) : y \in On(o, lg[k], p)
    BY <1>1, <1>3 DEF Restores
  <2>2. y \in 1..Len(o) /\ o[y].page = p /\ o[y].tx = lg[k]
    BY <2>1 DEF On, Made
  <2>3. lg[k] \in Logged(lg)
    BY <1>1, <2>1 DEF From, Unmarked, Logged, ToSet
  <2> QED
    BY <2>2, <2>3 DEF Of, y
<1> QED
  BY <1>2, <1>3

\* What wal.db and data.db hold at a crash is enough to bring back every version in the
\* log that is not exposed and did not overlap, or a newer one.
LEMMA Whole ==
    ASSUME TypeOK, Data, NEW image \in Images, NEW ex,
           ex = exposed \cup Adrift(image) \cup (IF image = log THEN {} ELSE Passed(log, io.tx))
    PROVE  /\ KeptIn(image, ex) /\ Ordered(image, owner, clash)
           /\ \A i \in 1..Len(image) : i \in 1..Len(Coming) /\ Coming[i] = image[i]
           /\ Logged(log) \subseteq Logged(image)
           /\ \A v \in 1..Len(owner), i \in 1..Len(image) :
                image[i] = owner[v].tx /\ owner[v].tx \notin ex \cup clash =>
                  v <= Recovered(image)[owner[v].page]
<1>1. /\ image \in Seq(Nat) /\ (image = log \/ (io.pc = "write" /\ image = Append(log, io.tx)))
      /\ \A p \in Pages : Recovered(image)[p] = IF Replay(owner, gone, image, p) = 0 THEN disk[p]
                                                ELSE Replay(owner, gone, image, p)
  BY RecoveredIs DEF Finds
<1>2. log \in Seq(Nat) /\ ioq \in Seq(Request) /\ io \in Served /\ io.tx \in Nat
  BY DEF TypeOK, Served
<1>3. \A i \in 1..Len(image) : i \in 1..Len(Coming) /\ Coming[i] = image[i]
  BY <1>1, <1>2, LineBegins DEF Coming
<1>4. KeptIn(image, ex)
  <2>1. CASE image = log
    <3>1. KeptIn(log, exposed) /\ exposed \subseteq ex
      BY DEF Data, Kept
    <3> QED
      BY <2>1, <3>1 DEF KeptIn
  <2>2. CASE image # log
    <3>1. /\ io.pc = "write" /\ image = Append(log, io.tx)
          /\ exposed \cup Passed(log, io.tx) \subseteq ex
      BY <1>1, <2>2
    <3>2. KeptIn(image, exposed \cup Passed(log, io.tx))
      BY <3>1, MarkKeeps
    <3> QED
      BY <3>1, <3>2 DEF KeptIn
  <2> QED
    BY <2>1, <2>2
<1>5. Ordered(image, owner, clash)
  <2>1. Ordered(Coming, owner, clash)
    BY DEF Data, Order
  <2> QED
    BY <1>3, <2>1 DEF Ordered
<1>6. Logged(log) \subseteq Logged(image)
  <2>1. CASE image = log
    BY <2>1
  <2>2. CASE image = Append(log, io.tx)
    <3>1. /\ Len(image) = Len(log) + 1 /\ Len(log) \in Nat
          /\ \A i \in 1..Len(log) : image[i] = log[i]
          /\ DOMAIN log = 1..Len(log) /\ DOMAIN image = 1..(Len(log) + 1)
      BY <1>1, <1>2, <2>2, AppendLast, LenProperties
    <3>2. 1..Len(log) \subseteq 1..(Len(log) + 1)
      BY <3>1
    <3> QED
      BY <3>1, <3>2 DEF Logged, ToSet
  <2> QED
    BY <1>1, <2>1, <2>2
<1>7. ASSUME NEW v \in 1..Len(owner), NEW i \in 1..Len(image), image[i] = owner[v].tx,
             owner[v].tx \notin ex \cup clash
      PROVE  v <= Recovered(image)[owner[v].page]
  <2> DEFINE p == owner[v].page
             y == Replay(owner, gone, image, p)
  <2>1. p \in Pages /\ owner[v].tx \in Tx /\ owner[v].tx # 0
    <3>1. owner[v] \in Version
      BY ElementOfSeq DEF TypeOK
    <3>2. owner[v].tx \in Tx /\ lastTx \in Nat
      BY DEF Data, Transactions, TypeOK
    <3>3. p \in Pages
      BY <3>1 DEF Version
    <3>4. \A t \in Tx : t # 0
      BY <3>2 DEF Tx
    <3> QED
      BY <3>2, <3>3, <3>4
  <2>2. v \in Made(owner, image[i]) /\ disk[p] \in Nat
    BY <1>7, <2>1 DEF Made, TypeOK
  <2>3. Past(image[i], image) => v <= disk[p]
    BY <1>4, <1>7 DEF KeptIn
  <2>4. owner \in Seq(Version) /\ gone \in Nat
    BY GoneBefore DEF TypeOK
  <2>6. i \in Unmarked(image) => i > gone
    <3>1. image[i] \notin Adrift(image)
      BY <1>7
    <3> QED
      BY <3>1 DEF Adrift, Live
  <2>5. v <= (IF y = 0 THEN disk[p] ELSE y)
    BY <1>1, <1>5, <1>7, <2>1, <2>2, <2>3, <2>4, <2>6, Regained
  <2> QED
    BY <1>1, <2>1, <2>5
<1> QED
  BY <1>3, <1>4, <1>5, <1>6, <1>7

LEMMA RestartData ==
    ASSUME TypeOK, Data, Restart
    PROVE  Data'
<1>1. PICK image \in Images :
        /\ log' = image /\ cache' = Recovered(image)
        /\ dirty' = {p \in Pages : Replayed(image, p) # 0}
        /\ gone' \in gone..Len(image)
        /\ exposed' = exposed \cup Adrift(image)
                      \cup (IF image = log THEN {} ELSE Passed(log, io.tx))
  BY DEF Restart
<1>2. /\ UNCHANGED <<lastTx, owner, disk, acked, early, clash>>
      /\ \A c \in Clients : cl'[c].pc = "idle"
      /\ ioq' = <<>> /\ io' = NoRequest /\ io'.pc = "recv" /\ ck' = "idle"
      /\ writes' = <<>> /\ writing' = FALSE /\ last_index' = FileLength
      /\ short' = (short \/ \E p \in dirty' : p >= FileLength)
  BY DEF Restart, NoCall, NoRequest
<1> DEFINE ex == exposed \cup Adrift(image)
                 \cup (IF image = log THEN {} ELSE Passed(log, io.tx))
<1>3. /\ KeptIn(image, ex) /\ Ordered(image, owner, clash)
      /\ \A i \in 1..Len(image) : i \in 1..Len(Coming) /\ Coming[i] = image[i]
      /\ Logged(log) \subseteq Logged(image)
      /\ \A v \in 1..Len(owner), i \in 1..Len(image) :
           image[i] = owner[v].tx /\ owner[v].tx \notin ex \cup clash =>
             v <= Recovered(image)[owner[v].page]
  BY Whole
<1>4. exposed' = ex /\ exposed \subseteq exposed'
  BY <1>1
<1> HIDE DEF ex
<1>5. /\ image \in Seq(Nat)
      /\ \A p \in Pages : Recovered(image)[p] = IF Replay(owner, gone, image, p) = 0 THEN disk[p]
                                                ELSE Replay(owner, gone, image, p)
      /\ FileLength \in 1..MaxPages /\ \A p \in Pages : disk[p] # 0 => p < FileLength
  BY RecoveredIs DEF Finds
<1>6. \A p \in Pages : p \in dirty' <=> Replay(owner, gone, image, p) # 0
  BY <1>1, ReplayedIs
<1>7. \A p \in Pages : cache'[p] = IF Replay(owner, gone, image, p) = 0 THEN disk[p]
                                   ELSE Replay(owner, gone, image, p)
  BY <1>1, <1>5
<1>8. Coming' = image
  <2>1. NoRequest \in Served /\ NoRequest.pc # "write" /\ <<>> \in Seq(Request)
    BY NoEntry DEF NoRequest, Served, Senders
  <2>2. Line(image, NoRequest, <<>>) = image
    BY <1>5, <2>1, LineSettled
  <2>3. Coming' = Line(image, NoRequest, <<>>)
    BY <1>1, <1>2 DEF Coming
  <2> QED
    BY <2>2, <2>3
<1>9. \A c \in Clients : ~Running(c)'
  BY <1>2 DEF Running
<1>10. Calm
  BY <1>2, <1>3, <1>8 DEF Calm
<1>11. Requests'
  BY <1>2, NoEntry DEF Requests
<1>12. owner \in Seq(Version)
  BY DEF TypeOK
<1>13. Pool'
  <2>1. \A p \in Pages : Of(Replay(owner, gone, image, p), p, owner) /\ Of(disk[p], p, owner)
    BY <1>5, <1>12, GoneBefore, ReplayOf DEF Data, Pool
  <2>2. \A p \in Pages : Of(cache'[p], p, owner)
    BY <1>7, <2>1
  <2>3. \A p \in Pages \ dirty' : disk[p] = cache'[p]
    BY <1>6, <1>7
  <2>4. Len(writes') = 0
    BY <1>2, NoEntry
  <2> QED
    BY <1>2, <2>1, <2>2, <2>3, <2>4 DEF Pool
<1>14. Allocator'
  <2> SUFFICES ASSUME ~short', NEW p \in Pages, p >= FileLength PROVE cache'[p] = 0
    BY <1>2 DEF Allocator
  <2>1. p \notin dirty'
    BY <1>2
  <2>2. p \in Nat /\ FileLength \in Nat
    BY <1>5, PagesAssumption DEF Pages
  <2>3. disk[p] = 0
    BY <1>5, <2>2
  <2> QED
    BY <1>6, <1>7, <2>1, <2>3
<1>15. Acknowledged'
  <2>1. acked \subseteq Logged(log) /\ \A p \in Pages : disk[p] # 0 => owner[disk[p]].tx \in Logged(log) \cup early
    BY DEF Data, Acknowledged, Known
  <2>2. acked \subseteq Logged(image) /\ \A p \in Pages : disk[p] # 0 => owner[disk[p]].tx \in Logged(image) \cup early
    BY <1>3, <2>1
  <2> QED
    BY <1>1, <1>2, <2>2, NoEntry DEF Acknowledged, Known
<1>16. Cached'
  <2> SUFFICES ASSUME NEW v \in 1..Len(owner), Tracked(v)' PROVE v <= cache'[owner[v].page]
    BY <1>2 DEF Cached
  <2>1. Alive(owner[v].tx)' /\ owner[v].tx \notin ex \cup clash
    BY <1>2, <1>4 DEF Tracked, Alive
  <2>2. PICK i \in 1..Len(image) : image[i] = owner[v].tx
    BY <1>2, <1>8, <1>9, <2>1 DEF Alive
  <2> QED
    BY <1>1, <1>3, <2>1, <2>2
<1>17. Flushed'
  BY <1>2 DEF Flushed
<1>18. Kept'
  <2>1. \A v : Coverable(v)'
    BY <1>2, NoEntry DEF Coverable
  <2>2. \A v \in 1..Len(owner) : Past(owner[v].tx, image) /\ owner[v].tx \notin ex \cup clash =>
          v <= disk[owner[v].page]
    BY <1>3 DEF KeptIn
  <2> QED
    BY <1>1, <1>2, <1>4, <2>1, <2>2 DEF Kept, KeptIn
<1>19. OwnNewest'
  BY <1>9 DEF OwnNewest
<1>20. Fresh'
  <2> SUFFICES ASSUME NEW p \in Pages, p \notin dirty'
               PROVE  Replay(owner, gone', image, p) \in {0, cache'[p]}
    BY <1>2, <1>8, ReplayedIs DEF Fresh
  <2>1. gone \in Nat /\ gone' \in Nat /\ gone <= gone'
    <3>1. gone \in Nat /\ Len(image) \in Nat
      BY <1>5, GoneBefore, LenProperties
    <3> QED
      BY <1>1, <3>1
  <2>2. Replay(owner, gone', image, p) \in {0, Replay(owner, gone, image, p)}
    BY <1>5, <1>12, <2>1, ReplayFades
  <2> QED
    BY <1>6, <2>2
<1> QED
  BY <1>10, <1>11, <1>13, <1>14, <1>15, <1>16, <1>17, <1>18, <1>19, <1>20,
     CalmTransactions, CalmOrder DEF Data

LEMMA DataStep == Inv /\ [Next]_vars => Data'
<1> SUFFICES ASSUME Inv, [Next]_vars PROVE Data'
  OBVIOUS
<1> USE DEF cursorVars, logVars, flushVars, dropVars, history, vars
<1>1. TypeOK /\ Data /\ (writing => writes # <<>>)
  BY DEF Inv, Data, Pool
<1>2. ASSUME NEW c \in Clients, Begin(c) PROVE Data'
  BY <1>1, <1>2, BeginData
<1>3. ASSUME NEW c \in Clients, Read(c) PROVE Data'
  BY <1>1, <1>3, Outside DEF Read
<1>4. ASSUME NEW c \in Clients, NEW p \in Pages, Update(c, p) PROVE Data'
  BY <1>1, <1>4, UpdateData
<1>5. ASSUME NEW c \in Clients, Insert(c) PROVE Data'
  BY <1>1, <1>5, InsertData
<1>6. ASSUME NEW c \in Clients, Enter(c) PROVE Data'
  BY <1>1, <1>6, EnterData
<1>7. ASSUME NEW c \in Clients, Commit(c) PROVE Data'
  BY <1>1, <1>7, CommitData
<1>8. ASSUME NEW c \in Clients, Abandon(c) PROVE Data'
  BY <1>1, <1>8, AbandonData
<1>9. ASSUME IoTake PROVE Data'
  BY <1>1, <1>9, TakeData
<1>10. ASSUME IoWritten PROVE Data'
  BY <1>1, <1>10, WrittenData
<1>11. ASSUME IoSignal PROVE Data'
  BY <1>1, <1>11, SignalData
<1>22. ASSUME IoOverwrite PROVE Data'
  <2>1. gone' \in Nat /\ gone <= gone'
    <3>1. gone \in 0..Len(log) /\ Len(log) \in Nat
      BY <1>1, LenProperties DEF TypeOK
    <3>2. gone' \in gone + 1..Len(log)
      BY <1>22 DEF IoOverwrite
    <3> QED
      BY <3>1, <3>2
  <2> QED
    BY <1>1, <1>22, <2>1, Outside DEF IoOverwrite
<1>12. ASSUME CkNothing PROVE Data'
  BY <1>1, <1>12, Outside DEF CkNothing
<1>13. ASSUME CkDrain PROVE Data'
  BY <1>1, <1>13, DrainData
<1>14. ASSUME CkFlushed PROVE Data'
  BY <1>1, <1>14, FlushedData
<1>15. ASSUME WriteBegin PROVE Data'
  BY <1>1, <1>15, Outside DEF WriteBegin
<1>16. ASSUME WriteEnd PROVE Data'
  BY <1>1, <1>16, WriteEndData
<1>17. ASSUME CommitTake PROVE Data'
  BY <1>1, <1>17, Outside DEF CommitTake
<1>18. ASSUME DropBegin PROVE Data'
  BY <1>1, <1>18, Outside DEF DropBegin
<1>19. ASSUME Dropper PROVE Data'
  <2>1. CASE DropSend
    BY <1>1, <2>1, Outside DEF DropSend
  <2>2. CASE DropClose
    BY <1>1, <2>2, Outside DEF DropClose
  <2>3. CASE DropJoined
    BY <1>1, <2>3, Outside DEF DropJoined
  <2>4. CASE DropFile
    BY <1>1, <2>4, Outside DEF DropFile
  <2> QED
    BY <1>19, <2>1, <2>2, <2>3, <2>4 DEF Dropper
<1>20. ASSUME Restart PROVE Data'
  BY <1>1, <1>20, RestartData
<1>21. ASSUME UNCHANGED vars PROVE Data'
  BY <1>1, <1>21, Outside
<1> QED
  BY <1>2, <1>3, <1>4, <1>5, <1>6, <1>7, <1>8, <1>9, <1>10, <1>11, <1>12, <1>13, <1>14, <1>15,
     <1>16, <1>17, <1>18, <1>19, <1>20, <1>21, <1>22
  DEF Next, Cursor, Io, Checkpoint, Write, Rest

-----------------------------------------------------------------------------
(* The drop.                                                               *)

\* While no cursor interferes, only the checkpoint thread has a request under way.
LEMMA NobodyAsks ==
    ASSUME TypeOK, Data, \A c \in Clients : cl[c].pc \in {"idle", "open"}
    PROVE  /\ \A i \in 1..Len(ioq) : ioq[i].from = Checkpointer /\ ioq[i].tx = 0 /\ ck = "await"
           /\ ioq # <<>> => ck = "await" /\ Head(ioq).tx = 0
           /\ io.pc # "recv" => io.from = Checkpointer /\ io.tx = 0 /\ ck = "await"
<1>1. ASSUME NEW r, r.from \in Senders, Asks(r) PROVE r.from = Checkpointer /\ r.tx = 0 /\ ck = "await"
  <2>1. r.from \notin Clients
    BY <1>1, CheckpointerAssumption DEF Asks
  <2> QED
    BY <1>1, <2>1 DEF Asks, Senders
<1>2. \A i \in 1..Len(ioq) : ioq[i].from = Checkpointer /\ ioq[i].tx = 0 /\ ck = "await"
  <2>1. \A i \in 1..Len(ioq) : ioq[i] \in Request
    BY ElementOfSeq DEF TypeOK
  <2>2. \A i \in 1..Len(ioq) : ioq[i].from \in Senders
    BY <2>1 DEF Request
  <2> QED
    BY <1>1, <2>2 DEF Data, Requests
<1>3. ioq # <<>> => ck = "await" /\ Head(ioq).tx = 0
  <2>1. ioq # <<>> => Len(ioq) \in Nat \ {0} /\ Head(ioq) = ioq[1]
    BY HeadLeaves DEF TypeOK
  <2>2. ioq # <<>> => 1 \in 1..Len(ioq)
    BY <2>1
  <2> QED
    BY <1>2, <2>1, <2>2
<1>4. io.pc # "recv" => io.from = Checkpointer /\ io.tx = 0 /\ ck = "await"
  BY <1>1 DEF Data, Requests, TypeOK, Served
<1> QED
  BY <1>2, <1>3, <1>4

\* Nothing closes the thread that asked for the length of data.db.
LEMMA MetaStays ==
    ASSUME TypeOK, up["meta"], [Next]_vars
    PROVE  up'["meta"]
<1> USE DEF cursorVars, logVars, flushVars, dropVars, history, vars
<1>1. "meta" \in Threads /\ "meta" \notin Closed \cup Files \cup {"beside"}
  BY DEF Threads, Unclosed, Closed, Files
<1>2. up \in [Threads -> BOOLEAN]
  BY DEF TypeOK
<1>3. ASSUME NEW S, Spawned(S) PROVE up'["meta"]
  BY <1>1, <1>2, <1>3 DEF Spawned
<1>4. ASSUME NEW c \in Clients, Cursor(c) PROVE up'["meta"]
  BY <1>3, <1>4 DEF Cursor, Begin, Read, Update, Insert, Enter, Commit, Abandon
<1>5. ASSUME Io \/ IoOverwrite PROVE up'["meta"]
  BY <1>3, <1>5 DEF Io, IoTake, IoWritten, IoSignal, IoOverwrite
<1>6. ASSUME CkNothing \/ CkDrain \/ CkFlushed PROVE up'["meta"]
  BY <1>3, <1>6 DEF CkNothing, CkDrain, CkFlushed, Mark
<1>7. ASSUME Write PROVE up'["meta"]
  BY <1>3, <1>7 DEF Write, WriteBegin, WriteEnd
<1>8. ASSUME CommitTake PROVE up'["meta"]
  <2>1. \E S : Spawned(S)
    BY <1>8 DEF CommitTake
  <2> QED
    BY <1>3, <2>1
<1>9. ASSUME DropBegin \/ DropSend \/ DropClose PROVE up'["meta"]
  BY <1>3, <1>9 DEF DropBegin, DropSend, DropClose
<1>10. ASSUME DropJoined PROVE up'["meta"]
  BY <1>1, <1>2, <1>10 DEF DropJoined
<1>11. ASSUME DropFile PROVE up'["meta"]
  BY <1>1, <1>2, <1>11 DEF DropFile
<1>12. ASSUME Restart PROVE up'["meta"]
  BY <1>1, <1>12 DEF Restart, Booted
<1>13. ASSUME UNCHANGED vars PROVE up'["meta"]
  BY <1>13
<1> QED
  BY <1>4, <1>5, <1>6, <1>7, <1>8, <1>9, <1>10, <1>11, <1>12, <1>13
  DEF Next, Checkpoint, Dropper, Rest

LEMMA ShutdownStep == Inv /\ [Next]_vars => Shutdown'
<1> SUFFICES ASSUME Inv, [Next]_vars PROVE Shutdown'
  OBVIOUS
<1> USE DEF cursorVars, logVars, flushVars, dropVars, history, vars
<1>1. TypeOK /\ Data /\ Shutdown
  BY DEF Inv
<1>24. up'["meta"]
  BY <1>1, MetaStays DEF Shutdown
<1>2. drop \in 0..9 /\ ckq \in Nat /\ late \in BOOLEAN /\ joining \in BOOLEAN
  BY <1>1, OrderIs DEF TypeOK
<1>3. ck # "wait" => writes = <<>>
  BY <1>1 DEF Data, Pool
<1>4. ASSUME drop' = drop, joining' = joining,
             drop > 0 /\ ~late' => ~late /\ (Shut => Shut')
      PROVE  Shutdown'
  BY <1>1, <1>4, <1>24 DEF Shutdown
<1>5. ASSUME NEW S, Spawned(S)
      PROVE  \A t \in Threads : /\ up[t] \/ t \in S => up'[t]
                                /\ t \notin S => up'[t] = up[t]
  BY <1>1, <1>5, SpawnedUp
<1>6. Shut => /\ ioq # <<>> => ck = "await" /\ Head(ioq).tx = 0
              /\ io.pc # "recv" => io.from = Checkpointer /\ ck = "await"
              /\ drop > 3 => ck = "idle" /\ ckq = 0 /\ ~up["checkpoint"] /\ ioq = <<>> /\ io.pc = "recv"
                             /\ writes = <<>>
  <2>1. Shut => /\ ioq # <<>> => ck = "await" /\ Head(ioq).tx = 0
                /\ io.pc # "recv" => io.from = Checkpointer /\ ck = "await"
    BY <1>1, NobodyAsks DEF Shut
  <2> QED
    BY <1>3, <2>1 DEF Shut
<1>7. ASSUME NEW c \in Clients, Cursor(c) PROVE Shutdown'
  <2>1. CASE Begin(c)
    BY <1>1, <1>4, <2>1 DEF Begin
  <2>2. CASE Read(c) \/ (\E p \in Pages : Update(c, p)) \/ Insert(c) \/ Commit(c)
    <3>1. drop' = drop /\ joining' = joining /\ (drop > 0 => late')
      BY <2>2 DEF Read, Update, Insert, Commit, Called
    <3> QED
      BY <1>4, <3>1
  <2>3. CASE Enter(c)
    <3>1. ~Shut /\ drop' = drop /\ joining' = joining /\ late' = late
      BY <2>3 DEF Enter, Shut
    <3> QED
      BY <1>4, <3>1
  <2>4. CASE Abandon(c)
    <3>1. Turned(c, NoCall)
      BY <1>1, <2>4, ClientTurns DEF Abandon, NoCall, Client
    <3>2. Shut => Shut'
      BY <2>4, <3>1 DEF Abandon, Shut, Turned, NoCall
    <3> QED
      BY <1>4, <2>4, <3>2 DEF Abandon
  <2> QED
    BY <1>7, <2>1, <2>2, <2>3, <2>4 DEF Cursor
<1>8. ASSUME IoTake PROVE Shutdown'
  <2>1. drop' = drop /\ joining' = joining /\ late' = late /\ ioq # <<>>
        /\ UNCHANGED <<cl, dirty, ckq, ck>>
    BY <1>8 DEF IoTake
  <2>2. ASSUME Shut PROVE Shut'
    <3>1. Head(ioq).tx = 0 /\ ~(drop > 3)
      BY <1>6, <2>1, <2>2
    <3>2. Spawned({"wal"}) /\ commits' = commits
      BY <1>8, <3>1 DEF IoTake
    <3>3. up'["commit"] = up["commit"] /\ up'["flush"] = up["flush"]
      BY <1>5, <3>2 DEF Threads, Closed, Unclosed, Files
    <3> QED
      BY <1>2, <2>1, <2>2, <3>1, <3>2, <3>3 DEF Shut
  <2> QED
    BY <1>4, <2>1, <2>2
<1>9. ASSUME IoWritten PROVE Shutdown'
  <2>1. drop' = drop /\ joining' = joining /\ late' = late /\ UNCHANGED <<dirty, ckq, commits, up>>
    BY <1>9 DEF IoWritten
  <2>2. ASSUME Shut PROVE Shut'
    <3>1. io.pc = "write" /\ (UNCHANGED <<cl, ck>> \/ Answer)
      BY <1>9 DEF IoWritten
    <3>2. io.from = Checkpointer
      BY <1>6, <2>2, <3>1
    <3>3. cl' = cl /\ (ck' = ck \/ ck' = "idle")
      BY <1>1, <3>1, <3>2, AnswerIs
    <3> QED
      BY <2>1, <2>2, <3>3 DEF Shut
  <2> QED
    BY <1>4, <2>1, <2>2
<1>10. ASSUME IoSignal PROVE Shutdown'
  <2>1. drop' = drop /\ joining' = joining /\ late' = late /\ UNCHANGED <<dirty, commits>>
        /\ io.pc = "signal" /\ ckq' = ckq + 1 /\ Answer /\ Spawned({"checkpoint"})
    BY <1>10 DEF IoSignal
  <2>2. ASSUME Shut PROVE Shut'
    <3>1. io.from = Checkpointer /\ ~(drop > 3)
      BY <1>6, <2>1, <2>2
    <3>2. cl' = cl
      BY <1>1, <2>1, <3>1, AnswerIs
    <3>3. up'["commit"] = up["commit"] /\ up'["flush"] = up["flush"]
      BY <1>5, <2>1 DEF Threads, Closed, Unclosed, Files
    <3> QED
      BY <1>2, <2>1, <2>2, <3>1, <3>2, <3>3 DEF Shut
  <2> QED
    BY <1>4, <2>1, <2>2
<1>11. ASSUME CkNothing PROVE Shutdown'
  <2>1. drop' = drop /\ joining' = joining /\ late' = late /\ UNCHANGED <<cl, dirty, commits, ck>>
        /\ dirty = {} /\ ckq > 0 /\ ckq' = ckq - 1 /\ Spawned({"flush", "beside"})
    BY <1>11 DEF CkNothing, CkRequest
  <2>2. ASSUME Shut PROVE Shut'
    <3>1. ~(drop > 3)
      BY <1>2, <1>6, <2>1, <2>2
    <3>2. up'["commit"] = up["commit"] /\ up'["flush"]
      BY <1>5, <2>1 DEF Threads, Closed, Unclosed, Files
    <3> QED
      BY <1>2, <2>1, <2>2, <3>1, <3>2 DEF Shut
  <2> QED
    BY <1>4, <2>1, <2>2
<1>12. ASSUME CkRequest \/ CkTimer, CkDrain PROVE Shutdown'
  <2>1. drop' = drop /\ joining' = joining /\ late' = late /\ UNCHANGED <<cl, commits>>
        /\ dirty' = {} /\ Spawned({"flush", "write"}) /\ (ckq > 0 \/ up["checkpoint"])
    BY <1>12 DEF CkDrain, CkRequest, CkTimer
  <2>2. ASSUME Shut PROVE Shut'
    <3>1. ~(drop > 3)
      BY <1>2, <1>6, <2>1, <2>2
    <3>2. up'["commit"] = up["commit"] /\ up'["flush"]
      BY <1>5, <2>1 DEF Threads, Closed, Unclosed, Files
    <3> QED
      BY <1>2, <2>1, <2>2, <3>1, <3>2 DEF Shut
  <2> QED
    BY <1>4, <2>1, <2>2
<1>13. ASSUME CkFlushed PROVE Shutdown'
  <2>1. drop' = drop /\ joining' = joining /\ late' = late /\ UNCHANGED <<cl, dirty, ckq, commits>>
        /\ ck = "wait" /\ Spawned({"beside", "io"})
    BY <1>13 DEF CkFlushed, Mark
  <2>2. ASSUME Shut PROVE Shut'
    <3>1. ~(drop > 3)
      BY <1>6, <2>1, <2>2
    <3>2. up'["commit"] = up["commit"] /\ up'["flush"] = up["flush"]
      BY <1>5, <2>1 DEF Threads, Closed, Unclosed, Files
    <3> QED
      BY <1>2, <2>1, <2>2, <3>1, <3>2 DEF Shut
  <2> QED
    BY <1>4, <2>1, <2>2
<1>14. ASSUME WriteBegin PROVE Shutdown'
  <2>1. drop' = drop /\ joining' = joining /\ late' = late
        /\ UNCHANGED <<cl, dirty, ckq, ck, commits>> /\ writes # <<>> /\ Spawned({"data"})
    BY <1>14 DEF WriteBegin
  <2>2. ASSUME Shut PROVE Shut'
    <3>1. ~(drop > 3)
      BY <1>6, <2>1, <2>2
    <3>2. up'["commit"] = up["commit"] /\ up'["flush"] = up["flush"]
      BY <1>5, <2>1 DEF Threads, Closed, Unclosed, Files
    <3> QED
      BY <1>2, <2>1, <2>2, <3>1, <3>2 DEF Shut
  <2> QED
    BY <1>4, <2>1, <2>2
<1>15. ASSUME WriteEnd PROVE Shutdown'
  <2>1. drop' = drop /\ joining' = joining /\ late' = late
        /\ UNCHANGED <<cl, dirty, ckq, ck, commits>> /\ writes # <<>> /\ Spawned({"beside"})
    BY <1>1, <1>15 DEF WriteEnd, Data, Pool
  <2>2. ASSUME Shut PROVE Shut'
    <3>1. ~(drop > 3)
      BY <1>2, <1>6, <2>1, <2>2
    <3>2. up'["commit"] = up["commit"] /\ up'["flush"] = up["flush"]
      BY <1>5, <2>1 DEF Threads, Closed, Unclosed, Files
    <3> QED
      BY <1>2, <2>1, <2>2, <3>1, <3>2 DEF Shut
  <2> QED
    BY <1>4, <2>1, <2>2
<1>16. ASSUME CommitTake PROVE Shutdown'
  <2>1. drop' = drop /\ joining' = joining /\ late' = late
        /\ UNCHANGED <<cl, dirty, ckq, ck>> /\ commits # <<>> /\ up'["flush"] = up["flush"]
    <3>1. PICK S \in SUBSET {"beside", "undo"} : Spawned(S)
      BY <1>16 DEF CommitTake
    <3>2. up'["flush"] = up["flush"]
      BY <1>5, <3>1 DEF Threads, Closed, Unclosed, Files
    <3> QED
      BY <1>16, <3>2 DEF CommitTake
  <2>2. ASSUME Shut PROVE Shut'
    <3>1. ~(drop > 2)
      BY <2>1, <2>2 DEF Shut
    <3> QED
      BY <1>2, <2>1, <2>2, <3>1 DEF Shut
  <2> QED
    BY <1>4, <2>1, <2>2
<1>17. ASSUME DropBegin PROVE Shutdown'
  <2>1. drop = 0 /\ drop' = 1 /\ joining' = joining /\ cl' = cl
        /\ (~late' => \A c \in Clients : cl[c].pc \notin {"undo", "await"})
    BY <1>17 DEF DropBegin
  <2>2. ~late' => Shut'
    <3>1. \A c \in Clients : cl[c].pc \in {"idle", "open", "undo", "await"}
      BY <1>1 DEF TypeOK, Client
    <3> QED
      BY <2>1, <3>1 DEF Shut
  <2> QED
    BY <1>1, <1>24, <2>1, <2>2 DEF Shutdown
<1>18. ASSUME DropSend PROVE Shutdown'
  <2>1. drop = 1 /\ drop' = 2 /\ joining' = joining /\ late' = late /\ cl' = cl /\ ckq' > 0
    BY <1>2, <1>18, OrderIs DEF DropSend, Calls, Dropping
  <2>2. Shut => Shut'
    BY <2>1 DEF Shut
  <2> QED
    BY <1>1, <1>24, <2>1, <2>2 DEF Shutdown
<1>19. ASSUME DropClose PROVE Shutdown'
  <2>1. drop \in {2, 3, 4, 6}
    BY <1>19, OrderIs DEF DropClose, Calls, Dropping, Closed
  <2>2. drop' = drop /\ late' = late /\ UNCHANGED <<cl, dirty, ckq, ck, commits, up>>
    BY <1>19 DEF DropClose
  <2>3. Shut => Shut'
    BY <2>2 DEF Shut
  <2> QED
    BY <1>1, <1>24, <2>1, <2>2, <2>3 DEF Shutdown
<1>20. ASSUME DropJoined PROVE Shutdown'
  <2>1. drop' = drop + 1 /\ joining' = FALSE /\ late' = late /\ UNCHANGED <<cl, dirty, ckq, ck, commits>>
    BY <1>20 DEF DropJoined
  <2>2. PICK t \in Closed : Locked(t) /\ Drained(t) /\ up' = [up EXCEPT ![t] = FALSE]
    BY <1>20 DEF DropJoined
  <2>3. /\ up'[t] = FALSE /\ \A s \in Threads : s # t => up'[s] = up[s]
    BY <1>1, <2>2 DEF TypeOK, Threads
  <2>7. up'["flush"] = up["flush"]
    BY <2>2, <2>3 DEF Threads, Closed, Unclosed
  <2>4. /\ drop \in {2, 3, 4, 6} /\ t = DropOrder[drop]
    BY <1>1, <2>2 DEF Shutdown, Locked
  <2>5. \A s \in Threads : ~up[s] => ~up'[s]
    BY <2>3
  <2>6. ASSUME Shut PROVE Shut'
    <3>1. CASE drop = 2
      <4>1. t = "commit" /\ commits = <<>> /\ ~up'["commit"]
        BY <2>2, <2>3, <2>4, <3>1, OrderIs DEF Drained
      <4> QED
        BY <2>1, <2>6, <2>7, <3>1, <4>1 DEF Shut
    <3>2. CASE drop = 3
      <4>1. t = "checkpoint" /\ ck = "idle" /\ ckq = 0 /\ ~up'["checkpoint"]
        BY <2>2, <2>3, <2>4, <3>2, OrderIs DEF Drained
      <4> QED
        BY <2>1, <2>5, <2>6, <2>7, <3>2, <4>1 DEF Shut, Threads, Closed, Unclosed, Files
    <3>3. CASE drop = 4
      <4>1. t = "io" /\ ~up'["io"]
        BY <2>3, <2>4, <3>3, OrderIs
      <4> QED
        BY <2>1, <2>5, <2>6, <2>7, <3>3, <4>1 DEF Shut, Threads, Closed, Unclosed, Files
    <3>4. CASE drop = 6
      <4>1. t = "write" /\ ~up'["write"]
        BY <2>3, <2>4, <3>4, OrderIs
      <4> QED
        BY <2>1, <2>5, <2>6, <2>7, <3>4, <4>1 DEF Shut, Threads, Closed, Unclosed, Files
    <3> QED
      BY <2>4, <3>1, <3>2, <3>3, <3>4
  <2> QED
    BY <1>1, <1>24, <2>1, <2>4, <2>6 DEF Shutdown
<1>21. ASSUME DropFile PROVE Shutdown'
  <2>1. drop' = drop + 1 /\ joining' = joining /\ late' = late /\ UNCHANGED <<cl, dirty, ckq, ck, commits>>
    BY <1>21 DEF DropFile
  <2>2. PICK f \in Files :
          /\ Calls(f) /\ up' = [t \in Threads |-> up[t] /\ t # f /\ ~(f = "data" /\ t = "beside")]
    BY <1>21 DEF DropFile
  <2>3. /\ ~up'[f] /\ (f = "data" => ~up'["beside"])
        /\ \A s \in Threads : (up'[s] => up[s]) /\ (s \notin Files \cup {"beside"} => up'[s] = up[s])
    BY <1>1, <2>2 DEF TypeOK, Threads
  <2>7. up'["flush"] = up["flush"]
    BY <2>3 DEF Threads, Unclosed, Files
  <2>4. drop \in {5, 7, 8} /\ f = DropOrder[drop]
    BY <2>2, OrderIs DEF Calls, Dropping, Files
  <2>5. \A s \in Threads : ~up[s] => ~up'[s]
    BY <2>3
  <2>6. ASSUME Shut PROVE Shut'
    <3>1. CASE drop = 5
      <4>1. ~up'["wal"]
        BY <2>3, <2>4, <3>1, OrderIs
      <4> QED
        BY <2>1, <2>5, <2>6, <2>7, <3>1, <4>1 DEF Shut, Threads, Closed, Unclosed, Files
    <3>2. CASE drop = 7
      <4>1. ~up'["undo"]
        BY <2>3, <2>4, <3>2, OrderIs
      <4> QED
        BY <2>1, <2>5, <2>6, <2>7, <3>2, <4>1 DEF Shut, Threads, Closed, Unclosed, Files
    <3>3. CASE drop = 8
      <4>1. ~up'["data"] /\ ~up'["beside"]
        BY <2>3, <2>4, <3>3, OrderIs
      <4> QED
        BY <2>1, <2>5, <2>6, <2>7, <3>3, <4>1 DEF Shut, Threads, Closed, Unclosed, Files
    <3> QED
      BY <2>4, <3>1, <3>2, <3>3
  <2> QED
    BY <1>1, <1>24, <2>1, <2>4, <2>6 DEF Shutdown
<1>22. ASSUME Restart PROVE Shutdown'
  BY <1>22, <1>24 DEF Restart, Shutdown
<1>23. ASSUME UNCHANGED vars PROVE Shutdown'
  <2>1. Shut => Shut'
    BY <1>23 DEF Shut
  <2> QED
    BY <1>4, <1>23, <2>1
<1>25. ASSUME IoOverwrite PROVE Shutdown'
  <2>1. drop' = drop /\ joining' = joining /\ late' = late
        /\ UNCHANGED <<cl, dirty, ckq, ck, commits, up>>
    BY <1>25 DEF IoOverwrite
  <2>2. Shut => Shut'
    BY <2>1 DEF Shut
  <2> QED
    BY <1>4, <2>1, <2>2
<1> QED
  BY <1>7, <1>8, <1>9, <1>10, <1>11, <1>12, <1>13, <1>14, <1>15, <1>16, <1>17, <1>18, <1>19,
     <1>20, <1>21, <1>22, <1>23, <1>25
  DEF Next, Io, Checkpoint, Write, Dropper, Rest

-----------------------------------------------------------------------------
(* The theorems.                                                           *)

LEMMA InvStep == Inv /\ [Next]_vars => Inv'
BY TypeStep, DataStep, ShutdownStep DEF Inv

\* The state of the engine goes with its history, for any clients, crashes and drops: how
\* the log, the cache and data.db relate at every step of a checkpoint, who waits for
\* whom, and what a drop has closed.
THEOREM EngineInvariant == Spec => []Inv
<1>1. Init => Inv
  BY InitInv
<1>2. Inv /\ [Next]_vars => Inv'
  BY InvStep
<1> QED
  BY <1>1, <1>2, PTL DEF Spec

\* Whatever a crash leaves in wal.db and data.db, the next start has every acknowledged
\* transaction, each of the log whole, and nothing of the others, but for those that are
\* exposed, overlapped or were flushed early.
THEOREM RestartWhole == Spec => []RestartIsWhole
<1>1. Inv => RestartIsWhole
  <2> SUFFICES ASSUME Inv, NEW image \in Images
               PROVE  LET found == Recovered(image)
                          passed == exposed \cup clash \cup Adrift(image)
                                    \cup (IF image = log THEN {} ELSE Passed(log, io.tx))
                      IN  \A t \in Tx \ passed :
                            /\ t \in acked => t \in Logged(image)
                            /\ \A v \in VersionsOf(t) :
                                 IF t \in Logged(image) THEN found[owner[v].page] >= v
                                 ELSE t \in early \/ found[owner[v].page] # v
    BY DEF RestartIsWhole
  <2> DEFINE ex == exposed \cup Adrift(image)
                   \cup (IF image = log THEN {} ELSE Passed(log, io.tx))
  <2>1. TypeOK /\ Data
    BY DEF Inv
  <2>2. /\ Logged(log) \subseteq Logged(image)
        /\ \A v \in 1..Len(owner), i \in 1..Len(image) :
             image[i] = owner[v].tx /\ owner[v].tx \notin ex \cup clash =>
               v <= Recovered(image)[owner[v].page]
    BY <2>1, Whole
  <2>3. /\ image \in Seq(Nat) /\ Recovered(image) \in [Pages -> Nat]
        /\ \A p \in Pages : Recovered(image)[p] = IF Replay(owner, gone, image, p) = 0 THEN disk[p]
                                                  ELSE Replay(owner, gone, image, p)
    BY <2>1, RecoveredIs DEF Finds
  <2> HIDE DEF ex
  <2> SUFFICES ASSUME NEW t \in Tx, t \notin ex \cup clash
               PROVE  /\ t \in acked => t \in Logged(image)
                      /\ \A v \in VersionsOf(t) :
                           IF t \in Logged(image) THEN Recovered(image)[owner[v].page] >= v
                           ELSE t \in early \/ Recovered(image)[owner[v].page] # v
    BY DEF ex
  <2>4. t \in acked => t \in Logged(image)
    BY <2>1, <2>2 DEF Data, Acknowledged
  <2>5. ASSUME NEW v \in VersionsOf(t)
        PROVE  IF t \in Logged(image) THEN Recovered(image)[owner[v].page] >= v
               ELSE t \in early \/ Recovered(image)[owner[v].page] # v
    <3> DEFINE p == owner[v].page
    <3>1. v \in 1..Len(owner) /\ owner[v].tx = t /\ owner \in Seq(Version) /\ Len(owner) \in Nat
      BY <2>1, LenProperties DEF VersionsOf, TypeOK
    <3>2. p \in Pages
      <4>1. owner[v] \in Version
        BY <3>1, ElementOfSeq
      <4> QED
        BY <4>1 DEF Version
    <3>3. CASE t \in Logged(image)
      <4>1. PICK i \in 1..Len(image) : image[i] = t
        BY <2>3, <3>3, LenProperties DEF Logged, ToSet
      <4>2. v <= Recovered(image)[p]
        BY <2>2, <3>1, <4>1
      <4>3. Recovered(image)[p] \in Nat /\ v \in Nat
        BY <2>3, <3>1, <3>2
      <4>4. \A x, y \in Nat : x <= y => y >= x
        OBVIOUS
      <4>5. Recovered(image)[p] >= v
        BY <4>2, <4>3, <4>4
      <4> QED
        BY <3>3, <4>5
    <3>4. CASE t \notin Logged(image)
      <4>1. ASSUME Recovered(image)[p] = v PROVE t \in early
        <5>1. Replay(owner, gone, image, p) # v
          <6>1. Replay(owner, gone, image, p) # 0 => owner[Replay(owner, gone, image, p)].tx \in Logged(image)
            BY <2>1, <2>3, <3>1, GoneBefore, ReplayOf
          <6>2. v # 0
            BY <3>1
          <6> QED
            BY <3>1, <3>4, <6>1, <6>2
        <5>2. disk[p] = v
          BY <2>3, <3>2, <4>1, <5>1
        <5>3. owner[v].tx \in Logged(log) \cup early
          BY <2>1, <3>1, <3>2, <5>2 DEF Data, Acknowledged, Known
        <5> QED
          BY <2>2, <3>1, <3>4, <5>3
      <4> QED
        BY <3>4, <4>1
    <3> QED
      BY <3>3, <3>4
  <2> QED
    BY <2>4, <2>5
<1> QED
  BY <1>1, EngineInvariant, PTL

\* No page is handed out that has a version, over restarts too, unless one of them found
\* pages in the log beyond data.db.
THEOREM NeverTwice == Spec => AllocatedOnce
<1>1. Inv /\ [Next]_vars => (last_index' = last_index + 1 => short \/ cache[last_index] = 0)
  <2> SUFFICES ASSUME Inv, [Next]_vars, last_index' = last_index + 1, ~short
               PROVE  cache[last_index] = 0
    OBVIOUS
  <2>1. TypeOK /\ TypeOK' /\ Allocator
    BY InvStep DEF Inv, Data
  <2>2. last_index \in 1..MaxPages /\ last_index + 1 \in 1..MaxPages
    BY <2>1 DEF TypeOK
  <2>3. last_index \in Pages /\ last_index >= last_index
    BY <2>2, PagesAssumption DEF Pages
  <2> QED
    BY <2>1, <2>3 DEF Allocator
<1> QED
  BY <1>1, EngineInvariant, PTL DEF Spec, AllocatedOnce

\* When a drop that no cursor interfered with has ended, every request is served and all
\* that was dirty is on disk.
LEMMA AllServed ==
    ASSUME Inv, drop = Ended, ~late
    PROVE  /\ Shut /\ ck = "idle" /\ ckq = 0 /\ dirty = {} /\ writes = <<>>
           /\ ioq = <<>> /\ io.pc = "recv"
<1>1. TypeOK /\ Data /\ drop = 9
  BY OrderIs DEF Inv
<1>2. Shut
  BY <1>1 DEF Inv, Shutdown
<1>3. ck = "idle" /\ ckq = 0 /\ dirty = {}
  BY <1>1, <1>2 DEF Shut
<1>4. writes = <<>>
  BY <1>1, <1>3 DEF Data, Pool
<1>5. ioq = <<>> /\ io.pc = "recv"
  BY <1>1, <1>2, <1>3, NobodyAsks DEF Shut
<1> QED
  BY <1>2, <1>3, <1>4, <1>5

\* A drop that no cursor interferes with keeps every page as the last cursor saw it,
\* unless transactions overlapped.
THEOREM DropKeeps == Spec => []DropKeepsPages
<1>1. Inv => DropKeepsPages
  <2> SUFFICES ASSUME Inv, drop = Ended, ~late, clash = {} PROVE Recovered(log) = cache
    BY DEF DropKeepsPages
  <2>1. TypeOK /\ Data /\ log \in Images
    BY DEF Inv, Images
  <2>2. ck = "idle" /\ dirty = {} /\ writes = <<>> /\ ioq = <<>> /\ io.pc = "recv"
    BY AllServed
  <2>3. Coming = log
    <3>1. io.pc # "write"
      BY <2>2
    <3> QED
      BY <2>1, <2>2, <3>1, LineSettled DEF TypeOK, Coming
  <2>4. /\ Recovered(log) \in [Pages -> Nat]
        /\ \A p \in Pages : Recovered(log)[p] = IF Replay(owner, gone, log, p) = 0 THEN disk[p]
                                                ELSE Replay(owner, gone, log, p)
    BY <2>1, RecoveredIs DEF Finds
  <2>5. \A p \in Pages : Replay(owner, gone, log, p) \in {0, cache[p]}
    BY <2>1, <2>2, <2>3, ReplayedIs DEF Data, Fresh
  <2>6. \A p \in Pages : disk[p] = cache[p]
    BY <2>1, <2>2, NoEntry DEF Data, Pool, Sent
  <2>7. \A p \in Pages : Recovered(log)[p] = cache[p]
    BY <2>4, <2>5, <2>6
  <2>8. cache \in [Pages -> Nat]
    BY <2>1 DEF TypeOK
  <2> HIDE DEF Recovered
  <2> QED
    BY <2>4, <2>7, <2>8
<1> QED
  BY <1>1, EngineInvariant, PTL

\* When such a drop has ended the two threads that nothing closes run, and no other: no
\* close comes before that of a thread which may still ask for the closed one.
THEOREM UnclosedLeft == Spec => []OnlyUnclosedLeft
<1>1. Inv => OnlyUnclosedLeft
  <2> SUFFICES ASSUME Inv, drop = Ended, ~late
               PROVE  {t \in Threads : up[t]} = Unclosed /\ ioq = <<>> /\ ckq = 0
    BY DEF OnlyUnclosedLeft
  <2>1. Shut /\ ckq = 0 /\ ioq = <<>> /\ drop = 9 /\ up["meta"]
    BY AllServed, OrderIs DEF Inv, Shutdown
  <2>2. up["flush"]
    BY <2>1 DEF Shut
  <2>3. \A t \in Closed \cup Files \cup {"beside"} : ~up[t]
    BY <2>1 DEF Shut, Closed, Files
  <2>4. {t \in Threads : up[t]} = Unclosed
    BY <2>1, <2>2, <2>3 DEF Threads, Unclosed
  <2> QED
    BY <2>1, <2>4
<1> QED
  BY <1>1, EngineInvariant, PTL

=============================================================================
