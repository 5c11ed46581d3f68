--------------------- MODULE WriteAheadLogRecoveryProofs ---------------------
(***************************************************************************)
(* Proofs about what comes back after a crash, for every value of the      *)
(* constants.  The replay loop is brought to a closed form; the records of *)
(* a transaction are followed without a gap from the log buffer over the   *)
(* channel and the io thread to wal.db, and from there into whatever a     *)
(* crash leaves of it: acknowledged commits survive, and a transaction     *)
(* comes back whole or not at all.                                         *)
(***************************************************************************)
EXTENDS WriteAheadLogProofs, WellFoundedInduction

------------------------------------------------------------------------------
(* What replay knows after the records of a set, without a loop.           *)

Indexes(R) == {r.index : r \in R}

\* Records with an index each, a commit being a transaction's.
Indexed(R, n) ==
    /\ R \subseteq Record
    /\ \A r \in R : r.index \in 1..n /\ (r.op = "commit" => r.tx # 0)
    /\ \A r, q \in R : r.index = q.index => r = q

Marks(R) == {r \in R : r.op = "checkpoint"}
StartOf(r, t) == r.tx = t /\ r.op = "start"
InForce(R, r) == \A m \in Marks(R) : m.index < r.index
Begun(R) == {t \in 0..MaxTx : \E s \in R : /\ StartOf(s, t) /\ InForce(R, s)
                               /\ \A k \in R : CommitOf(k, t) => k.index < s.index}
Live(R) == {t \in Tx : \E s, k \in R : /\ StartOf(s, t) /\ CommitOf(k, t)
                                       /\ s.index < k.index /\ InForce(R, s)}
Kept(R) == {r \in R : /\ r.op = "insert"
                      /\ \A m \in Marks(R) : r.index < m.index => m.n <= r.index}
StateOf(R) == [started |-> Begun(R), committed |-> Live(R), inserts |-> Kept(R)]

\* r comes after the records of U.
Follows(U, r) ==
    /\ U \subseteq Record /\ r \in Record /\ (r.op = "commit" => r.tx # 0)
    /\ \A q \in U : q.index < r.index
    /\ \A q, s \in U : q.index = s.index => q = s

LEMMA FollowsOrder ==
    ASSUME NEW U, NEW r, Follows(U, r)
    PROVE  /\ \A q \in U \cup {r} : q.index \in Nat /\ q.tx \in 0..MaxTx
           /\ \A q \in U : q.index < r.index /\ ~ (r.index < q.index) /\ q # r
           /\ ~ (r.index < r.index)
<1>1. \A q \in U \cup {r} : q \in Record
  BY DEF Follows
<1>2. \A q \in Record : q.index \in Nat /\ q.tx \in 0..MaxTx
  BY DEF Record
<1> QED
  BY <1>1, <1>2 DEF Follows

\* A start: the transaction has begun.
LEMMA AfterStart ==
    ASSUME NEW U, NEW r, Follows(U, r), r.op = "start"
    PROVE  /\ Begun(U \cup {r}) = Begun(U) \cup {r.tx}
           /\ Live(U \cup {r}) = Live(U) /\ Kept(U \cup {r}) = Kept(U)
<1> DEFINE V == U \cup {r}
<1>1. Marks(V) = Marks(U) /\ InForce(V, r) /\ \A q \in U : InForce(V, q) = InForce(U, q)
  BY FollowsOrder DEF Marks, InForce
<1>2. \A t : ~ CommitOf(r, t) /\ (StartOf(r, t) <=> t = r.tx)
  BY DEF CommitOf, StartOf
<1>3. \A q \in U : q.index < r.index /\ ~ (r.index < q.index)
  BY FollowsOrder
<1>4. r.tx \in 0..MaxTx
  BY FollowsOrder
<1>5. Kept(V) = Kept(U)
  BY <1>1 DEF Kept
<1>6. Begun(V) = Begun(U) \cup {r.tx}
  <2> HIDE DEF V
  <2>1. V = U \cup {r}
    BY DEF V
  <2> QED
    BY <1>1, <1>2, <1>3, <1>4, <2>1 DEF Begun
<1>7. Live(V) = Live(U)
  <2> HIDE DEF V
  <2>1. V = U \cup {r}
    BY DEF V
  <2>2. ASSUME NEW t \in Tx, t \in Live(V) PROVE t \in Live(U)
    <3>1. PICK s \in V, k \in V : /\ StartOf(s, t) /\ CommitOf(k, t)
                                  /\ s.index < k.index /\ InForce(V, s)
      BY <2>2 DEF Live
    <3>2. k \in U
      BY <1>2, <2>1, <3>1
    <3>3. s \in U
      BY <1>3, <2>1, <3>1, <3>2
    <3> QED
      BY <1>1, <3>1, <3>2, <3>3 DEF Live
  <2>3. ASSUME NEW t \in Tx, t \in Live(U) PROVE t \in Live(V)
    BY <1>1, <2>1, <2>3 DEF Live
  <2> QED
    BY <2>2, <2>3 DEF Live
<1> QED
  BY <1>5, <1>6, <1>7

\* A commit: the transaction is committed if it had begun.
LEMMA AfterCommit ==
    ASSUME NEW U, NEW r, Follows(U, r), r.op = "commit"
    PROVE  /\ Begun(U \cup {r}) = Begun(U) \ {r.tx}
           /\ Live(U \cup {r}) = IF r.tx \in Begun(U) THEN Live(U) \cup {r.tx} ELSE Live(U)
           /\ Kept(U \cup {r}) = Kept(U)
<1> DEFINE V == U \cup {r}
<1>1. Marks(V) = Marks(U) /\ \A q \in U : InForce(V, q) = InForce(U, q)
  BY FollowsOrder DEF Marks, InForce
<1>2. \A t : ~ StartOf(r, t) /\ (CommitOf(r, t) <=> t = r.tx)
  BY DEF CommitOf, StartOf
<1>3. \A q \in U : q.index < r.index /\ ~ (r.index < q.index)
  BY FollowsOrder
<1>4. r.tx \in Tx /\ r.tx \in 0..MaxTx
  BY FollowsOrder, BoundsNatural DEF Follows, Tx
<1>5. Kept(V) = Kept(U)
  BY <1>1 DEF Kept
<1>6. Begun(V) = Begun(U) \ {r.tx}
  BY <1>1, <1>2, <1>3 DEF Begun
<1>7. ASSUME NEW s \in U, StartOf(s, r.tx), InForce(U, s), r.tx \notin Begun(U)
      PROVE  r.tx \in Live(U)
  <2>1. PICK k \in U : CommitOf(k, r.tx) /\ ~ (k.index < s.index)
    BY <1>4, <1>7 DEF Begun
  <2>2. k # s
    BY <1>7, <2>1 DEF StartOf, CommitOf
  <2>3. k.index \in Nat /\ s.index \in Nat
    BY <1>7, FollowsOrder
  <2>4. CASE s.index < k.index
    BY <1>4, <1>7, <2>1, <2>4 DEF Live
  <2>5. CASE s.index = k.index
    BY <1>7, <2>1, <2>2, <2>5 DEF Follows
  <2> QED
    BY <2>1, <2>3, <2>4, <2>5
<1>8. Live(V) = IF r.tx \in Begun(U) THEN Live(U) \cup {r.tx} ELSE Live(U)
  <2> HIDE DEF V
  <2>1. V = U \cup {r}
    BY DEF V
  <2>2. ASSUME NEW t \in Tx, t \in Live(V), t \notin Live(U) PROVE t = r.tx /\ t \in Begun(U)
    <3>1. PICK s \in V, k \in V : /\ StartOf(s, t) /\ CommitOf(k, t)
                                  /\ s.index < k.index /\ InForce(V, s)
      BY <2>2 DEF Live
    <3>2. s \in U
      BY <1>2, <2>1, <3>1
    <3>3. k = r
      BY <1>1, <2>1, <2>2, <3>1, <3>2 DEF Live
    <3> QED
      BY <1>1, <1>2, <1>7, <2>2, <3>1, <3>2, <3>3
  <2>3. ASSUME NEW t \in Tx, t \in Live(U) PROVE t \in Live(V)
    BY <1>1, <2>1, <2>3 DEF Live
  <2>4. ASSUME r.tx \in Begun(U) PROVE r.tx \in Live(V)
    <3>1. PICK s \in U : StartOf(s, r.tx) /\ InForce(U, s)
      BY <2>4 DEF Begun
    <3> QED
      BY <1>1, <1>2, <1>3, <1>4, <2>1, <3>1 DEF Live
  <2>5. Live(U) \subseteq Tx /\ Live(V) \subseteq Tx
    BY DEF Live
  <2> QED
    BY <2>2, <2>3, <2>4, <2>5
<1> QED
  BY <1>5, <1>6, <1>8

\* A checkpoint: no transaction is left, and the inserts below its index are gone.
LEMMA AfterCheckpoint ==
    ASSUME NEW U, NEW r, Follows(U, r), r.op = "checkpoint"
    PROVE  /\ Begun(U \cup {r}) = {} /\ Live(U \cup {r}) = {}
           /\ Kept(U \cup {r}) = {e \in Kept(U) : e.index >= r.n}
<1> DEFINE V == U \cup {r}
<1>1. \A q \in V : ~ InForce(V, q)
  BY FollowsOrder DEF Marks, InForce
<1>2. Begun(V) = {} /\ Live(V) = {}
  <2> HIDE DEF V
  <2> QED
    BY <1>1 DEF Begun, Live
<1>3. Marks(V) = Marks(U) \cup {r}
  BY DEF Marks
<1>4. \A q \in U : q.index < r.index /\ q.index \in Nat
  BY FollowsOrder
<1>5. r.n \in Nat
  BY DEF Follows, Record
<1>6. Kept(V) = {e \in Kept(U) : e.index >= r.n}
  BY <1>3, <1>4, <1>5 DEF Kept
<1> QED
  BY <1>2, <1>6

\* An insert.
LEMMA AfterInsert ==
    ASSUME NEW U, NEW r, Follows(U, r), r.op = "insert"
    PROVE  /\ Begun(U \cup {r}) = Begun(U) /\ Live(U \cup {r}) = Live(U)
           /\ Kept(U \cup {r}) = Kept(U) \cup {r}
<1> DEFINE V == U \cup {r}
<1>1. Marks(V) = Marks(U) /\ \A q \in U : InForce(V, q) = InForce(U, q)
  BY DEF Marks, InForce
<1>2. \A t : ~ StartOf(r, t) /\ ~ CommitOf(r, t)
  BY DEF CommitOf, StartOf
<1>3. \A m \in Marks(V) : ~ (r.index < m.index)
  BY <1>1, FollowsOrder DEF Marks
<1>4. Kept(V) = Kept(U) \cup {r}
  BY <1>1, <1>3 DEF Kept
<1>5. Begun(V) = Begun(U)
  BY <1>1, <1>2 DEF Begun
<1>6. Live(V) = Live(U)
  <2>1. \A t : \A q \in V : StartOf(q, t) \/ CommitOf(q, t) => q \in U
    BY <1>2
  <2> QED
    BY <1>1, <2>1 DEF Live
<1> QED
  BY <1>4, <1>5, <1>6

\* One turn of the loop takes the state of a set of records to that of the set with
\* the next record.
LEMMA OneTurn ==
    ASSUME NEW U, NEW r, Follows(U, r)
    PROVE  StateOf(U \cup {r}) = ReplayRecord(StateOf(U), r)
<1>1. r.op \in Operations
  BY DEF Follows, Record
<1>2. CASE r.op = "start"
  BY <1>2, AfterStart DEF StateOf, ReplayRecord
<1>3. CASE r.op = "commit"
  BY <1>3, AfterCommit DEF StateOf, ReplayRecord
<1>4. CASE r.op = "checkpoint"
  BY <1>4, AfterCheckpoint DEF StateOf, ReplayRecord
<1>5. CASE r.op = "insert"
  BY <1>5, AfterInsert DEF StateOf, ReplayRecord
<1> QED
  BY <1>1, <1>2, <1>3, <1>4, <1>5 DEF Operations

------------------------------------------------------------------------------
(* The loop.                                                               *)

Empty == [started |-> {}, committed |-> {}, inserts |-> {}]
Positions(R) == {0} \cup Indexes(R)
Before(R, i) == {j \in {0} \cup Indexes(R) : j < i}
Top(S) == CHOOSE j \in S : \A k \in S : k <= j
At(R, i) == CHOOSE r \in R : r.index = i
Upto(R, i) == {r \in R : r.index <= i}

\* What Replayed defines in its LET.
Loop(R) ==
    CHOOSE f : f = [i \in {0} \cup Indexes(R) |->
        IF i = 0 THEN Empty ELSE ReplayRecord(f[Top(Before(R, i))], At(R, i))]
Newest(R) == CHOOSE j \in {0} \cup Indexes(R) : \A k \in Indexes(R) : k <= j

LEMMA ReplayedIsLoop ==
    ASSUME NEW disk
    PROVE  LET R == RecordsOn(disk) IN
           Replayed(disk) = {r \in Loop(R)[Newest(R)].inserts : r.tx \in Loop(R)[Newest(R)].committed}
BY DEF Replayed, Loop, Empty, Before, Top, At, Newest, Indexes

LEMMA LeastNat ==
    ASSUME NEW T, T \subseteq Nat, T # {}
    PROVE  \E x \in T : \A y \in T : x <= y
<1>1. \E x \in T : \A y \in T : ~ (<<y, x>> \in OpToRel(<, Nat))
  BY NatLessThanWellFounded, WFMin
<1>2. PICK x \in T : \A y \in T : ~ (<<y, x>> \in OpToRel(<, Nat))
  BY <1>1
<1>3. \A y \in T : ~ (y < x)
  BY <1>2 DEF OpToRel
<1> QED
  BY <1>3

LEMMA TopOf ==
    ASSUME NEW n \in Nat, NEW S, S \subseteq 0..n, S # {}
    PROVE  Top(S) \in S /\ \A k \in S : k <= Top(S)
<1> DEFINE T == {n - k : k \in S}
<1>1. T \subseteq Nat /\ T # {}
  <2>1. \A k \in 0..n : n - k \in Nat
    OBVIOUS
  <2> QED
    BY <2>1
<1>2. PICK x \in T : \A y \in T : x <= y
  BY <1>1, LeastNat
<1>3. PICK j \in S : x = n - j
  BY <1>2
<1>4. \A k \in S : n - k \in T
  OBVIOUS
<1>5. \A k \in S : k <= j
  <2> SUFFICES ASSUME NEW k \in S PROVE k <= j
    OBVIOUS
  <2>1. n - j <= n - k
    BY <1>2, <1>3, <1>4
  <2>2. j \in Nat /\ k \in Nat
    OBVIOUS
  <2> QED
    BY <2>1, <2>2
<1> QED
  BY <1>3, <1>5 DEF Top

LEMMA NothingRead ==
    StateOf({}) = Empty
BY DEF StateOf, Empty, Begun, Live, Kept

\* The records up to a position are those up to the one before and one more.
LEMMA NextRecord ==
    ASSUME NEW n \in Nat, NEW R, Indexed(R, n), NEW i \in Positions(R), i # 0
    PROVE  /\ Top(Before(R, i)) \in Positions(R) /\ Top(Before(R, i)) < i
           /\ Upto(R, i) = Upto(R, Top(Before(R, i))) \cup {At(R, i)}
           /\ Follows(Upto(R, Top(Before(R, i))), At(R, i))
<1> DEFINE j == Top(Before(R, i))
           r == At(R, i)
<1>1. Indexes(R) \subseteq 1..n /\ i \in 1..n
  BY DEF Indexed, Indexes, Positions
<1>2. j \in Before(R, i) /\ \A k \in Before(R, i) : k <= j
  <2>1. Before(R, i) \subseteq 0..n /\ 0 \in Before(R, i)
    BY <1>1 DEF Before
  <2> QED
    BY <2>1, TopOf
<1>3. j \in Positions(R) /\ j < i /\ j \in 0..n /\ \A k \in Indexes(R) : k < i => k <= j
  BY <1>1, <1>2 DEF Before, Positions
<1>4. r \in R /\ r.index = i
  BY DEF At, Positions, Indexes
<1>5. \A q \in R : q.index \in 1..n /\ q.index \in Indexes(R) /\ (q.index = i => q = r)
  BY <1>4 DEF Indexed, Indexes
<1> HIDE DEF j, r
<1>6. Upto(R, i) = Upto(R, j) \cup {r}
  <2>1. \A q \in R : q.index <= i <=> (q.index <= j \/ q = r)
    BY <1>1, <1>3, <1>4, <1>5
  <2> QED
    BY <1>4, <2>1 DEF Upto
<1>7. Follows(Upto(R, j), r)
  <2>1. \A q \in Upto(R, j) : q \in R /\ q.index < r.index
    BY <1>1, <1>3, <1>4, <1>5 DEF Upto
  <2> QED
    BY <1>4, <2>1 DEF Follows, Indexed
<1> QED
  BY <1>3, <1>6, <1>7 DEF j, r

\* The function the loop defines exists, and it is the state of what was read.
LEMMA LoopIsState ==
    ASSUME NEW n \in Nat, NEW R, Indexed(R, n), NEW i \in Positions(R)
    PROVE  Loop(R)[i] = StateOf(Upto(R, i))
<1> DEFINE Turn(f, k) == IF k = 0 THEN Empty
                         ELSE ReplayRecord(f[Top(Before(R, k))], At(R, k))
           g == [k \in Positions(R) |-> StateOf(Upto(R, k))]
           f == Loop(R)
<1>1. ASSUME NEW k \in Positions(R) PROVE g[k] = Turn(g, k)
  <2>1. CASE k = 0
    <3>1. \A r \in R : ~ (r.index <= 0)
      BY DEF Indexed
    <3>2. Upto(R, k) = {}
      BY <2>1, <3>1 DEF Upto
    <3> QED
      BY <2>1, <3>2, NothingRead
  <2>2. CASE k # 0
    BY <2>2, NextRecord, OneTurn
  <2> QED
    BY <2>1, <2>2
<1>2. g = [k \in Positions(R) |-> Turn(g, k)]
  <2> HIDE DEF Turn
  <2> QED
    BY <1>1
<1>3. f = [k \in Positions(R) |-> Turn(f, k)]
  BY <1>2 DEF Loop, Positions
<1>4. \A k \in Positions(R) : f[k] = Turn(f, k)
  <2> HIDE DEF Turn, f
  <2> QED
    BY <1>3
<1> DEFINE T == {k \in Positions(R) : f[k] # g[k]}
<1>5. Positions(R) \subseteq Nat
  BY DEF Positions, Indexes, Indexed
<1>6. T = {}
  <2> SUFFICES ASSUME T # {} PROVE FALSE
    OBVIOUS
  <2>1. T \subseteq Nat
    BY <1>5
  <2>2. PICK k \in T : \A m \in T : k <= m
    BY <2>1, LeastNat
  <2>3. k # 0
    BY <1>1, <1>4, <2>2
  <2> DEFINE m == Top(Before(R, k))
  <2>4. m \in Positions(R) /\ m < k
    BY <2>2, <2>3, NextRecord
  <2>5. k \in Nat /\ m \in Nat
    BY <1>5, <2>2, <2>4
  <2>6. m \notin T
    BY <2>2, <2>4, <2>5
  <2>7. f[m] = g[m]
    BY <2>4, <2>6
  <2>8. Turn(f, k) = Turn(g, k)
    BY <2>3, <2>7
  <2> QED
    BY <1>1, <1>4, <2>2, <2>8
<1> QED
  BY <1>6

\* Replay returns the inserts of committed transactions that no checkpoint covers.
LEMMA ReplayedSet ==
    ASSUME NEW n \in Nat, NEW disk, Indexed(RecordsOn(disk), n)
    PROVE  Replayed(disk) = {r \in Kept(RecordsOn(disk)) : r.tx \in Live(RecordsOn(disk))}
<1> DEFINE R == RecordsOn(disk)
<1>1. Indexes(R) \subseteq 1..n /\ Positions(R) \subseteq 0..n
  BY DEF Indexed, Indexes, Positions
<1>2. Newest(R) \in Positions(R) /\ \A k \in Indexes(R) : k <= Newest(R)
  <2>1. Top(Positions(R)) \in Positions(R) /\ \A k \in Indexes(R) : k <= Top(Positions(R))
    BY <1>1, TopOf DEF Positions
  <2> QED
    BY <2>1 DEF Newest, Positions
<1>3. Upto(R, Newest(R)) = R
  BY <1>2 DEF Upto, Indexes
<1>4. Loop(R)[Newest(R)] = StateOf(R)
  BY <1>2, <1>3, LoopIsState
<1> QED
  BY <1>4, ReplayedIsLoop DEF StateOf

LEMMA ReferenceSet ==
    ASSUME NEW disk
    PROVE  ReplayReference(disk)
             = {r \in Kept(RecordsOn(disk)) : r.tx \in Live(RecordsOn(disk))}
BY DEF ReplayReference, Kept, Live, Marks, InForce, StartOf, CommitOf

------------------------------------------------------------------------------
(* The records of a transaction on their way: the Start is the 0th, the     *)
(* inserts follow by their ordinals.                                        *)

Of(R, t) == {r \in R : r.tx = t}
IsNth(r, n) == \/ n = 0 /\ r.op = "start"
               \/ n > 0 /\ r.op = "insert" /\ r.n = n

\* s holds the records a to b - 1 in order, and after them a commit or nothing.  When a
\* commit is there the first k inserts are before it.
Run(s, a, b, k) ==
    /\ a <= b /\ Len(s) \in {b - a, b - a + 1}
    /\ \A i \in 1..(b - a) : IsNth(s[i], a + i - 1)
    /\ Len(s) = b - a + 1 => s[Len(s)].op = "commit" /\ k \in 0..(b - 1)

\* R holds the first w records in the order of their indexes, and commits.
FileRun(R, w, k) ==
    /\ \A r \in R : \/ \E n \in 0..(w - 1) : IsNth(r, n)
                    \/ /\ r.op = "commit" /\ k \in 0..(w - 1)
                       /\ \E s \in R : IsNth(s, k) /\ s.index < r.index
    /\ \A n \in 0..(w - 1) : \E r \in R : IsNth(r, n)
    /\ \A r, s \in R : \A n, m \in 0..(w - 1) :
         IsNth(r, n) /\ IsNth(s, m) => (n < m => r.index < s.index) /\ (n = m => r = s)

LEMMA NthIsOne ==
    ASSUME NEW r, NEW n \in Nat, NEW m \in Nat, IsNth(r, n), IsNth(r, m)
    PROVE  n = m /\ r.op # "commit"
BY DEF IsNth

LEMMA RunNone ==
    ASSUME NEW a \in Nat, NEW b \in Nat, NEW k
    PROVE  Run(<<>>, a, b, k) <=> a = b
<1>1. Len(<<>>) = 0
  OBVIOUS
<1>2. a = b => \A i \in 1..(b - a) : FALSE
  OBVIOUS
<1>3. a = b => Run(<<>>, a, b, k)
  BY <1>1, <1>2 DEF Run
<1>4. a <= b /\ 0 \in {b - a, b - a + 1} => a = b
  OBVIOUS
<1> QED
  BY <1>1, <1>3, <1>4 DEF Run

\* Before the commit is asked for there is none.
LEMMA RunUnasked ==
    ASSUME NEW s, NEW a, NEW b, NEW k, Run(s, a, b, -1)
    PROVE  Run(s, a, b, k)
BY DEF Run

\* Without a commit the length tells what is there.
LEMMA RunPlain ==
    ASSUME NEW s \in Seq(Record), NEW a \in Nat, NEW b \in Nat, NEW k, Run(s, a, b, k),
           \A i \in DOMAIN s : s[i].op # "commit"
    PROVE  Len(s) = b - a
<1>1. ASSUME Len(s) = b - a + 1 PROVE FALSE
  <2>1. Len(s) \in DOMAIN s
    BY <1>1 DEF Run
  <2> QED
    BY <1>1, <2>1 DEF Run
<1> QED
  BY <1>1 DEF Run

\* A commit is the last record.
LEMMA RunLast ==
    ASSUME NEW s \in Seq(Record), NEW a \in Nat, NEW b \in Nat, NEW k, Run(s, a, b, k),
           NEW i \in DOMAIN s, s[i].op = "commit"
    PROVE  i = Len(s)
<1>1. i \in 1..Len(s) /\ Len(s) \in Nat
  OBVIOUS
<1>2. i \notin 1..(b - a)
  BY DEF Run, IsNth
<1> QED
  BY <1>1, <1>2 DEF Run

LEMMA RunInsert ==
    ASSUME NEW s \in Seq(Record), NEW a \in Nat, NEW b \in Nat, NEW k, Run(s, a, b, k),
           Len(s) = b - a, NEW r \in Record, IsNth(r, b)
    PROVE  Run(Append(s, r), a, b + 1, k)
<1> DEFINE u == Append(s, r)
<1>1. Len(u) = b + 1 - a /\ u[b - a + 1] = r /\ \A i \in 1..(b - a) : u[i] = s[i]
  OBVIOUS
<1>2. a <= b
  BY DEF Run
<1>3. ASSUME NEW i \in 1..(b + 1 - a) PROVE IsNth(u[i], a + i - 1)
  <2>1. CASE i \in 1..(b - a)
    BY <1>1, <2>1 DEF Run
  <2>2. CASE i = b - a + 1
    <3>1. a + i - 1 = b
      BY <2>2
    <3> QED
      BY <1>1, <2>2, <3>1
  <2> QED
    BY <1>3, <2>1, <2>2
<1> HIDE DEF u
<1>4. Run(u, a, b + 1, k)
  BY <1>1, <1>2, <1>3 DEF Run
<1> QED
  BY <1>4 DEF u

LEMMA RunCommit ==
    ASSUME NEW s \in Seq(Record), NEW a \in Nat, NEW b \in Nat, NEW k \in 0..(b - 1),
           Run(s, a, b, k), Len(s) = b - a, NEW r \in Record, r.op = "commit"
    PROVE  Run(Append(s, r), a, b, k)
<1> DEFINE u == Append(s, r)
<1>1. Len(u) = b - a + 1 /\ u[b - a + 1] = r /\ \A i \in 1..(b - a) : u[i] = s[i]
  OBVIOUS
<1>2. a <= b /\ \A i \in 1..(b - a) : IsNth(u[i], a + i - 1)
  BY <1>1 DEF Run
<1> HIDE DEF u
<1>3. Run(u, a, b, k)
  BY <1>1, <1>2 DEF Run
<1> QED
  BY <1>3 DEF u

\* The first record is the next one, or the commit and nothing else.
LEMMA RunHead ==
    ASSUME NEW s \in Seq(Record), NEW a \in Nat, NEW b \in Nat, NEW k, Run(s, a, b, k),
           s # <<>>
    PROVE  \/ IsNth(Head(s), a) /\ a + 1 <= b /\ Run(Tail(s), a + 1, b, k)
           \/ Head(s).op = "commit" /\ a = b /\ k \in 0..(b - 1) /\ Tail(s) = <<>>
<1> DEFINE u == Tail(s)
<1>1. /\ Len(s) \in Nat /\ Len(s) > 0 /\ Head(s) = s[1] /\ u \in Seq(Record)
      /\ Len(u) = Len(s) - 1 /\ \A i \in 1..Len(u) : u[i] = s[i + 1]
  OBVIOUS
<1>2. a <= b /\ (Len(s) = b - a \/ Len(s) = b - a + 1)
  BY DEF Run
<1>3. CASE a = b
  <2>1. Len(s) = 1 /\ Len(u) = 0
    BY <1>1, <1>2, <1>3
  <2>2. u = <<>>
    BY <1>1, <2>1, EmptySeq
  <2> QED
    BY <1>1, <1>3, <2>1, <2>2 DEF Run
<1>4. CASE a # b
  <2>1. a + 1 <= b /\ 1 \in 1..(b - a)
    BY <1>2, <1>4
  <2>2. IsNth(s[1], a + 1 - 1)
    BY <2>1 DEF Run
  <2>3. IsNth(Head(s), a)
    BY <1>1, <2>2
  <2>4. ASSUME NEW i \in 1..(b - (a + 1)) PROVE IsNth(u[i], (a + 1) + i - 1)
    <3>1. i + 1 \in 1..(b - a) /\ i \in 1..Len(u) /\ (a + 1) + i - 1 = a + (i + 1) - 1
      BY <1>1, <1>2
    <3>2. IsNth(s[i + 1], a + (i + 1) - 1)
      BY <3>1 DEF Run
    <3> QED
      BY <1>1, <3>1, <3>2
  <2>5. Len(u) = b - (a + 1) \/ Len(u) = b - (a + 1) + 1
    BY <1>1, <1>2
  <2>6. ASSUME Len(u) = b - (a + 1) + 1
        PROVE  u[Len(u)].op = "commit" /\ k \in 0..(b - 1)
    <3>1. Len(s) = b - a + 1 /\ Len(u) + 1 = Len(s) /\ Len(u) \in 1..Len(u)
      BY <1>1, <2>1, <2>6
    <3>2. s[Len(s)].op = "commit" /\ k \in 0..(b - 1)
      BY <3>1 DEF Run
    <3> QED
      BY <1>1, <3>1, <3>2
  <2> HIDE DEF u
  <2>7. Run(u, a + 1, b, k)
    BY <2>1, <2>4, <2>5, <2>6 DEF Run
  <2> QED
    BY <2>1, <2>3, <2>7 DEF u
<1> QED
  BY <1>3, <1>4

\* The next record reaches the file after all others.
LEMMA FileInsert ==
    ASSUME NEW R, NEW w \in Nat, NEW k, FileRun(R, w, k), NEW r, IsNth(r, w),
           \A q \in R : q.index \in Nat /\ q.index < r.index, r.index \in Nat
    PROVE  FileRun(R \cup {r}, w + 1, k)
<1> DEFINE S == R \cup {r}
<1>1. 0..(w + 1 - 1) = 0..(w - 1) \cup {w}
  OBVIOUS
<1>2. ASSUME NEW q \in R, NEW n \in 0..w, IsNth(q, n) PROVE n \in 0..(w - 1)
  <2>1. q.op # "commit"
    BY <1>2, NthIsOne
  <2>2. PICK m \in 0..(w - 1) : IsNth(q, m)
    BY <2>1 DEF FileRun
  <2>3. n = m
    BY <1>2, <2>2, NthIsOne
  <2> QED
    BY <2>3
<1>3. \A n \in 0..w : IsNth(r, n) => n = w
  BY NthIsOne
<1>4. r \notin R
  OBVIOUS
<1>5. ASSUME NEW p \in S, NEW q \in S, NEW n \in 0..w, NEW m \in 0..w, IsNth(p, n), IsNth(q, m)
      PROVE  (n < m => p.index < q.index) /\ (n = m => p = q)
  <2>1. CASE p \in R /\ q \in R
    BY <1>2, <1>5, <2>1 DEF FileRun
  <2>2. CASE p = r /\ q = r
    BY <1>3, <1>5, <2>2
  <2>3. CASE p \in R /\ q = r
    <3>1. m = w /\ n \in 0..(w - 1)
      BY <1>2, <1>3, <1>5, <2>3
    <3> QED
      BY <2>3, <3>1
  <2>4. CASE p = r /\ q \in R
    <3>1. n = w /\ m \in 0..(w - 1)
      BY <1>2, <1>3, <1>5, <2>4
    <3> QED
      BY <3>1
  <2> QED
    BY <2>1, <2>2, <2>3, <2>4
<1>6. \A n \in 0..(w + 1 - 1) : \E q \in S : IsNth(q, n)
  BY <1>1 DEF FileRun
<1>7. ASSUME NEW q \in S
      PROVE  \/ \E n \in 0..(w + 1 - 1) : IsNth(q, n)
             \/ /\ q.op = "commit" /\ k \in 0..(w + 1 - 1)
                /\ \E s \in S : IsNth(s, k) /\ s.index < q.index
  BY <1>1 DEF FileRun
<1> HIDE DEF S
<1>8. FileRun(S, w + 1, k)
  BY <1>1, <1>5, <1>6, <1>7 DEF FileRun
<1> QED
  BY <1>8 DEF S

LEMMA FileCommit ==
    ASSUME NEW R, NEW w \in Nat, NEW k \in 0..(w - 1), FileRun(R, w, k), NEW r,
           r.op = "commit", \A q \in R : q.index \in Nat /\ q.index < r.index, r.index \in Nat
    PROVE  FileRun(R \cup {r}, w, k)
<1>1. \A n \in 0..(w - 1) : ~ IsNth(r, n)
  BY DEF IsNth
<1>2. PICK s \in R : IsNth(s, k)
  BY DEF FileRun
<1>3. s.index < r.index
  OBVIOUS
<1> QED
  BY <1>1, <1>2, <1>3 DEF FileRun

LEMMA FileUnasked ==
    ASSUME NEW R, NEW w, NEW k, FileRun(R, w, -1)
    PROVE  FileRun(R, w, k)
<1>1. -1 \notin 0..(w - 1)
  OBVIOUS
<1> QED
  BY <1>1 DEF FileRun

------------------------------------------------------------------------------
(* The invariants.                                                         *)

\* The records of t without a gap from the file over the batch, the requests in the
\* channel and the client that took them to the buffer: each starts where the one before
\* it ends, and a running transaction has made no insert that is not there.
Taken(t, a, h) ==
    IF \E c \in Clients : hand[c][t] # <<>>
    THEN \A c \in Clients : hand[c][t] # <<>> => Run(hand[c][t], a, h, asked[t])
    ELSE h = a
Chained(t, w, q, h, e) ==
    /\ FileRun(Of(Written, t), w, asked[t])
    /\ Run(batch[t], w, q[0], asked[t])
    /\ \A k \in 1..Len(ioq) : Run(ioq[k].records[t], q[k - 1], q[k], asked[t])
    /\ Taken(t, q[Len(ioq)], h)
    /\ Run(logs[t], h, e, asked[t])
    /\ e <= writes[t] + 1 /\ ((\E c \in Clients : tx[c] = t) => e = writes[t] + 1)
Chain(t) == \E w, h, e \in Nat : \E q \in [0..Len(ioq) -> Nat] : Chained(t, w, q, h, e)
OneHand(t) == \A c, d \in Clients : hand[c][t] # <<>> /\ hand[d][t] # <<>> => c = d
ChainInv == \A t \in Tx \ exposed : OneHand(t) /\ Chain(t)

\* Where no records are, and the commit is not asked for before its inserts are made.
EmptyInv ==
    /\ ioPc = "recv" => \A t \in Tx : batch[t] = <<>>
    /\ \A c \in Clients : pc[c] # "send" => \A t \in Tx : hand[c][t] = <<>>
    /\ \A t \in Tx : asked[t] \in -1..writes[t]

\* k is the last record of t, a commit.
Closes(k, t) == CommitOf(k, t) /\ \A r \in Of(Written, t) : r.index <= k.index

\* The transaction whose commit is under way has nothing behind its commit.
Asking(c, t) ==
    /\ logs[t] = <<>> /\ \A d \in Clients : d # c => hand[d][t] = <<>>
    /\ \A k \in DOMAIN ioq : ioq[k].from = c =>
         \A l \in DOMAIN ioq : l > k => ioq[l].records[t] = <<>>
    /\ ioPc # "recv" /\ ioFrom = c =>
         /\ \A l \in DOMAIN ioq : ioq[l].records[t] = <<>>
         /\ IF batch[t] = <<>> THEN \E k \in Written : Closes(k, t)
            ELSE batch[t][Len(batch[t])].op = "commit"
AskInv ==
    \A c \in Clients, t \in Tx \ exposed :
        Committing(c, t) /\ pc[c] \in {"send", "await"} => Asking(c, t)

\* What was acknowledged is on disk and complete, and nothing is left of it elsewhere.
Silent(t) == /\ logs[t] = <<>> /\ \A c \in Clients : hand[c][t] = <<>>
             /\ \A k \in DOMAIN ioq : ioq[k].records[t] = <<>>
             /\ batch[t] = <<>>
Durable(t) ==
    /\ Silent(t) /\ FileRun(Of(Written, t), writes[t] + 1, asked[t])
    /\ \E k \in RecordsOn(wal) : Closes(k, t)
    /\ t <= lastTx /\ \A c \in Clients : tx[c] # t
DoneInv == \A t \in acked \ exposed : Durable(t)

PipelineInv == EmptyInv /\ ChainInv /\ AskInv /\ DoneInv

------------------------------------------------------------------------------
(* The chain.                                                              *)

\* The ends of the parts are in order, and meet where the parts are empty.
LEMMA QueueOrder ==
    ASSUME TypeOK, NEW t, NEW q \in [0..Len(ioq) -> Nat],
           \A k \in 1..Len(ioq) : Run(ioq[k].records[t], q[k - 1], q[k], asked[t])
    PROVE  /\ q[0] <= q[Len(ioq)]
           /\ (\A k \in DOMAIN ioq : ioq[k].records[t] = <<>>) => q[0] = q[Len(ioq)]
<1>0. Len(ioq) \in Nat /\ DOMAIN ioq = 1..Len(ioq)
  BY DEF TypeOK
<1>1. \A k \in 1..Len(ioq) : q[k - 1] <= q[k]
  BY DEF Run
<1>2. \A k \in 0..Len(ioq) : q[0] <= q[k]
  <2> DEFINE T == {k \in 0..Len(ioq) : ~ (q[0] <= q[k])}
  <2> SUFFICES ASSUME T # {} PROVE FALSE
    OBVIOUS
  <2>0. T \subseteq Nat
    OBVIOUS
  <2>1. PICK k \in T : \A m \in T : k <= m
    BY <2>0, LeastNat
  <2>2. k # 0
    BY <2>1
  <2>3. k - 1 \in 0..Len(ioq) /\ ~ (k <= k - 1) /\ k \in 1..Len(ioq)
    BY <2>2
  <2>4. q[0] <= q[k - 1]
    BY <2>1, <2>3
  <2>5. q[k - 1] <= q[k] /\ q[0] \in Nat /\ q[k - 1] \in Nat /\ q[k] \in Nat
    BY <1>1, <2>3
  <2> QED
    BY <2>1, <2>4, <2>5
<1>3. ASSUME \A k \in DOMAIN ioq : ioq[k].records[t] = <<>>
      PROVE  \A k \in 0..Len(ioq) : q[k] = q[0]
  <2> DEFINE T == {k \in 0..Len(ioq) : q[k] # q[0]}
  <2> SUFFICES ASSUME T # {} PROVE FALSE
    OBVIOUS
  <2>0. T \subseteq Nat
    OBVIOUS
  <2>1. PICK k \in T : \A m \in T : k <= m
    BY <2>0, LeastNat
  <2>2. k # 0
    BY <2>1
  <2>3. k - 1 \in 0..Len(ioq) /\ ~ (k <= k - 1) /\ k \in 1..Len(ioq)
    BY <2>2
  <2>4. q[k - 1] = q[0] /\ q[k - 1] \in Nat /\ q[k] \in Nat
    BY <2>1, <2>3
  <2>5. ioq[k].records[t] = <<>>
    BY <1>0, <1>3, <2>3
  <2>6. Run(<<>>, q[k - 1], q[k], asked[t])
    BY <2>3, <2>5
  <2> QED
    BY <2>1, <2>4, <2>6, RunNone
<1> QED
  BY <1>2, <1>3

LEMMA ChainOrder ==
    ASSUME TypeOK, NEW t \in Tx, NEW w \in Nat, NEW h \in Nat, NEW e \in Nat,
           NEW q \in [0..Len(ioq) -> Nat], Chained(t, w, q, h, e)
    PROVE  w <= e /\ (Silent(t) => w = e)
<1>1. Len(ioq) \in Nat /\ q[0] \in Nat /\ q[Len(ioq)] \in Nat
  <2>1. Len(ioq) \in Nat
    BY DEF TypeOK
  <2> QED
    BY <2>1
<1>2. /\ q[0] <= q[Len(ioq)]
      /\ (\A k \in DOMAIN ioq : ioq[k].records[t] = <<>>) => q[0] = q[Len(ioq)]
  BY QueueOrder DEF Chained
<1>3. w <= q[0] /\ (batch[t] = <<>> => w = q[0])
  BY <1>1, RunNone DEF Chained, Run
<1>4. h <= e /\ (logs[t] = <<>> => h = e)
  BY <1>1, RunNone DEF Chained, Run
<1>5. q[Len(ioq)] <= h /\ ((\A c \in Clients : hand[c][t] = <<>>) => q[Len(ioq)] = h)
  <2>1. CASE \E c \in Clients : hand[c][t] # <<>>
    BY <1>1, <2>1 DEF Chained, Taken, Run
  <2>2. CASE ~ \E c \in Clients : hand[c][t] # <<>>
    BY <1>1, <2>2 DEF Chained, Taken
  <2> QED
    BY <2>1, <2>2
<1> QED
  BY <1>1, <1>2, <1>3, <1>4, <1>5 DEF Silent

\* Nothing of t moved.
LEMMA ChainStays ==
    ASSUME NEW t \in Tx, Chain(t), OneHand(t), Of(Written, t)' = Of(Written, t),
           batch'[t] = batch[t], ioq' = ioq, logs'[t] = logs[t], writes'[t] = writes[t],
           asked'[t] = asked[t], \A c \in Clients : hand'[c][t] = hand[c][t],
           (\E c \in Clients : tx'[c] = t) => \E c \in Clients : tx[c] = t
    PROVE  Chain(t)' /\ OneHand(t)'
<1>1. PICK w \in Nat, h \in Nat, e \in Nat, q \in [0..Len(ioq) -> Nat] : Chained(t, w, q, h, e)
  BY DEF Chain
<1>2. Taken(t, q[Len(ioq)], h)'
  BY <1>1 DEF Chained, Taken
<1>3. Chained(t, w, q, h, e)'
  BY <1>1, <1>2 DEF Chained
<1>4. OneHand(t)'
  BY DEF OneHand
<1> QED
  BY <1>3, <1>4 DEF Chain

\* A request enters the channel, with the records of t that a client had taken, or none.
LEMMA ChainSent ==
    ASSUME TypeOK, NEW t \in Tx, Chain(t), OneHand(t), Of(Written, t)' = Of(Written, t),
           batch'[t] = batch[t], logs'[t] = logs[t], writes'[t] = writes[t],
           asked'[t] = asked[t], tx' = tx, NEW r, ioq' = Append(ioq, r),
           \/ r.records[t] = <<>> /\ \A c \in Clients : hand'[c][t] = hand[c][t]
           \/ \E c \in Clients : /\ r.records[t] = hand[c][t] /\ hand'[c][t] = <<>>
                                 /\ \A d \in Clients : d # c => hand'[d][t] = hand[d][t]
    PROVE  Chain(t)' /\ OneHand(t)'
<1>1. PICK w \in Nat, h \in Nat, e \in Nat, q \in [0..Len(ioq) -> Nat] : Chained(t, w, q, h, e)
  BY DEF Chain
<1>0. PICK n : n = Len(ioq)
  OBVIOUS
<1>a. PICK last : last = IF r.records[t] = <<>> THEN q[n] ELSE h
  OBVIOUS
<1>b. PICK p : p = [k \in 0..(n + 1) |-> IF k = n + 1 THEN last ELSE q[k]]
  OBVIOUS
<1>2. /\ n = Len(ioq) /\ n \in Nat /\ Len(ioq') = n + 1 /\ ioq'[n + 1] = r
      /\ \A k \in 1..n : ioq'[k] = ioq[k]
  BY <1>0 DEF TypeOK
<1>3. last \in Nat /\ q[n] \in Nat /\ p \in [0..Len(ioq') -> Nat]
  BY <1>1, <1>2, <1>a, <1>b
<1>4. p[0] = q[0] /\ p[n + 1] = last /\ \A k \in 1..n : p[k] = q[k] /\ p[k - 1] = q[k - 1]
  BY <1>2, <1>b
<1>5. p[n] = q[n]
  BY <1>2, <1>b
<1>6. Run(r.records[t], q[n], last, asked[t])
  <2>1. CASE r.records[t] = <<>>
    BY <1>3, <1>a, <2>1, RunNone
  <2>2. CASE r.records[t] # <<>>
    BY <1>1, <1>2, <1>a, <2>2 DEF Chained, Taken
  <2> QED
    BY <2>1, <2>2
<1>7. \A k \in 1..Len(ioq') : Run(ioq'[k].records[t], p[k - 1], p[k], asked'[t])
  <2> SUFFICES ASSUME NEW k \in 1..(n + 1)
               PROVE  Run(ioq'[k].records[t], p[k - 1], p[k], asked[t])
    BY <1>2
  <2>1. CASE k = n + 1
    <3>1. k - 1 = n
      BY <1>2, <2>1
    <3> QED
      BY <1>2, <1>4, <1>5, <1>6, <2>1, <3>1
  <2>2. CASE k \in 1..n
    BY <1>1, <1>2, <1>4, <2>2 DEF Chained
  <2> QED
    BY <1>2, <2>1, <2>2
<1>8. OneHand(t)'
  BY DEF OneHand
<1>9. Taken(t, last, h)'
  <2>1. CASE r.records[t] = <<>>
    <3>1. \A c \in Clients : hand'[c][t] = hand[c][t]
      BY <2>1
    <3> QED
      BY <1>1, <1>2, <1>a, <2>1, <3>1 DEF Chained, Taken
  <2>2. CASE r.records[t] # <<>>
    <3>1. \A c \in Clients : hand'[c][t] = <<>>
      BY <2>2 DEF OneHand
    <3> QED
      BY <1>a, <2>2, <3>1 DEF Taken
  <2> QED
    BY <2>1, <2>2
<1>10. /\ FileRun(Of(Written, t), w, asked[t])' /\ Run(batch[t], w, p[0], asked[t])'
       /\ Run(logs[t], h, e, asked[t])'
       /\ e <= writes'[t] + 1 /\ ((\E c \in Clients : tx'[c] = t) => e = writes'[t] + 1)
  BY <1>1, <1>4 DEF Chained
<1>11. Taken(t, p[Len(ioq)], h)'
  BY <1>2, <1>4, <1>9
<1>12. Chained(t, w, p, h, e)'
  BY <1>7, <1>10, <1>11 DEF Chained
<1> QED
  BY <1>3, <1>8, <1>12 DEF Chain

\* The first request leaves the channel for the batch, which is empty.
LEMMA ChainReceived ==
    ASSUME TypeOK, NEW t \in Tx, Chain(t), OneHand(t), Of(Written, t)' = Of(Written, t),
           ioq # <<>>, ioq' = Tail(ioq), batch[t] = <<>>, batch'[t] = Head(ioq).records[t],
           UNCHANGED <<logs, writes, asked, tx, hand>>
    PROVE  Chain(t)' /\ OneHand(t)'
<1>1. PICK w \in Nat, h \in Nat, e \in Nat, q \in [0..Len(ioq) -> Nat] : Chained(t, w, q, h, e)
  BY DEF Chain
<1>0. PICK n : n = Len(ioq) - 1
  OBVIOUS
<1>a. PICK p : p = [k \in 0..n |-> q[k + 1]]
  OBVIOUS
<1>2. /\ n \in Nat /\ Len(ioq') = n /\ Len(ioq) = n + 1 /\ Head(ioq) = ioq[1]
      /\ \A k \in 1..n : ioq'[k] = ioq[k + 1]
  <2>1. Len(ioq) \in Nat /\ Len(ioq) # 0
    BY EmptySeq DEF TypeOK
  <2> QED
    BY <1>0, <2>1 DEF TypeOK
<1>3. p \in [0..Len(ioq') -> Nat]
  BY <1>1, <1>2, <1>a
<1>4. /\ p[0] = q[1] /\ p[n] = q[n + 1]
      /\ \A k \in 1..n : p[k] = q[k + 1] /\ p[k - 1] = q[(k + 1) - 1]
  BY <1>2, <1>a
<1>5. q[0] = w /\ q[0] \in Nat
  BY <1>1, <1>2, RunNone DEF Chained
<1>6. Run(Head(ioq).records[t], q[0], q[1], asked[t])
  <2>1. 1 \in 1..Len(ioq) /\ 1 - 1 = 0
    BY <1>2
  <2>2. Run(ioq[1].records[t], q[1 - 1], q[1], asked[t])
    BY <1>1, <2>1 DEF Chained
  <2> QED
    BY <1>2, <2>1, <2>2
<1>7. \A k \in 1..Len(ioq') : Run(ioq'[k].records[t], p[k - 1], p[k], asked'[t])
  <2> SUFFICES ASSUME NEW k \in 1..n PROVE Run(ioq'[k].records[t], p[k - 1], p[k], asked[t])
    BY <1>2
  <2>1. k + 1 \in 1..Len(ioq)
    BY <1>2
  <2>2. Run(ioq[k + 1].records[t], q[(k + 1) - 1], q[k + 1], asked[t])
    BY <1>1, <2>1 DEF Chained
  <2> QED
    BY <1>2, <1>4, <2>2
<1>8. Taken(t, p[Len(ioq)], h)'
  BY <1>1, <1>2, <1>4 DEF Chained, Taken
<1>9. Chained(t, w, p, h, e)'
  BY <1>1, <1>4, <1>5, <1>6, <1>7, <1>8 DEF Chained
<1>10. OneHand(t)'
  BY DEF OneHand
<1> QED
  BY <1>3, <1>9, <1>10 DEF Chain

\* A client takes the records of t from the buffer, and no other holds any.
LEMMA ChainTaken ==
    ASSUME TypeOK, NEW t \in Tx, Chain(t), Of(Written, t)' = Of(Written, t), NEW c \in Clients,
           \A d \in Clients : hand[d][t] = <<>>, \A d \in Clients : d # c => hand'[d][t] = <<>>,
           logs'[t] = <<>>, batch'[t] = batch[t], UNCHANGED <<ioq, tx, writes>>,
           \A i \in DOMAIN logs[t] : logs[t][i].op # "commit",
           \/ hand'[c][t] = logs[t] /\ asked'[t] = asked[t]
           \/ /\ \E r \in Record : hand'[c][t] = Append(logs[t], r) /\ r.op = "commit"
              /\ asked'[t] \in 0..writes[t] /\ asked[t] \in {-1, asked'[t]} /\ tx[c] = t
    PROVE  Chain(t)' /\ OneHand(t)'
<1>1. PICK w \in Nat, h \in Nat, e \in Nat, q \in [0..Len(ioq) -> Nat] : Chained(t, w, q, h, e)
  BY DEF Chain
<1>2. /\ logs[t] \in Seq(Record) /\ writes[t] \in Nat /\ asked[t] \in Int
      /\ Len(ioq) \in Nat /\ Len(ioq') = Len(ioq)
  BY BoundsNatural DEF TypeOK, Batches, Tx
<1>3. q[Len(ioq)] = h /\ h \in Nat
  BY <1>1, <1>2 DEF Chained, Taken
<1>4. \A s, a, b : Run(s, a, b, asked[t]) => Run(s, a, b, asked'[t])
  BY RunUnasked
<1>5. FileRun(Of(Written, t), w, asked'[t])
  BY <1>1, FileUnasked DEF Chained
<1>6. Run(hand'[c][t], h, e, asked'[t])
  <2>1. Run(logs[t], h, e, asked'[t])
    BY <1>1, <1>4 DEF Chained
  <2>2. CASE hand'[c][t] = logs[t]
    BY <2>1, <2>2
  <2>3. CASE /\ \E r \in Record : hand'[c][t] = Append(logs[t], r) /\ r.op = "commit"
             /\ asked'[t] \in 0..writes[t] /\ asked[t] \in {-1, asked'[t]} /\ tx[c] = t
    <3>1. e = writes[t] + 1
      BY <1>1, <2>3 DEF Chained
    <3>2. asked'[t] \in 0..(e - 1)
      BY <1>2, <2>3, <3>1
    <3>3. Len(logs[t]) = e - h
      BY <1>2, <2>1, RunPlain
    <3> QED
      BY <1>2, <2>1, <2>3, <3>2, <3>3, RunCommit
  <2> QED
    BY <2>2, <2>3
<1>7. OneHand(t)'
  BY DEF OneHand
<1>8. PICK g : g = IF hand'[c][t] = <<>> THEN h ELSE e
  OBVIOUS
<1>9. hand'[c][t] = <<>> => h = e
  BY <1>6, <1>3, RunNone
<1>10. g = e
  BY <1>8, <1>9
<1>11. Taken(t, h, e)'
  <2>1. CASE hand'[c][t] = <<>>
    BY <1>9, <2>1 DEF Taken
  <2>2. CASE hand'[c][t] # <<>>
    BY <1>6, <2>2 DEF Taken
  <2> QED
    BY <2>1, <2>2
<1>12. Run(logs'[t], e, e, asked'[t])
  BY RunNone
<1>13. Taken(t, q[Len(ioq)], e)'
  BY <1>2, <1>3, <1>11
<1>14. /\ Run(batch'[t], w, q[0], asked'[t])
       /\ \A k \in 1..Len(ioq') : Run(ioq'[k].records[t], q[k - 1], q[k], asked'[t])
       /\ e <= writes'[t] + 1 /\ ((\E d \in Clients : tx'[d] = t) => e = writes'[t] + 1)
  BY <1>1, <1>2, <1>4 DEF Chained
<1>15. Chained(t, w, q, e, e)'
  BY <1>5, <1>12, <1>13, <1>14 DEF Chained
<1> QED
  BY <1>2, <1>7, <1>15 DEF Chain

\* The running transaction makes its next insert.
LEMMA ChainUpdated ==
    ASSUME TypeOK, NEW t \in Tx, Chain(t), OneHand(t), Of(Written, t)' = Of(Written, t),
           NEW c \in Clients, tx[c] = t, NEW r \in Record, IsNth(r, writes[t] + 1),
           logs'[t] = Append(logs[t], r), writes'[t] = writes[t] + 1,
           \A i \in DOMAIN logs[t] : logs[t][i].op # "commit",
           UNCHANGED <<ioq, tx, batch, hand, asked>>
    PROVE  Chain(t)' /\ OneHand(t)'
<1>1. PICK w \in Nat, h \in Nat, e \in Nat, q \in [0..Len(ioq) -> Nat] : Chained(t, w, q, h, e)
  BY DEF Chain
<1>2. logs[t] \in Seq(Record) /\ writes[t] \in Nat
  BY BoundsNatural DEF TypeOK, Batches, Tx
<1>3. e = writes[t] + 1
  BY <1>1 DEF Chained
<1>4. Run(logs[t], h, e, asked[t]) /\ Len(logs[t]) = e - h
  BY <1>1, <1>2, RunPlain DEF Chained
<1>5. Run(logs'[t], h, e + 1, asked[t])
  BY <1>2, <1>3, <1>4, RunInsert
<1>6. Taken(t, q[Len(ioq)], h)'
  BY <1>1 DEF Chained, Taken
<1>7. Chained(t, w, q, h, e + 1)'
  BY <1>1, <1>2, <1>3, <1>5, <1>6 DEF Chained
<1>8. OneHand(t)'
  BY DEF OneHand
<1> QED
  BY <1>7, <1>8 DEF Chain

\* A transaction of which nothing is anywhere has its Start in the buffer.
LEMMA ChainBegun ==
    ASSUME TypeOK, NEW t \in Tx, Silent(t), Of(Written, t)' = {}, NEW r \in Record,
           IsNth(r, 0), logs'[t] = <<r>>, writes'[t] = 0, UNCHANGED <<ioq, batch, hand>>
    PROVE  Chain(t)' /\ OneHand(t)'
<1>1. Len(ioq) \in Nat /\ DOMAIN ioq = 1..Len(ioq)
  BY DEF TypeOK
<1>2. PICK q : q = [k \in 0..Len(ioq) |-> 0]
  OBVIOUS
<1>3. q \in [0..Len(ioq) -> Nat] /\ q[0] = 0 /\ q[Len(ioq)] = 0
      /\ \A k \in 1..Len(ioq) : q[k - 1] = 0 /\ q[k] = 0
  BY <1>1, <1>2
<1>4. FileRun(Of(Written, t)', 0, asked'[t])
  BY DEF FileRun
<1>5. ASSUME NEW k PROVE Run(<<>>, 0, 0, k)
  <2>1. 0 \in Nat /\ 0 = 0
    OBVIOUS
  <2> QED
    BY <2>1, RunNone
<1>6. Run(<<r>>, 0, 1, asked'[t])
  <2>1. Len(<<r>>) = 1 /\ <<r>>[1] = r /\ 1..(1 - 0) = {1} /\ 0 + 1 - 1 = 0
    OBVIOUS
  <2> QED
    BY <2>1 DEF Run
<1>7. Taken(t, q[Len(ioq)], 0)'
  BY <1>3 DEF Taken, Silent
<1>8. \A k \in 1..Len(ioq') : Run(ioq'[k].records[t], q[k - 1], q[k], asked'[t])
  BY <1>1, <1>3, <1>5 DEF Silent
<1>9. Chained(t, 0, q, 0, 1)'
  BY <1>3, <1>4, <1>5, <1>6, <1>7, <1>8 DEF Chained, Silent
<1>10. OneHand(t)'
  BY DEF OneHand, Silent
<1> QED
  BY <1>3, <1>9, <1>10 DEF Chain

\* The next record of t goes into the file's records, behind all others.
LEMMA ChainPlaced ==
    ASSUME TypeOK, NEW t \in Tx, Chain(t), OneHand(t), batch[t] # <<>>,
           batch'[t] = Tail(batch[t]), NEW r, Of(Written, t)' = Of(Written, t) \cup {r},
           r.op = Head(batch[t]).op, r.n = Head(batch[t]).n, r.index \in Nat,
           \A s \in Of(Written, t) : s.index \in Nat /\ s.index < r.index,
           UNCHANGED <<ioq, tx, writes, logs, hand, asked>>
    PROVE  Chain(t)' /\ OneHand(t)'
<1>1. PICK w \in Nat, h \in Nat, e \in Nat, q \in [0..Len(ioq) -> Nat] : Chained(t, w, q, h, e)
  BY DEF Chain
<1>2. batch[t] \in Seq(Record) /\ Len(ioq) \in Nat
  BY BoundsNatural DEF TypeOK, Batches, Tx
<1>3. q[0] \in Nat
  BY <1>1, <1>2
<1>4. Run(batch[t], w, q[0], asked[t]) /\ FileRun(Of(Written, t), w, asked[t])
  BY <1>1 DEF Chained
<1>5. \A n : IsNth(Head(batch[t]), n) => IsNth(r, n)
  BY DEF IsNth
<1>6. Taken(t, q[Len(ioq)], h)'
  BY <1>1 DEF Chained, Taken
<1>7. OneHand(t)'
  BY DEF OneHand
<1>8. CASE IsNth(Head(batch[t]), w) /\ w + 1 <= q[0] /\ Run(Tail(batch[t]), w + 1, q[0], asked[t])
  <2>1. FileRun(Of(Written, t)', w + 1, asked'[t])
    BY <1>4, <1>5, <1>8, FileInsert
  <2>2. Chained(t, w + 1, q, h, e)'
    BY <1>1, <1>6, <1>8, <2>1 DEF Chained
  <2> QED
    BY <1>7, <2>2 DEF Chain
<1>9. CASE /\ Head(batch[t]).op = "commit" /\ w = q[0] /\ asked[t] \in 0..(q[0] - 1)
           /\ Tail(batch[t]) = <<>>
  <2>1. FileRun(Of(Written, t)', w, asked'[t])
    BY <1>4, <1>9, FileCommit
  <2>2. Run(batch'[t], w, q[0], asked'[t])
    <3>1. Run(<<>>, w, q[0], asked'[t])
      BY <1>3, <1>9, RunNone
    <3> QED
      BY <1>9, <3>1
  <2>3. Chained(t, w, q, h, e)'
    BY <1>1, <1>6, <2>1, <2>2 DEF Chained
  <2> QED
    BY <1>7, <2>3 DEF Chain
<1> QED
  BY <1>2, <1>3, <1>4, <1>8, <1>9, RunHead

------------------------------------------------------------------------------
(* What a crash leaves.                                                    *)

LEMMA ImageIndexed ==
    ASSUME TypeOK, FileInv, NEW image \in CrashImages
    PROVE  Indexed(RecordsOn(image), lastIndex)
<1>1. FileIn(image, lastIndex, lastTx) /\ RecordsOn(image) \subseteq Record
  BY FileImage, ImageType
<1>2. IndexOrder
  BY FileOrder
<1>3. ASSUME NEW r \in RecordsOn(image)
      PROVE  \E p \in Pages : \E i \in DOMAIN image[p] : r = image[p][i]
  BY DEF RecordsOn, ToSet
<1>4. ASSUME NEW r \in RecordsOn(image)
      PROVE  r.index \in 1..lastIndex /\ (r.op = "commit" => r.tx # 0)
  BY <1>1, <1>3 DEF FileIn, Ranked
<1>5. ASSUME NEW r \in RecordsOn(image), NEW s \in RecordsOn(image), r.index = s.index
      PROVE  r = s
  <2>1. PICK p \in Pages : \E i \in DOMAIN image[p] : r = image[p][i]
    BY <1>3
  <2>2. PICK i \in DOMAIN image[p] : r = image[p][i]
    BY <2>1
  <2>3. PICK q \in Pages : \E j \in DOMAIN image[q] : s = image[q][j]
    BY <1>3
  <2>4. PICK j \in DOMAIN image[q] : s = image[q][j]
    BY <2>3
  <2>5. (p # q \/ i # j) => image[p][i].index # image[q][j].index
    BY <1>2, <2>2, <2>4 DEF IndexOrder
  <2> QED
    BY <1>5, <2>2, <2>4, <2>5
<1> QED
  BY <1>1, <1>4, <1>5 DEF Indexed

\* A transaction that loses nothing on a page misses in the image what is behind all
\* that the file had, and only if the write did not happen.
LEMMA ImageMisses ==
    ASSUME TypeOK, Unwritten, NEW image \in CrashImages
    PROVE  /\ RecordsOn(image) \subseteq Written
           /\ \A r \in Written : r.tx \in Tx \ LostIn(image) =>
                r \in RecordsOn(image)
                \/ (image = wal /\ \A s \in RecordsOn(wal) : s.index < r.index)
<1> DEFINE w == [wal EXCEPT ![cursor] = current]
<1>1. image = wal \/ image = w
  BY DEF CrashImages
<1>2. /\ ToSet(current) \subseteq RecordsOn(w) /\ RecordsOn(w) \subseteq Written
      /\ w[cursor] = current /\ cursor \in Pages
      /\ \A r \in RecordsOn(wal) :
           r \in RecordsOn(w) \/ r.tx = 0 \/ r.tx \in Overwritten(cursor, current)
  BY WriteKeeps DEF TypeOK
<1> HIDE DEF w
<1>3. RecordsOn(image) \subseteq Written
  BY <1>1, <1>2 DEF Written
<1>4. ASSUME NEW r \in Written, r.tx \in Tx \ LostIn(image), r \notin RecordsOn(image)
      PROVE  image = wal /\ \A s \in RecordsOn(wal) : s.index < r.index
  <2>1. CASE image = wal
    <3>1. r \in ToSet(current) \ ToSet(wal[cursor])
      <4>1. r \notin ToSet(wal[cursor])
        BY <1>2, <1>4, <2>1 DEF RecordsOn
      <4> QED
        BY <1>4, <2>1, <4>1 DEF Written
    <3> QED
      BY <2>1, <3>1 DEF Unwritten
  <2>2. CASE image = w
    <3>1. r \in RecordsOn(wal) /\ r.tx # 0
      BY <1>2, <1>4, <2>2 DEF Written, Tx
    <3>2. r.tx \in Overwritten(cursor, current)
      BY <1>2, <1>4, <2>2, <3>1
    <3>3. r.tx \in TxsIn(ToSet(wal[cursor]) \ ToSet(image[cursor]))
      BY <1>2, <2>2, <3>2 DEF Overwritten
    <3>4. r.tx \in LostIn(image)
      BY <1>2, <3>3 DEF LostIn
    <3> QED
      BY <1>4, <3>4
  <2> QED
    BY <1>1, <2>1, <2>2
<1> QED
  BY <1>3, <1>4

\* Once the last record of a transaction is in the file every image has all of them.
LEMMA ImageWhole ==
    ASSUME TypeOK, FileInv, Unwritten, NEW image \in CrashImages, NEW t \in Tx \ LostIn(image),
           NEW k \in RecordsOn(wal), Closes(k, t)
    PROVE  Of(RecordsOn(image), t) = Of(Written, t)
<1>1. RecordsOn(image) \subseteq Written
  BY ImageMisses
<1>2. ASSUME NEW r \in Written, r.tx = t PROVE r \in RecordsOn(image)
  <2>1. r.index <= k.index
    BY <1>2 DEF Closes, Of
  <2>2. r.index \in Nat /\ k.index \in Nat
    <3>1. k \in Written
      BY DEF Written
    <3>2. r.index \in 1..lastIndex /\ k.index \in 1..lastIndex
      BY <3>1, WrittenRanked
    <3> QED
      BY <3>2
  <2>3. ~ (k.index < r.index)
    BY <2>1, <2>2
  <2> QED
    BY <1>2, <2>3, ImageMisses
<1> QED
  BY <1>1, <1>2 DEF Of

\* An image has the records of a transaction up to some point.
LEMMA ImagePrefix ==
    ASSUME TypeOK, FileInv, Unwritten, NEW image \in CrashImages, NEW t \in Tx \ LostIn(image),
           NEW w \in Nat, NEW k, FileRun(Of(Written, t), w, k)
    PROVE  \E v \in 0..w : FileRun(Of(RecordsOn(image), t), v, k)
<1>0. PICK R : R = Of(Written, t)
  OBVIOUS
<1>a. PICK S : S = Of(RecordsOn(image), t)
  OBVIOUS
<1>1. S \subseteq R
  BY <1>0, <1>a, ImageMisses DEF Of
<1>2. ASSUME NEW r \in S, NEW s \in R, s.index < r.index PROVE s \in S
  <2>1. s.index \in Nat /\ r.index \in Nat
    <3>1. s \in Written /\ r \in Written
      BY <1>0, <1>1 DEF Of
    <3>2. s.index \in 1..lastIndex /\ r.index \in 1..lastIndex
      BY <3>1, WrittenRanked
    <3> QED
      BY <3>2
  <2>2. ~ (r.index < s.index)
    BY <1>2, <2>1
  <2>3. s \in Written /\ s.tx = t /\ r \in RecordsOn(image)
    BY <1>0, <1>a DEF Of
  <2>4. s \in RecordsOn(image)
    BY <2>2, <2>3, ImageMisses
  <2> QED
    BY <1>a, <2>3, <2>4 DEF Of
<1>3. FileRun(R, w, k)
  BY <1>0
<1> DEFINE T == {n \in 0..w : \A r \in S : ~ IsNth(r, n)}
<1>4. \A r \in S : ~ IsNth(r, w)
  <2> SUFFICES ASSUME NEW r \in S, IsNth(r, w) PROVE FALSE
    OBVIOUS
  <2>1. r.op # "commit"
    BY NthIsOne
  <2>2. PICK n \in 0..(w - 1) : IsNth(r, n)
    BY <1>1, <1>3, <2>1 DEF FileRun
  <2>3. n = w
    BY <2>2, NthIsOne
  <2> QED
    BY <2>3
<1>5. T \subseteq Nat /\ T # {}
  BY <1>4
<1>6. PICK v \in T : \A m \in T : v <= m
  BY <1>5, LeastNat
<1>7. v \in 0..w /\ v \in Nat /\ \A r \in S : ~ IsNth(r, v)
  BY <1>6
<1>8. \A n \in 0..(v - 1) : \E r \in S : IsNth(r, n)
  <2> SUFFICES ASSUME NEW n \in 0..(v - 1), \A r \in S : ~ IsNth(r, n) PROVE FALSE
    OBVIOUS
  <2>1. n \in T
    BY <1>7
  <2> QED
    BY <1>6, <1>7, <2>1
<1> HIDE DEF T
<1>9. ASSUME NEW r \in S, NEW n \in 0..(w - 1), IsNth(r, n) PROVE n \in 0..(v - 1)
  <2> SUFFICES ASSUME v < n PROVE FALSE
    <3>1. n # v
      BY <1>7, <1>9
    <3> QED
      BY <1>7, <3>1
  <2>1. v \in 0..(w - 1)
    BY <1>7
  <2>2. PICK s \in R : IsNth(s, v)
    BY <1>3, <2>1 DEF FileRun
  <2>3. s.index < r.index
    BY <1>1, <1>3, <1>9, <2>1, <2>2 DEF FileRun
  <2>4. s \in S
    BY <1>2, <2>3
  <2> QED
    BY <1>7, <2>2, <2>4
<1>10. 0..(v - 1) \subseteq 0..(w - 1)
  BY <1>7
<1>11. ASSUME NEW r \in S
       PROVE  \/ \E n \in 0..(v - 1) : IsNth(r, n)
              \/ /\ r.op = "commit" /\ k \in 0..(v - 1)
                 /\ \E s \in S : IsNth(s, k) /\ s.index < r.index
  <2>1. CASE \E n \in 0..(w - 1) : IsNth(r, n)
    BY <1>9, <2>1
  <2>2. CASE /\ r.op = "commit" /\ k \in 0..(w - 1)
             /\ \E s \in R : IsNth(s, k) /\ s.index < r.index
    <3>1. PICK s \in R : IsNth(s, k) /\ s.index < r.index
      BY <2>2
    <3>2. s \in S
      BY <1>2, <3>1
    <3>3. k \in 0..(v - 1)
      BY <1>9, <2>2, <3>1, <3>2
    <3> QED
      BY <2>2, <3>1, <3>2, <3>3
  <2> QED
    BY <1>1, <1>3, <2>1, <2>2 DEF FileRun
<1>12. \A r, s \in S : \A n, m \in 0..(v - 1) :
         IsNth(r, n) /\ IsNth(s, m) => (n < m => r.index < s.index) /\ (n = m => r = s)
  BY <1>1, <1>3, <1>10 DEF FileRun
<1>13. FileRun(S, v, k)
  BY <1>8, <1>11, <1>12 DEF FileRun
<1> QED
  BY <1>7, <1>13, <1>a

------------------------------------------------------------------------------
(* What replay gives back.                                                 *)

LEMMA ReplayIs ==
    ASSUME TypeOK, FileInv, NEW image \in CrashImages
    PROVE  Replayed(image) = {r \in Kept(RecordsOn(image)) : r.tx \in Live(RecordsOn(image))}
<1>1. Indexed(RecordsOn(image), lastIndex) /\ lastIndex \in Nat
  BY ImageIndexed DEF TypeOK
<1> QED
  BY <1>1, ReplayedSet

LEMMA ReplayAgrees == TypeOK /\ FileInv => ReplayIsReference
BY ReplayIs, ReferenceSet DEF ReplayIsReference

\* Of a transaction in force replay returns every insert that is there, of others none.
LEMMA RecoveredRun ==
    ASSUME TypeOK, FileInv, NEW image \in CrashImages, NEW t \in Tx, NEW v \in Nat, NEW k,
           FileRun(Of(RecordsOn(image), t), v, k)
    PROVE  Recovered(Replayed(image), t)
             = IF t \in Live(RecordsOn(image)) THEN 1..(v - 1) ELSE {}
<1>0. PICK R : R = RecordsOn(image)
  OBVIOUS
<1>1. Replayed(image) = {r \in Kept(R) : r.tx \in Live(R)}
  BY <1>0, ReplayIs
<1>2. Indexed(R, lastIndex) /\ FileRun(Of(R, t), v, k)
  BY <1>0, ImageIndexed
<1>3. Recovered(Replayed(image), t)
        = {r.n : r \in {x \in R : x \in Kept(R) /\ x.tx = t /\ t \in Live(R)}}
  BY <1>1 DEF Recovered, InsertsOf, Kept
<1>4. CASE t \notin Live(R)
  BY <1>0, <1>3, <1>4
<1>5. CASE t \in Live(R)
  <2>1. PICK s \in R : StartOf(s, t) /\ InForce(R, s)
    BY <1>5 DEF Live
  <2>2. s \in Of(R, t) /\ IsNth(s, 0)
    BY <2>1 DEF StartOf, Of, IsNth
  <2>3. ASSUME NEW r \in Of(R, t), r.op = "insert"
        PROVE  r \in Kept(R) /\ r.n \in 1..(v - 1)
    <3>1. PICK n \in 0..(v - 1) : IsNth(r, n)
      BY <1>2, <2>3 DEF FileRun
    <3>2. n > 0 /\ r.n = n
      BY <2>3, <3>1 DEF IsNth
    <3>3. 0 \in 0..(v - 1) /\ 0 < n
      BY <3>2
    <3>4. s.index < r.index
      BY <1>2, <2>2, <3>1, <3>3 DEF FileRun
    <3>5. ASSUME NEW m \in Marks(R) PROVE ~ (r.index < m.index)
      <4>1. m \in R /\ r \in R
        BY DEF Marks, Of
      <4>2. m.index \in 1..lastIndex /\ s.index \in 1..lastIndex /\ r.index \in 1..lastIndex
        BY <1>2, <4>1 DEF Indexed
      <4>3. m.index < s.index
        BY <2>1 DEF InForce
      <4> QED
        BY <3>4, <4>2, <4>3
    <3> QED
      BY <2>3, <3>1, <3>2, <3>5 DEF Kept, Of
  <2>4. ASSUME NEW n \in 1..(v - 1)
        PROVE  \E r \in Of(R, t) : r \in Kept(R) /\ r.n = n
    <3>1. PICK r \in Of(R, t) : IsNth(r, n)
      BY <1>2 DEF FileRun
    <3>2. r.op = "insert" /\ r.n = n
      BY <3>1 DEF IsNth
    <3> QED
      BY <2>3, <3>2
  <2>5. Recovered(Replayed(image), t) = {r.n : r \in {x \in Of(R, t) : x \in Kept(R)}}
    BY <1>3, <1>5 DEF Of
  <2>6. {r.n : r \in {x \in Of(R, t) : x \in Kept(R)}} = 1..(v - 1)
    <3>1. \A r \in Of(R, t) : r \in Kept(R) => r.n \in 1..(v - 1)
      BY <2>3 DEF Kept
    <3> QED
      BY <2>4, <3>1
  <2> QED
    BY <1>0, <1>5, <2>5, <2>6
<1> QED
  BY <1>4, <1>5

\* A commit in a run comes after the Start, and with all the inserts it was asked for.
LEMMA RunCommitted ==
    ASSUME NEW R, NEW v \in Nat, NEW k, FileRun(R, v, k), NEW c \in R, c.op = "commit",
           \A r \in R : r.index \in Nat
    PROVE  /\ k \in 0..(v - 1)
           /\ \E s \in R : IsNth(s, 0) /\ \A r \in R : r = s \/ s.index < r.index
<1>1. \A n : IsNth(c, n) => FALSE
  BY DEF IsNth
<1>2. k \in 0..(v - 1)
  BY <1>1 DEF FileRun
<1>3. 0 \in 0..(v - 1)
  BY <1>2
<1>4. PICK s \in R : IsNth(s, 0)
  BY <1>3 DEF FileRun
<1>5. ASSUME NEW r \in R, NEW n \in 0..(v - 1), IsNth(r, n) PROVE r = s \/ s.index < r.index
  <2>1. n = 0 \/ 0 < n
    OBVIOUS
  <2> QED
    BY <1>3, <1>4, <1>5, <2>1 DEF FileRun
<1>6. ASSUME NEW r \in R PROVE r = s \/ s.index < r.index
  <2>1. CASE \E n \in 0..(v - 1) : IsNth(r, n)
    BY <1>5, <2>1
  <2>2. CASE \E q \in R : IsNth(q, k) /\ q.index < r.index
    <3>1. PICK q \in R : IsNth(q, k) /\ q.index < r.index
      BY <2>2
    <3>2. q = s \/ s.index < q.index
      BY <1>2, <1>5, <3>1
    <3>3. q.index \in Nat /\ r.index \in Nat /\ s.index \in Nat
      OBVIOUS
    <3> QED
      BY <3>1, <3>2, <3>3
  <2> QED
    BY <2>1, <2>2 DEF FileRun
<1> QED
  BY <1>2, <1>4, <1>6

\* A whole transaction is in the file as the log should hold it.
LEMMA RunHolds ==
    ASSUME NEW image, NEW t \in Tx, writes[t] \in Nat, NEW a,
           FileRun(Of(RecordsOn(image), t), writes[t] + 1, a),
           NEW c \in Of(RecordsOn(image), t), c.op = "commit",
           \A r \in Of(RecordsOn(image), t) : r.index \in Nat /\ r.index <= c.index
    PROVE  LogHolds(image, t)
<1>0. PICK R : R = Of(RecordsOn(image), t)
  OBVIOUS
<1>a. PICK n : n = writes[t]
  OBVIOUS
<1>1. /\ FileRun(R, n + 1, a) /\ c \in R /\ n \in Nat /\ n + 1 \in Nat /\ n + 1 - 1 = n
      /\ \A r \in R : r.index \in Nat /\ r.index <= c.index
  BY <1>0, <1>a
<1>2. PICK s \in R : IsNth(s, 0) /\ \A r \in R : r = s \/ s.index < r.index
  BY <1>1, RunCommitted
<1>3. s.op = "start" /\ \A r \in R : s.index <= r.index
  BY <1>1, <1>2 DEF IsNth
<1>4. ASSUME NEW r \in R, r.op = "insert" PROVE r.n \in 1..n /\ IsNth(r, r.n)
  <2>1. PICK m \in 0..n : IsNth(r, m)
    BY <1>1, <1>4 DEF FileRun
  <2> QED
    BY <1>4, <2>1 DEF IsNth
<1>5. ASSUME NEW m \in 1..n PROVE \E r \in R : r.op = "insert" /\ r.n = m
  <2>1. PICK r \in R : IsNth(r, m)
    BY <1>1 DEF FileRun
  <2> QED
    BY <2>1 DEF IsNth
<1>6. ASSUME NEW r \in R, NEW q \in R, r.op = "insert", q.op = "insert"
      PROVE  r.n < q.n <=> r.index < q.index
  <2>1. /\ r.n \in 0..n /\ q.n \in 0..n /\ r.n \in Nat /\ q.n \in Nat
        /\ IsNth(r, r.n) /\ IsNth(q, q.n)
    BY <1>4, <1>6
  <2>2. /\ r.n < q.n => r.index < q.index
        /\ q.n < r.n => q.index < r.index
        /\ r.n = q.n => r = q
    BY <1>1, <2>1 DEF FileRun
  <2>3. r.index \in Nat /\ q.index \in Nat
    BY <1>1
  <2> QED
    BY <2>1, <2>2, <2>3
<1>7. R = {r \in RecordsOn(image) : r.tx = t} /\ InsertsOf(R, t) = {r \in R : r.op = "insert"}
  BY <1>0 DEF Of, InsertsOf
<1>8. {r.n : r \in InsertsOf(R, t)} = 1..n
  BY <1>4, <1>5, <1>7
<1>9. \A r, q \in InsertsOf(R, t) : r.n < q.n <=> r.index < q.index
  BY <1>6, <1>7
<1>10. \E x, k \in R : /\ x.op = "start" /\ k.op = "commit"
                       /\ \A r \in R : x.index <= r.index /\ r.index <= k.index
  BY <1>1, <1>3
<1> QED
  BY <1>a, <1>7, <1>8, <1>9, <1>10 DEF LogHolds

\* Of a transaction that is not exposed every insert that a flush took is in data.db, unless
\* the flush is under way.
CoverInv == ckPc # "drained" => \A t \in Tx \ exposed : drained[t] <= covered[t]

\* An acknowledged commit is whole in every image.  Its inserts are given back by replay, or
\* were taken by a flush, or a checkpoint passed the transaction before that.
LEMMA CommitsRecovered == TypeOK /\ FileInv /\ ReadInv /\ DoneInv /\ CoverInv => DurableCommits
<1> SUFFICES ASSUME TypeOK, FileInv, Unwritten, DoneInv, CoverInv, NEW image \in CrashImages,
                    NEW t \in acked \ (exposed \cup LostIn(image))
             PROVE  /\ LogHolds(image, t)
                    /\ \/ t \in forgotten \cup Straddling(image)
                       \/ 1..writes[t] \subseteq Recovered(Replayed(image), t) \cup 1..covered[t]
  BY DEF DurableCommits, ReadInv
<1>0. PICK R : R = RecordsOn(image)
  OBVIOUS
<1>1. t \in Tx /\ writes[t] \in Nat /\ Durable(t)
  BY DEF TypeOK, DoneInv
<1>2. PICK k \in RecordsOn(wal) : Closes(k, t)
  BY <1>1 DEF Durable
<1>3. Of(R, t) = Of(Written, t)
  BY <1>0, <1>1, <1>2, ImageWhole
<1>4. Indexed(R, lastIndex)
  BY <1>0, ImageIndexed
<1>5. \A r \in Of(R, t) : r \in R /\ r.index \in Nat /\ r.index <= k.index
  BY <1>2, <1>3, <1>4 DEF Closes, Indexed, Of
<1>6. k \in Of(R, t) /\ k.op = "commit"
  BY <1>2, <1>3 DEF Closes, CommitOf, Of, Written
<1>7. FileRun(Of(R, t), writes[t] + 1, asked[t])
  BY <1>1, <1>3 DEF Durable
<1>8. LogHolds(image, t)
  BY <1>0, <1>1, <1>5, <1>6, <1>7, RunHolds
<1>9. ASSUME ~ Passed(image, t) PROVE t \in Live(R)
  <2>1. writes[t] + 1 \in Nat
    BY <1>1
  <2>2. PICK s \in Of(R, t) : IsNth(s, 0) /\ \A r \in Of(R, t) : r = s \/ s.index < r.index
    BY <1>5, <1>6, <1>7, <2>1, RunCommitted
  <2>3. StartOf(s, t) /\ s \in R /\ k \in R /\ CommitOf(k, t) /\ s.index < k.index
    BY <1>6, <2>2 DEF StartOf, IsNth, Of, CommitOf
  <2>4. ASSUME NEW m \in Marks(R) PROVE m.index < s.index
    <3>1. m \in R /\ m.op = "checkpoint" /\ m # s
      BY <2>3 DEF Marks, StartOf
    <3>2. m.index # s.index /\ m.index \in Nat /\ s.index \in Nat
      BY <1>4, <2>3, <3>1 DEF Indexed
    <3>3. ~ (s.index < m.index)
      BY <1>0, <1>9, <2>3, <3>1 DEF Passed, StartOf
    <3> QED
      BY <3>2, <3>3
  <2> QED
    BY <1>1, <2>3, <2>4 DEF Live, InForce
<1>10. t \in Live(R) => Recovered(Replayed(image), t) = 1..writes[t]
  <2>1. writes[t] + 1 \in Nat /\ writes[t] + 1 - 1 = writes[t]
    BY <1>1
  <2> QED
    BY <1>0, <1>1, <1>7, <2>1, RecoveredRun
<1>11. ASSUME Passed(image, t), t \notin Straddling(image)
       PROVE  1..writes[t] \subseteq 1..covered[t]
  <2>1. covered[t] \in Nat /\ drained[t] \in Nat
    BY <1>1 DEF TypeOK
  <2>2. t \in Tx \ exposed
    BY <1>1
  <2>3. ckPc = "drained" \/ drained[t] <= covered[t]
    BY <2>2 DEF CoverInv
  <2>4. ~ (covered[t] < writes[t])
    BY <1>1, <1>11, <2>3 DEF Straddling
  <2> QED
    BY <1>1, <2>1, <2>4
<1> QED
  BY <1>8, <1>9, <1>10, <1>11

\* Of a transaction that is not exposed nothing is given back, or the inserts up to some
\* one, none that the commit was asked for being left out.
LEMMA RecoveryWhole == TypeOK /\ FileInv /\ ReadInv /\ ChainInv => AtomicRecovery
<1> SUFFICES ASSUME TypeOK, FileInv, Unwritten, ChainInv, NEW image \in CrashImages,
                    NEW t \in Tx \ (exposed \cup LostIn(image))
             PROVE  \/ Recovered(Replayed(image), t) = {}
                    \/ /\ asked[t] # -1
                       /\ \E n \in asked[t]..writes[t] : Recovered(Replayed(image), t) = 1..n
  BY DEF AtomicRecovery, ReadInv
<1>0. PICK R : R = RecordsOn(image)
  OBVIOUS
<1>1. PICK w \in Nat, h \in Nat, e \in Nat, q \in [0..Len(ioq) -> Nat] : Chained(t, w, q, h, e)
  BY DEF ChainInv, Chain
<1>2. FileRun(Of(Written, t), w, asked[t]) /\ e <= writes[t] + 1 /\ w <= e
  BY <1>1, ChainOrder DEF Chained
<1>3. PICK v \in 0..w : FileRun(Of(R, t), v, asked[t])
  BY <1>0, <1>2, ImagePrefix
<1>4. v \in Nat /\ asked[t] \in Int /\ writes[t] \in Nat
  BY DEF TypeOK
<1>5. Recovered(Replayed(image), t) = IF t \in Live(R) THEN 1..(v - 1) ELSE {}
  BY <1>0, <1>3, <1>4, RecoveredRun
<1>6. ASSUME t \in Live(R) PROVE asked[t] # -1 /\ v - 1 \in asked[t]..writes[t]
  <2>1. PICK c \in R : CommitOf(c, t)
    BY <1>6 DEF Live
  <2>2. c \in Of(R, t) /\ c.op = "commit"
    BY <2>1 DEF CommitOf, Of
  <2>3. \A r \in Of(R, t) : r.index \in Nat
    BY <1>0, ImageIndexed DEF Indexed, Of
  <2>4. asked[t] \in 0..(v - 1)
    BY <1>3, <1>4, <2>2, <2>3, RunCommitted
  <2> QED
    BY <1>2, <1>4, <2>4
<1> QED
  BY <1>5, <1>6

------------------------------------------------------------------------------
(* Each action keeps the invariants.                                       *)

LEMMA KeyedNone ==
    ASSUME NEW b \in Batches, NEW k \in Nat, Keyed(b, k), NEW t \in 0..MaxTx, k < t
    PROVE  b[t] = <<>>
<1>1. b[t] \in Seq(Record)
  BY DEF Batches
<1>2. \A i \in DOMAIN b[t] : FALSE
  BY BoundsNatural DEF Keyed
<1>3. Len(b[t]) \in Nat /\ DOMAIN b[t] = 1..Len(b[t])
  BY <1>1
<1>4. 1 \notin 1..Len(b[t])
  BY <1>2, <1>3
<1>5. Len(b[t]) = 0
  BY <1>3, <1>4
<1> QED
  BY <1>1, <1>5, EmptySeq

LEMMA RequestType ==
    ASSUME TypeOK, NEW k \in DOMAIN ioq
    PROVE  ioq[k] \in [from : Clients \cup {Checkpointer}, records : Batches]
           /\ ioq[k].records \in Batches
<1>1. ioq \in Seq([from : Clients \cup {Checkpointer}, records : Batches])
  BY DEF TypeOK
<1>2. k \in 1..Len(ioq)
  BY <1>1
<1>3. ioq[k] \in [from : Clients \cup {Checkpointer}, records : Batches]
  BY <1>1, <1>2, ElementOfSeq
<1> QED
  BY <1>3

LEMMA AskingStays ==
    ASSUME NEW d, NEW t, Asking(d, t), logs'[t] = <<>>, ioq' = ioq,
           \A x \in Clients : x # d => hand'[x][t] = <<>>,
           ioPc' # "recv" /\ ioFrom' = d =>
             ioPc # "recv" /\ ioFrom = d /\ batch'[t] = batch[t],
           Of(Written, t)' = Of(Written, t)
    PROVE  Asking(d, t)'
<1>1. ASSUME NEW k \in Written, Closes(k, t) PROVE k \in Written' /\ Closes(k, t)'
  <2>1. k \in Of(Written, t)
    BY <1>1 DEF Closes, CommitOf, Of
  <2>2. k \in Written'
    BY <2>1 DEF Of
  <2> QED
    BY <1>1, <2>2 DEF Closes
<1> QED
  BY <1>1 DEF Asking

LEMMA DurableStays ==
    ASSUME NEW t, Durable(t), logs'[t] = <<>>, \A c \in Clients : hand'[c][t] = <<>>,
           \A k \in DOMAIN ioq' : ioq'[k].records[t] = <<>>, batch'[t] = <<>>,
           Of(Written, t)' = Of(Written, t), Of(RecordsOn(wal), t) \subseteq RecordsOn(wal'),
           writes'[t] = writes[t], asked'[t] = asked[t], t <= lastTx',
           \A c \in Clients : tx'[c] # t
    PROVE  Durable(t)'
<1>1. PICK k \in RecordsOn(wal) : Closes(k, t)
  BY DEF Durable
<1>2. k \in Of(RecordsOn(wal), t)
  BY <1>1 DEF Closes, CommitOf, Of
<1>3. k \in RecordsOn(wal') /\ Closes(k, t)'
  BY <1>1, <1>2 DEF Closes
<1>4. Silent(t)'
  BY DEF Silent
<1>5. FileRun(Of(Written, t), writes[t] + 1, asked[t])'
  BY DEF Durable
<1> QED
  BY <1>3, <1>4, <1>5 DEF Durable

\* A step that moves no record of a transaction that is not exposed.
LEMMA PipelineStays ==
    ASSUME TypeInv, PipelineInv, UNCHANGED <<logs, hand, ioq, writes, asked, lastTx>>,
           exposed \subseteq exposed',
           \A t \in Tx \ exposed' : /\ Of(Written, t)' = Of(Written, t) /\ batch'[t] = batch[t]
                                    /\ Of(RecordsOn(wal), t) \subseteq RecordsOn(wal'),
           \A c \in Clients : /\ pc'[c] # "send" => pc[c] # "send"
                              /\ tx'[c] = tx[c] \/ tx'[c] = 0
                              /\ op'[c] = "commit" /\ pc'[c] \in {"send", "await"} =>
                                   /\ op[c] = "commit" /\ pc[c] \in {"send", "await"}
                                   /\ tx'[c] = tx[c],
           ioPc' # "recv" => ioPc # "recv" /\ ioFrom' = ioFrom,
           ioPc' = "recv" => \A t \in Tx : batch'[t] = <<>>,
           acked' \subseteq Tx,
           \A t \in acked' \ exposed' : t \in acked \/ Durable(t)'
    PROVE  PipelineInv'
<1> USE DEF PipelineInv
<1>1. EmptyInv'
  BY DEF EmptyInv
<1>2. ChainInv'
  <2> SUFFICES ASSUME NEW t \in Tx \ exposed' PROVE OneHand(t)' /\ Chain(t)'
    BY DEF ChainInv
  <2>1. OneHand(t) /\ Chain(t)
    BY DEF ChainInv
  <2>2. (\E c \in Clients : tx'[c] = t) => \E c \in Clients : tx[c] = t
    BY DEF Tx
  <2> QED
    BY <2>1, <2>2, ChainStays
<1>3. AskInv'
  <2> SUFFICES ASSUME NEW c \in Clients, NEW t \in Tx \ exposed', Committing(c, t)',
                      pc'[c] \in {"send", "await"}
               PROVE  Asking(c, t)'
    BY DEF AskInv
  <2>1. Committing(c, t) /\ pc[c] \in {"send", "await"}
    BY DEF Committing
  <2>2. Asking(c, t)
    BY <2>1 DEF AskInv
  <2>3. logs'[t] = <<>> /\ \A x \in Clients : x # c => hand'[x][t] = <<>>
    BY <2>2 DEF Asking
  <2> QED
    BY <2>2, <2>3, AskingStays
<1>4. DoneInv'
  <2> SUFFICES ASSUME NEW t \in acked' \ exposed', t \in acked PROVE Durable(t)'
    BY DEF DoneInv
  <2>1. Durable(t) /\ t \in Tx
    BY DEF DoneInv
  <2>2. \A c \in Clients : tx'[c] # t
    BY <2>1 DEF Durable, Tx
  <2> QED
    BY <2>1, <2>2, DurableStays DEF Durable, Silent
<1> QED
  BY <1>1, <1>2, <1>3, <1>4

LEMMA QuietPipeline ==
    ASSUME TypeInv, PipelineInv,
           \/ \E c \in Clients : Check(c) \/ Snapshot(c) \/ Abandon(c)
           \/ CkWake \/ CkNothing \/ CkDrain \/ CkFailed \/ UNCHANGED vars
    PROVE  PipelineInv'
<1>1. /\ UNCHANGED <<logs, hand, ioq, writes, asked, lastTx, acked, batch, wal, current, ioPc,
                     ioFrom>>
      /\ exposed \subseteq exposed'
  BY DEF Check, Snapshot, Abandon, CkWake, CkNothing, CkDrain, CkFailed, vars, bufferVars,
         clientVars, ioVars, history, coverage
<1>2. RecordsOn(wal') = RecordsOn(wal) /\ Written' = Written
  BY <1>1 DEF RecordsOn, Written
<1>3. /\ pc \in [Clients -> {"idle", "check", "flush", "send", "await", "snapshot", "open"}]
      /\ tx \in [Clients -> 0..MaxTx]
      /\ op \in [Clients -> {"none", "begin", "insert", "commit"}]
  BY DEF TypeInv, TypeOK
<1>4. \A c \in Clients : /\ pc'[c] # "send" => pc[c] # "send"
                         /\ tx'[c] = tx[c] \/ tx'[c] = 0
                         /\ op'[c] = "commit" /\ pc'[c] \in {"send", "await"} =>
                              /\ op[c] = "commit" /\ pc[c] \in {"send", "await"}
                              /\ tx'[c] = tx[c]
  <2>1. CASE \E d \in Clients : Check(d)
    BY <1>3, <2>1 DEF Check, Resume
  <2>2. CASE \E d \in Clients : Snapshot(d)
    BY <1>3, <2>2 DEF Snapshot
  <2>3. CASE \E d \in Clients : Abandon(d)
    BY <1>3, <2>3 DEF Abandon
  <2>4. CASE CkWake \/ CkNothing \/ CkDrain \/ CkFailed \/ UNCHANGED vars
    BY <2>4 DEF CkWake, CkNothing, CkDrain, CkFailed, vars, clientVars
  <2> QED
    BY <2>1, <2>2, <2>3, <2>4
<1>5. \A t : /\ Of(Written, t)' = Of(Written, t)
             /\ Of(RecordsOn(wal), t) \subseteq RecordsOn(wal')
  BY <1>2 DEF Of
<1>6. acked \subseteq Tx
  BY DEF TypeInv, TypeOK
<1>7. ioPc' = "recv" => \A t \in Tx : batch'[t] = <<>>
  BY <1>1 DEF PipelineInv, EmptyInv
<1> QED
  BY <1>1, <1>4, <1>5, <1>6, <1>7, PipelineStays

LEMMA BeginPipeline ==
    ASSUME TypeInv, CommitInv, IdsInv, FileInv, PipelineInv, NEW c \in Clients, Begin(c)
    PROVE  PipelineInv'
<1> USE DEF PipelineInv
<1>0. PICK u : u = lastTx + 1
  OBVIOUS
<1>1. /\ pc[c] = "idle" /\ u \in Tx /\ lastTx \in Nat /\ lastTx < u /\ lastTx' = u /\ u \in Nat
  BY <1>0, BoundsNatural DEF Begin, TypeInv, TypeOK, Tx
<1>b. ~ (u <= lastTx)
  <2>1. u \in Nat /\ lastTx \in Nat /\ lastTx < u
    BY <1>1
  <2> QED
    BY <2>1
<1>2. /\ logs \in Batches /\ batch \in Batches /\ hand \in [Clients -> Batches]
      /\ pc \in [Clients -> {"idle", "check", "flush", "send", "await", "snapshot", "open"}]
      /\ op \in [Clients -> {"none", "begin", "insert", "commit"}]
      /\ tx \in [Clients -> 0..MaxTx] /\ writes \in [Tx -> Nat] /\ asked \in [Tx -> Int]
      /\ acked \subseteq Tx
  BY DEF TypeInv, TypeOK
<1>a. \A k \in DOMAIN ioq : ioq[k].records \in Batches
  BY RequestType DEF TypeInv
<1>3. /\ UNCHANGED <<hand, ioq, batch, wal, current, ioPc, ioFrom, exposed>>
      /\ logs' = [logs EXCEPT ![u] = <<Rec(u, "start", 0)>>]
      /\ writes' = [writes EXCEPT ![u] = 0] /\ asked' = [asked EXCEPT ![u] = -1]
      /\ tx' = [tx EXCEPT ![c] = u] /\ acked' = acked \ {u}
      /\ pc' = [pc EXCEPT ![c] = "check"] /\ op' = [op EXCEPT ![c] = "begin"]
  BY <1>0 DEF Begin, ioVars
<1>4. Written' = Written /\ RecordsOn(wal') = RecordsOn(wal)
  BY <1>3 DEF RecordsOn, Written
<1>5. logs'[u] = <<Rec(u, "start", 0)>> /\ \A t \in Tx : t # u => logs'[t] = logs[t]
  <2>1. Tx \subseteq 0..MaxTx
    BY BoundsNatural DEF Tx
  <2> QED
    BY <1>1, <1>2, <1>3, <2>1 DEF Batches
<1>6. Silent(u)
  <2>1. u \in 0..MaxTx
    BY <1>1, BoundsNatural DEF Tx
  <2> QED
    BY <1>1, <1>2, <1>a, <2>1, KeyedNone DEF Silent, IdsInv
<1>7. Of(Written, u) = {}
  <2>1. \A r \in Written : r.tx # u
    <3>1. \A r \in Written : r.tx <= lastTx
      BY WrittenRanked DEF TypeInv
    <3> QED
      BY <1>b, <3>1
  <2> QED
    BY <2>1 DEF Of
<1>8. EmptyInv'
  <2>1. -1 \in -1..0
    OBVIOUS
  <2> QED
    BY <1>1, <1>2, <1>3, <2>1 DEF EmptyInv
<1>9. ChainInv'
  <2> SUFFICES ASSUME NEW t \in Tx \ exposed PROVE OneHand(t)' /\ Chain(t)'
    BY <1>3 DEF ChainInv
  <2>1. CASE t = u
    <3>1. Rec(u, "start", 0) \in Record /\ IsNth(Rec(u, "start", 0), 0)
      BY <1>1, RecType, BoundsNatural DEF Rec, IsNth, Operations, Tx
    <3>2. Of(Written, t)' = {} /\ writes'[t] = 0
      BY <1>1, <1>2, <1>3, <1>4, <1>7, <2>1
    <3> QED
      BY <1>3, <1>5, <1>6, <2>1, <3>1, <3>2, ChainBegun DEF TypeInv
  <2>2. CASE t # u
    <3>1. OneHand(t) /\ Chain(t)
      BY DEF ChainInv
    <3>2. (\E d \in Clients : tx'[d] = t) => \E d \in Clients : tx[d] = t
      BY <1>2, <1>3, <2>2
    <3>3. writes'[t] = writes[t] /\ asked'[t] = asked[t]
      BY <1>2, <1>3, <2>2
    <3>4. Of(Written, t)' = Of(Written, t)
      BY <1>4
    <3> QED
      BY <1>3, <1>5, <2>2, <3>1, <3>2, <3>3, <3>4, ChainStays
  <2> QED
    BY <2>1, <2>2
<1>10. AskInv'
  <2> SUFFICES ASSUME NEW d \in Clients, NEW t \in Tx \ exposed', Committing(d, t)',
                      pc'[d] \in {"send", "await"}
               PROVE  Asking(d, t)'
    BY DEF AskInv
  <2>1. d # c /\ op[d] = "commit" /\ pc[d] \in {"send", "await"} /\ tx[d] = t
    BY <1>2, <1>3 DEF Committing
  <2>4. Asking(d, t)
    BY <1>3, <2>1 DEF AskInv, Committing
  <2>5. logs[t] = <<>> /\ \A x \in Clients : x # d => hand[x][t] = <<>>
    BY <2>4 DEF Asking
  <2>6. t # u
    <3>1. t <= lastTx
      BY <2>1 DEF CommitInv, IdsUnique
    <3> QED
      BY <1>b, <3>1
  <2>7. Of(Written, t)' = Of(Written, t)
    BY <1>4
  <2>8. Asking(d, t)'
    BY <1>3, <1>5, <2>4, <2>5, <2>6, <2>7, AskingStays
  <2> QED
    BY <2>8
<1>11. DoneInv'
  <2> SUFFICES ASSUME NEW t \in acked' \ exposed' PROVE Durable(t)'
    BY DEF DoneInv
  <2>1. Durable(t) /\ t \in Tx /\ t # u
    BY <1>2, <1>3 DEF DoneInv
  <2>2. \A d \in Clients : tx'[d] # t
    BY <1>2, <1>3, <2>1 DEF Durable
  <2>3. t <= lastTx'
    <3>1. t \in Nat
      BY <2>1 DEF Tx
    <3>2. t <= lastTx
      BY <2>1 DEF Durable
    <3> QED
      BY <1>1, <3>1, <3>2
  <2>4. writes'[t] = writes[t] /\ asked'[t] = asked[t] /\ logs'[t] = logs[t]
    BY <1>2, <1>3, <1>5, <2>1
  <2>5. /\ Of(Written, t)' = Of(Written, t) /\ Of(RecordsOn(wal), t) \subseteq RecordsOn(wal')
    BY <1>4 DEF Of
  <2> QED
    BY <1>3, <2>1, <2>2, <2>3, <2>4, <2>5, DurableStays DEF Durable, Silent
<1> QED
  BY <1>8, <1>9, <1>10, <1>11

LEMMA UpdatePipeline ==
    ASSUME TypeInv, CommitInv, PipelineInv, NEW c \in Clients, Update(c)
    PROVE  PipelineInv'
<1> USE DEF PipelineInv
<1>0. PICK u : u = tx[c]
  OBVIOUS
<1>1. pc[c] = "open" /\ u \in Tx /\ u # 0
  BY <1>0 DEF Update, TypeInv, Protocol, RunsTx, Tx
<1>2. /\ logs \in Batches
      /\ pc \in [Clients -> {"idle", "check", "flush", "send", "await", "snapshot", "open"}]
      /\ op \in [Clients -> {"none", "begin", "insert", "commit"}]
      /\ writes \in [Tx -> Nat] /\ asked \in [Tx -> Int]
  BY DEF TypeInv, TypeOK
<1>3. /\ UNCHANGED <<hand, ioq, batch, wal, current, ioPc, ioFrom, exposed, tx, asked, acked,
                     lastTx>>
      /\ logs' = [logs EXCEPT ![u] = Append(@, Rec(u, "insert", writes[u] + 1))]
      /\ writes' = [writes EXCEPT ![u] = @ + 1]
      /\ pc' = [pc EXCEPT ![c] = "check"] /\ op' = [op EXCEPT ![c] = "insert"]
  BY <1>0 DEF Update, ioVars
<1>4. Written' = Written /\ RecordsOn(wal') = RecordsOn(wal)
  BY <1>3 DEF RecordsOn, Written
<1>5. /\ logs'[u] = Append(logs[u], Rec(u, "insert", writes[u] + 1))
      /\ \A t \in Tx : t # u => logs'[t] = logs[t]
  <2>1. Tx \subseteq 0..MaxTx
    BY BoundsNatural DEF Tx
  <2> QED
    BY <1>1, <1>2, <1>3, <2>1 DEF Batches
<1>6. writes'[u] = writes[u] + 1 /\ \A t \in Tx : t # u => writes'[t] = writes[t]
  BY <1>1, <1>2, <1>3
<1>7. EmptyInv'
  <2>1. \A t \in Tx : asked'[t] \in -1..writes'[t]
    <3> SUFFICES ASSUME NEW t \in Tx PROVE asked[t] \in -1..writes'[t]
      BY <1>3
    <3>1. asked[t] \in -1..writes[t] /\ writes[t] \in Nat
      BY <1>2 DEF EmptyInv
    <3>2. writes'[t] \in {writes[t], writes[t] + 1}
      BY <1>6
    <3> QED
      BY <3>1, <3>2
  <2> QED
    BY <1>1, <1>2, <1>3, <2>1 DEF EmptyInv
<1>8. ChainInv'
  <2> SUFFICES ASSUME NEW t \in Tx \ exposed PROVE OneHand(t)' /\ Chain(t)'
    BY <1>3 DEF ChainInv
  <2>1. OneHand(t) /\ Chain(t)
    BY DEF ChainInv
  <2>2. Of(Written, t)' = Of(Written, t)
    BY <1>4
  <2>3. CASE t = u
    <3>1. writes[u] + 1 \in Nat /\ writes[u] + 1 > 0
      BY <1>1, <1>2
    <3>2. Rec(u, "insert", writes[u] + 1) \in Record
          /\ IsNth(Rec(u, "insert", writes[u] + 1), writes[u] + 1)
      BY <1>1, <3>1, RecType, BoundsNatural DEF Rec, IsNth, Operations, Tx
    <3>3. \A i \in DOMAIN logs[t] : logs[t][i].op # "commit"
      BY DEF CommitInv, LogInv, HasCommit
    <3> QED
      BY <1>0, <1>3, <1>5, <1>6, <2>1, <2>2, <2>3, <3>2, <3>3, ChainUpdated DEF TypeInv
  <2>4. CASE t # u
    BY <1>3, <1>5, <1>6, <2>1, <2>2, <2>4, ChainStays
  <2> QED
    BY <2>3, <2>4
<1>9. AskInv'
  <2> SUFFICES ASSUME NEW d \in Clients, NEW t \in Tx \ exposed', Committing(d, t)',
                      pc'[d] \in {"send", "await"}
               PROVE  Asking(d, t)'
    BY DEF AskInv
  <2>1. d # c /\ op[d] = "commit" /\ pc[d] \in {"send", "await"} /\ tx[d] = t
    BY <1>2, <1>3 DEF Committing
  <2>2. Asking(d, t)
    BY <1>3, <2>1 DEF AskInv, Committing
  <2>3. logs[t] = <<>> /\ \A x \in Clients : x # d => hand[x][t] = <<>>
    BY <2>2 DEF Asking
  <2>4. t # u
    BY <1>0, <1>1, <2>1 DEF CommitInv, IdsUnique
  <2>5. Of(Written, t)' = Of(Written, t)
    BY <1>4
  <2> QED
    BY <1>3, <1>5, <2>2, <2>3, <2>4, <2>5, AskingStays
<1>10. DoneInv'
  <2> SUFFICES ASSUME NEW t \in acked' \ exposed' PROVE Durable(t)'
    BY DEF DoneInv
  <2>1. Durable(t) /\ t \in Tx
    BY <1>3 DEF DoneInv, TypeInv, TypeOK
  <2>2. t # u
    BY <1>0, <2>1 DEF Durable
  <2>3. /\ Of(Written, t)' = Of(Written, t) /\ Of(RecordsOn(wal), t) \subseteq RecordsOn(wal')
    BY <1>4 DEF Of
  <2> QED
    BY <1>3, <1>5, <1>6, <2>1, <2>2, <2>3, DurableStays DEF Durable, Silent
<1> QED
  BY <1>7, <1>8, <1>9, <1>10

LEMMA FlushPipeline ==
    ASSUME TypeInv, CommitInv, PipelineInv, NEW c \in Clients, Flush(c)
    PROVE  PipelineInv'
<1> USE DEF PipelineInv
<1>1. /\ logs \in Batches /\ hand \in [Clients -> Batches]
      /\ pc \in [Clients -> {"idle", "check", "flush", "send", "await", "snapshot", "open"}]
      /\ acked \subseteq Tx
  BY DEF TypeInv, TypeOK
<1>2. /\ UNCHANGED <<ioq, batch, wal, current, ioPc, ioFrom, op, tx, writes, asked, acked,
                     lastTx>>
      /\ pc[c] = "flush" /\ hand' = [hand EXCEPT ![c] = logs] /\ logs' = NoBatch
      /\ exposed' = exposed \cup {t \in Tx : logs[t] # <<>> /\ Unsent(c, t)}
      /\ pc' = [pc EXCEPT ![c] = "send"]
  BY DEF Flush, ioVars
<1>3. Written' = Written /\ RecordsOn(wal') = RecordsOn(wal)
  BY <1>2 DEF RecordsOn, Written
<1>4. \A t \in Tx : logs'[t] = <<>> /\ hand'[c][t] = logs[t] /\ hand[c][t] = <<>>
  <2>1. Tx \subseteq 0..MaxTx
    BY BoundsNatural DEF Tx
  <2> QED
    BY <1>1, <1>2, <2>1 DEF NoBatch, EmptyInv
<1>5. \A d \in Clients : d # c => hand'[d] = hand[d]
  BY <1>1, <1>2
<1>6. EmptyInv'
  BY <1>1, <1>2, <1>5 DEF EmptyInv
<1>7. ChainInv'
  <2> SUFFICES ASSUME NEW t \in Tx \ exposed' PROVE OneHand(t)' /\ Chain(t)'
    BY DEF ChainInv
  <2>1. OneHand(t) /\ Chain(t)
    BY <1>2 DEF ChainInv
  <2>2. Of(Written, t)' = Of(Written, t)
    BY <1>3
  <2>3. CASE logs[t] = <<>>
    <3>1. \A d \in Clients : hand'[d][t] = hand[d][t]
      BY <1>4, <1>5, <2>3
    <3> QED
      BY <1>2, <1>4, <2>1, <2>2, <2>3, <3>1, ChainStays
  <2>4. CASE logs[t] # <<>>
    <3>1. ~ Unsent(c, t)
      BY <1>2, <2>4
    <3>2. \A d \in Clients : hand[d][t] = <<>>
      BY <1>4, <3>1 DEF Unsent, EmptyInv
    <3>3. \A i \in DOMAIN logs[t] : logs[t][i].op # "commit"
      BY DEF CommitInv, LogInv, HasCommit
    <3>4. \A d \in Clients : d # c => hand'[d][t] = <<>>
      BY <1>5, <3>2
    <3> QED
      BY <1>2, <1>4, <2>1, <2>2, <3>2, <3>3, <3>4, ChainTaken DEF TypeInv
  <2> QED
    BY <2>3, <2>4
<1>8. AskInv'
  <2> SUFFICES ASSUME NEW d \in Clients, NEW t \in Tx \ exposed', Committing(d, t)',
                      pc'[d] \in {"send", "await"}
               PROVE  Asking(d, t)'
    BY DEF AskInv
  <2>1. Committing(d, t) /\ d # c
    BY <1>2 DEF Committing, CommitInv, HandInv
  <2>2. pc[d] \in {"send", "await"}
    BY <1>1, <1>2, <2>1
  <2>3. Asking(d, t)
    BY <1>2, <2>1, <2>2 DEF AskInv
  <2>4. logs[t] = <<>> /\ \A x \in Clients : x # d => hand'[x][t] = <<>>
    BY <1>4, <1>5, <2>3 DEF Asking
  <2>5. Of(Written, t)' = Of(Written, t)
    BY <1>3
  <2> QED
    BY <1>2, <1>4, <2>3, <2>4, <2>5, AskingStays
<1>9. DoneInv'
  <2> SUFFICES ASSUME NEW t \in acked' \ exposed' PROVE Durable(t)'
    BY DEF DoneInv
  <2>1. Durable(t) /\ t \in Tx
    BY <1>1, <1>2 DEF DoneInv
  <2>2. /\ Of(Written, t)' = Of(Written, t) /\ Of(RecordsOn(wal), t) \subseteq RecordsOn(wal')
    BY <1>3 DEF Of
  <2>3. \A d \in Clients : hand'[d][t] = <<>>
    BY <1>4, <1>5, <2>1 DEF Durable, Silent
  <2> QED
    BY <1>2, <1>4, <2>1, <2>2, <2>3, DurableStays DEF Durable, Silent
<1> QED
  BY <1>6, <1>7, <1>8, <1>9

LEMMA DrainPipeline ==
    ASSUME TypeInv, CommitInv, PipelineInv, NEW c \in Clients, CommitDrain(c)
    PROVE  PipelineInv'
<1> USE DEF PipelineInv
<1>0. PICK u : u = tx[c]
  OBVIOUS
<1>1. /\ logs \in Batches /\ hand \in [Clients -> Batches]
      /\ pc \in [Clients -> {"idle", "check", "flush", "send", "await", "snapshot", "open"}]
      /\ op \in [Clients -> {"none", "begin", "insert", "commit"}]
      /\ writes \in [Tx -> Nat] /\ asked \in [Tx -> Int] /\ acked \subseteq Tx
      /\ Tx \subseteq 0..MaxTx
  <2>1. Tx \subseteq 0..MaxTx
    BY BoundsNatural DEF Tx
  <2> QED
    BY <2>1 DEF TypeInv, TypeOK
<1>2. /\ UNCHANGED <<ioq, batch, wal, current, ioPc, ioFrom, tx, writes, acked, lastTx>>
      /\ pc[c] = "open" /\ hand' = [hand EXCEPT ![c] = CommitBatch(u)]
      /\ logs' = [logs EXCEPT ![u] = <<>>]
      /\ exposed' = IF Unsent(c, u) THEN exposed \cup {u} ELSE exposed
      /\ asked' = [asked EXCEPT ![u] = IF @ = -1 THEN writes[u] ELSE @]
      /\ pc' = [pc EXCEPT ![c] = "send"] /\ op' = [op EXCEPT ![c] = "commit"]
  BY <1>0 DEF CommitDrain, ioVars
<1>3. Written' = Written /\ RecordsOn(wal') = RecordsOn(wal)
  BY <1>2 DEF RecordsOn, Written
<1>4. u \in Tx
  BY <1>0, <1>2 DEF TypeInv, Protocol, RunsTx
<1>5. /\ logs'[u] = <<>> /\ hand'[c][u] = Append(logs[u], Rec(u, "commit", 0))
      /\ \A t \in Tx : t # u => logs'[t] = logs[t] /\ hand'[c][t] = <<>>
  BY <1>1, <1>2, <1>4 DEF CommitBatch, NoBatch, Batches
<1>6. /\ \A d \in Clients : d # c => hand'[d] = hand[d] /\ pc'[d] = pc[d] /\ op'[d] = op[d]
      /\ \A t \in Tx : hand[c][t] = <<>>
  BY <1>1, <1>2 DEF EmptyInv
<1>7. /\ asked'[u] \in 0..writes[u] /\ asked[u] \in {-1, asked'[u]}
      /\ \A t \in Tx : t # u => asked'[t] = asked[t]
  <2>1. asked[u] \in -1..writes[u] /\ writes[u] \in Nat
    BY <1>1, <1>4 DEF EmptyInv
  <2>2. asked'[u] = IF asked[u] = -1 THEN writes[u] ELSE asked[u]
    BY <1>1, <1>2, <1>4
  <2>3. \A t \in Tx : t # u => asked'[t] = asked[t]
    BY <1>1, <1>2, <1>4
  <2> QED
    BY <2>1, <2>2, <2>3
<1>8. EmptyInv'
  <2>1. \A t \in Tx : asked'[t] \in -1..writes'[t]
    <3> SUFFICES ASSUME NEW t \in Tx PROVE asked'[t] \in -1..writes[t]
      BY <1>2
    <3>1. CASE t = u
      BY <1>7, <3>1
    <3>2. CASE t # u
      BY <1>7, <3>2 DEF EmptyInv
    <3> QED
      BY <3>1, <3>2
  <2> QED
    BY <1>1, <1>2, <1>6, <2>1 DEF EmptyInv
<1>9. ~ Unsent(c, u) => \A d \in Clients : hand[d][u] = <<>>
  BY <1>4, <1>6 DEF Unsent, EmptyInv
<1>10. ChainInv'
  <2> SUFFICES ASSUME NEW t \in Tx \ exposed' PROVE OneHand(t)' /\ Chain(t)'
    BY DEF ChainInv
  <2>1. OneHand(t) /\ Chain(t)
    BY <1>2 DEF ChainInv
  <2>2. Of(Written, t)' = Of(Written, t)
    BY <1>3
  <2>3. CASE t = u
    <3>1. \A d \in Clients : hand[d][u] = <<>>
      BY <1>2, <1>9, <2>3
    <3>2. \A i \in DOMAIN logs[u] : logs[u][i].op # "commit"
      BY <1>4 DEF CommitInv, LogInv, HasCommit
    <3>3. \A d \in Clients : d # c => hand'[d][u] = <<>>
      BY <1>6, <3>1
    <3>4. Rec(u, "commit", 0) \in Record /\ Rec(u, "commit", 0).op = "commit"
      BY <1>1, <1>4, RecType DEF Rec, Operations
    <3> QED
      BY <1>0, <1>2, <1>5, <1>7, <2>1, <2>2, <2>3, <3>1, <3>2, <3>3, <3>4, ChainTaken DEF TypeInv
  <2>4. CASE t # u
    <3>1. \A d \in Clients : hand'[d][t] = hand[d][t]
      BY <1>5, <1>6, <2>4
    <3> QED
      BY <1>2, <1>5, <1>7, <2>1, <2>2, <2>4, <3>1, ChainStays
  <2> QED
    BY <2>3, <2>4
<1>11. AskInv'
  <2> SUFFICES ASSUME NEW d \in Clients, NEW t \in Tx \ exposed', Committing(d, t)',
                      pc'[d] \in {"send", "await"}
               PROVE  Asking(d, t)'
    BY DEF AskInv
  <2>1. tx[d] = t
    BY <1>2 DEF Committing
  <2>2. CASE d = c
    <3>1. t = u
      BY <1>0, <2>1, <2>2
    <3>2. \A x \in Clients : x # c => hand'[x][t] = <<>>
      BY <1>2, <1>6, <1>9, <3>1
    <3>3. /\ \A k \in DOMAIN ioq' : ioq'[k].from # c
          /\ ioPc' # "recv" => ioFrom' # c
      BY <1>2 DEF TypeInv, Protocol, Awaited
    <3> QED
      BY <1>5, <2>2, <3>1, <3>2, <3>3 DEF Asking
  <2>3. CASE d # c
    <3>1. op[d] = "commit" /\ pc[d] \in {"send", "await"}
      BY <1>6, <2>3 DEF Committing
    <3>2. Asking(d, t)
      BY <1>2, <2>1, <3>1 DEF AskInv, Committing
    <3>3. t # u
      BY <1>0, <1>4, <2>1, <2>3 DEF CommitInv, IdsUnique, Tx
    <3>4. logs'[t] = <<>> /\ \A x \in Clients : x # d => hand'[x][t] = <<>>
      BY <1>5, <1>6, <3>2, <3>3 DEF Asking
    <3>5. Of(Written, t)' = Of(Written, t)
      BY <1>3
    <3> QED
      BY <1>2, <3>2, <3>4, <3>5, AskingStays
  <2> QED
    BY <2>2, <2>3
<1>12. DoneInv'
  <2> SUFFICES ASSUME NEW t \in acked' \ exposed' PROVE Durable(t)'
    BY DEF DoneInv
  <2>1. Durable(t) /\ t \in Tx
    BY <1>1, <1>2 DEF DoneInv
  <2>2. t # u
    BY <1>0, <2>1 DEF Durable
  <2>3. /\ Of(Written, t)' = Of(Written, t) /\ Of(RecordsOn(wal), t) \subseteq RecordsOn(wal')
    BY <1>3 DEF Of
  <2>4. \A d \in Clients : hand'[d][t] = <<>>
    BY <1>5, <1>6, <2>1, <2>2 DEF Durable, Silent
  <2> QED
    BY <1>2, <1>5, <1>7, <2>1, <2>2, <2>3, <2>4, DurableStays DEF Durable, Silent
<1> QED
  BY <1>8, <1>10, <1>11, <1>12

\* A request enters the channel: a client's with what it took, or a checkpoint.
LEMMA SentPipeline ==
    ASSUME TypeInv, PipelineInv, NEW r, ioq' = Append(ioq, r),
           UNCHANGED <<logs, batch, wal, current, ioPc, ioFrom, op, tx, writes, asked, acked,
                       lastTx, exposed>>,
           \/ \E c \in Clients : /\ pc[c] = "send" /\ r.from = c /\ r.records = hand[c]
                                 /\ hand' = [hand EXCEPT ![c] = NoBatch]
                                 /\ pc' = [pc EXCEPT ![c] = "await"]
           \/ /\ r.from = Checkpointer /\ \A t \in Tx : r.records[t] = <<>>
              /\ UNCHANGED <<hand, pc>>
    PROVE  PipelineInv'
<1> USE DEF PipelineInv
<1>1. /\ hand \in [Clients -> Batches] /\ acked \subseteq Tx
      /\ pc \in [Clients -> {"idle", "check", "flush", "send", "await", "snapshot", "open"}]
  BY DEF TypeInv, TypeOK
<1>a. \A t \in Tx : NoBatch[t] = <<>>
  BY BoundsNatural DEF NoBatch, Tx
<1>2. Written' = Written /\ RecordsOn(wal') = RecordsOn(wal)
  BY DEF RecordsOn, Written
<1>b. ASSUME NEW c \in Clients, pc[c] = "send", r.records = hand[c],
             hand' = [hand EXCEPT ![c] = NoBatch], pc' = [pc EXCEPT ![c] = "await"]
      PROVE  /\ \A t \in Tx : r.records[t] = hand[c][t] /\ hand'[c][t] = <<>>
             /\ \A d \in Clients : d # c => hand'[d] = hand[d] /\ pc'[d] = pc[d]
  BY <1>1, <1>a, <1>b
<1>3. ASSUME NEW t \in Tx
      PROVE  \/ r.records[t] = <<>> /\ \A c \in Clients : hand'[c][t] = hand[c][t]
             \/ \E c \in Clients : /\ r.records[t] = hand[c][t] /\ hand'[c][t] = <<>>
                                   /\ \A d \in Clients : d # c => hand'[d][t] = hand[d][t]
  BY <1>b
<1>4. /\ \A c \in Clients : \A t \in Tx : hand[c][t] = <<>> => hand'[c][t] = <<>>
      /\ \A c \in Clients : pc'[c] # "send" /\ pc[c] = "send" => \A t \in Tx : hand'[c][t] = <<>>
      /\ \A c \in Clients : pc'[c] \in {"send", "await"} => pc[c] \in {"send", "await"}
  BY <1>b
<1>5. /\ \A k \in DOMAIN ioq : k \in DOMAIN ioq' /\ ioq'[k] = ioq[k]
      /\ \A k \in DOMAIN ioq' : k \in DOMAIN ioq \/ (k = Len(ioq) + 1 /\ ioq'[k] = r)
      /\ DOMAIN ioq = 1..Len(ioq) /\ DOMAIN ioq' = 1..Len(ioq) + 1 /\ Len(ioq) \in Nat
  BY AppendRequest DEF TypeInv
<1>6. EmptyInv'
  BY <1>4 DEF EmptyInv
<1>7. ChainInv'
  <2> SUFFICES ASSUME NEW t \in Tx \ exposed PROVE OneHand(t)' /\ Chain(t)'
    BY DEF ChainInv
  <2>1. OneHand(t) /\ Chain(t) /\ Of(Written, t)' = Of(Written, t)
    BY <1>2 DEF ChainInv
  <2> QED
    BY <1>3, <2>1, ChainSent DEF TypeInv
<1>8. AskInv'
  <2> SUFFICES ASSUME NEW d \in Clients, NEW t \in Tx \ exposed', Committing(d, t)',
                      pc'[d] \in {"send", "await"}
               PROVE  Asking(d, t)'
    BY DEF AskInv
  <2>1. Asking(d, t)
    BY <1>4 DEF AskInv, Committing
  <2>2. logs'[t] = <<>> /\ \A x \in Clients : x # d => hand'[x][t] = <<>>
    BY <1>4, <2>1 DEF Asking
  <2>3. ASSUME NEW k \in Written, Closes(k, t) PROVE k \in Written' /\ Closes(k, t)'
    BY <1>2, <2>3 DEF Closes
  <2>4. CASE r.from = d
    <3>1. pc[d] = "send"
      BY <2>4, SendersDiffer
    <3>2. /\ \A k \in DOMAIN ioq : ioq[k].from # d
          /\ ioPc # "recv" => ioFrom # d
      BY <3>1 DEF TypeInv, Protocol, Awaited
    <3>3. \A k \in DOMAIN ioq' : ioq'[k].from = d => k = Len(ioq) + 1
      BY <1>5, <3>2
    <3>4. \A k, l \in DOMAIN ioq' : k = Len(ioq) + 1 => ~ (l > k)
      BY <1>5
    <3>5. ioPc' # "recv" => ioFrom' # d
      BY <3>2
    <3> QED
      BY <2>2, <3>3, <3>4, <3>5 DEF Asking
  <2>5. CASE r.from # d
    <3>1. r.records[t] = <<>>
      BY <2>1, <2>5 DEF Asking
    <3>2. \A k \in DOMAIN ioq' : ioq'[k].from = d => k \in DOMAIN ioq /\ ioq[k].from = d
      BY <1>5, <2>5
    <3>3. ASSUME NEW k \in DOMAIN ioq', ioq'[k].from = d, NEW l \in DOMAIN ioq', l > k
          PROVE  ioq'[l].records[t] = <<>>
      BY <1>5, <2>1, <3>1, <3>2, <3>3 DEF Asking
    <3>4. ASSUME ioPc' # "recv", ioFrom' = d
          PROVE  /\ \A l \in DOMAIN ioq' : ioq'[l].records[t] = <<>>
                 /\ IF batch'[t] = <<>> THEN \E k \in Written' : Closes(k, t)'
                    ELSE batch'[t][Len(batch'[t])].op = "commit"
      BY <1>5, <2>1, <2>3, <3>1, <3>4 DEF Asking
    <3> QED
      BY <2>2, <3>3, <3>4 DEF Asking
  <2> QED
    BY <2>4, <2>5
<1>9. DoneInv'
  <2> SUFFICES ASSUME NEW t \in acked' \ exposed' PROVE Durable(t)'
    BY DEF DoneInv
  <2>1. Durable(t) /\ t \in Tx
    BY <1>1 DEF DoneInv
  <2>2. /\ Of(Written, t)' = Of(Written, t) /\ Of(RecordsOn(wal), t) \subseteq RecordsOn(wal')
    BY <1>2 DEF Of
  <2>3. /\ \A d \in Clients : hand[d][t] = <<>> /\ hand'[d][t] = <<>>
        /\ r.records[t] = <<>>
    BY <1>4, <2>1 DEF Durable, Silent
  <2>4. \A k \in DOMAIN ioq' : ioq'[k].records[t] = <<>>
    BY <1>5, <2>1, <2>3 DEF Durable, Silent
  <2> QED
    BY <2>1, <2>2, <2>3, <2>4, DurableStays DEF Durable, Silent
<1> QED
  BY <1>6, <1>7, <1>8, <1>9

LEMMA SendersPipeline ==
    ASSUME TypeInv, PipelineInv, CkFlushed \/ \E c \in Clients : Send(c)
    PROVE  PipelineInv'
<1>1. ASSUME NEW c \in Clients, Send(c) PROVE PipelineInv'
  <2>1. /\ UNCHANGED <<logs, batch, wal, current, ioPc, ioFrom, op, tx, writes, asked, acked,
                       lastTx, exposed>>
        /\ pc[c] = "send" /\ hand' = [hand EXCEPT ![c] = NoBatch]
        /\ pc' = [pc EXCEPT ![c] = "await"]
        /\ ioq' = Append(ioq, [from |-> c, records |-> hand[c]])
    BY <1>1 DEF Send, bufferVars, ioVars, history, coverage
  <2>2. PICK r : r = [from |-> c, records |-> hand[c]]
    OBVIOUS
  <2>3. r.from = c /\ r.records = hand[c] /\ ioq' = Append(ioq, r)
    BY <2>1, <2>2
  <2> QED
    BY <2>1, <2>3, SentPipeline
<1>2. CASE CkFlushed
  <2>1. UNCHANGED <<logs, batch, wal, current, ioPc, ioFrom, op, tx, writes, asked, acked,
                    lastTx, exposed, hand, pc>>
    BY <1>2 DEF CkFlushed, bufferVars, clientVars, ioVars, history, coverage
  <2>2. PICK i : ioq' = Append(ioq, [from |-> Checkpointer,
                                     records |-> [NoBatch EXCEPT ![0] =
                                                    <<Rec(0, "checkpoint", i)>>]])
    BY <1>2 DEF CkFlushed
  <2>3. PICK r : r = [from |-> Checkpointer,
                      records |-> [NoBatch EXCEPT ![0] = <<Rec(0, "checkpoint", i)>>]]
    OBVIOUS
  <2>4. r.from = Checkpointer /\ ioq' = Append(ioq, r)
    BY <2>2, <2>3
  <2>5. \A t \in Tx : r.records[t] = <<>>
    <3>1. r.records = [NoBatch EXCEPT ![0] = <<Rec(0, "checkpoint", i)>>]
      BY <2>3
    <3>2. \A t \in Tx : t \in 0..MaxTx /\ t # 0
      BY BoundsNatural DEF Tx
    <3> QED
      BY <3>1, <3>2 DEF NoBatch
  <2> QED
    BY <2>1, <2>4, <2>5, SentPipeline
<1> QED
  BY <1>1, <1>2

LEMMA ReceivedPipeline ==
    ASSUME TypeInv, CommitInv, PipelineInv, IoRecv
    PROVE  PipelineInv'
<1> USE DEF PipelineInv
<1>1. /\ UNCHANGED <<logs, hand, pc, op, tx, wal, current, writes, asked, acked, lastTx, exposed>>
      /\ ioPc = "recv" /\ ioPc' = "loop" /\ ioq # <<>> /\ ioq' = Tail(ioq)
      /\ ioFrom' = Head(ioq).from /\ batch' = Head(ioq).records
  BY DEF IoRecv, bufferVars, clientVars, history, coverage
<1>2. Written' = Written /\ RecordsOn(wal') = RecordsOn(wal)
  BY <1>1 DEF RecordsOn, Written
<1>3. /\ Head(ioq) = ioq[1] /\ 1 \in DOMAIN ioq
      /\ \A k \in DOMAIN ioq' : k + 1 \in DOMAIN ioq /\ ioq'[k] = ioq[k + 1] /\ k \in Nat /\ k > 0
  <2>1. \A k \in DOMAIN ioq' : k \in Nat /\ k > 0
    BY <1>1 DEF TypeInv, TypeOK
  <2> QED
    BY <1>1, <2>1, TakeRequest DEF TypeInv
<1>4. \A t \in Tx : batch[t] = <<>>
  BY <1>1 DEF EmptyInv
<1>5. EmptyInv'
  BY <1>1 DEF EmptyInv
<1>6. ChainInv'
  <2> SUFFICES ASSUME NEW t \in Tx \ exposed PROVE OneHand(t)' /\ Chain(t)'
    BY <1>1 DEF ChainInv
  <2>1. OneHand(t) /\ Chain(t) /\ Of(Written, t)' = Of(Written, t)
    BY <1>2 DEF ChainInv
  <2> QED
    BY <1>1, <1>4, <2>1, ChainReceived DEF TypeInv
<1>7. AskInv'
  <2> SUFFICES ASSUME NEW d \in Clients, NEW t \in Tx \ exposed', Committing(d, t)',
                      pc'[d] \in {"send", "await"}
               PROVE  Asking(d, t)'
    BY DEF AskInv
  <2>1. Committing(d, t) /\ Asking(d, t) /\ t \in Tx \ exposed
    BY <1>1 DEF AskInv, Committing
  <2>2. logs'[t] = <<>> /\ \A x \in Clients : x # d => hand'[x][t] = <<>>
    BY <1>1, <2>1 DEF Asking
  <2>3. ASSUME NEW k \in DOMAIN ioq', ioq'[k].from = d, NEW l \in DOMAIN ioq', l > k
        PROVE  ioq'[l].records[t] = <<>>
    <3>1. l + 1 > k + 1
      BY <1>3, <2>3
    <3> QED
      BY <1>3, <2>1, <2>3, <3>1 DEF Asking
  <2>4. ASSUME ioFrom' = d
        PROVE  /\ \A l \in DOMAIN ioq' : ioq'[l].records[t] = <<>>
               /\ batch'[t] # <<>> /\ batch'[t][Len(batch'[t])].op = "commit"
    <3>1. ioq[1].from = d /\ batch' = ioq[1].records
      BY <1>1, <1>3, <2>4
    <3>2. \A l \in DOMAIN ioq' : l + 1 > 1
      BY <1>3
    <3>3. \A l \in DOMAIN ioq' : ioq'[l].records[t] = <<>>
      BY <1>3, <2>1, <3>1, <3>2 DEF Asking
    <3>4. HasCommit(ioq[1].records, t)
      BY <1>3, <2>1, <3>1 DEF CommitInv, ChannelInv, Committing
    <3>5. PICK i \in DOMAIN batch'[t] : batch'[t][i].op = "commit"
      BY <3>1, <3>4 DEF HasCommit
    <3>6. batch'[t] \in Seq(Record)
      <4>1. t \in 0..MaxTx
        BY BoundsNatural DEF Tx
      <4>2. ioq[1].records \in Batches
        BY <1>3, RequestType DEF TypeInv
      <4> QED
        BY <3>1, <4>1, <4>2 DEF Batches
    <3>7. PICK q \in [0..Len(ioq) -> Nat] :
            \A k \in 1..Len(ioq) : Run(ioq[k].records[t], q[k - 1], q[k], asked[t])
      BY <2>1 DEF ChainInv, Chain, Chained
    <3>8. 1 \in 1..Len(ioq) /\ Len(ioq) \in Nat /\ 1 - 1 = 0
      BY <1>3 DEF TypeInv, TypeOK
    <3>9. Run(batch'[t], q[1 - 1], q[1], asked[t]) /\ q[1 - 1] \in Nat /\ q[1] \in Nat
      BY <3>1, <3>7, <3>8
    <3>10. i = Len(batch'[t])
      BY <3>5, <3>6, <3>9, RunLast
    <3>11. batch'[t] # <<>>
      BY <3>5
    <3> QED
      BY <3>3, <3>5, <3>10, <3>11
  <2> QED
    BY <2>2, <2>3, <2>4 DEF Asking
<1>8. DoneInv'
  <2> SUFFICES ASSUME NEW t \in acked' \ exposed' PROVE Durable(t)'
    BY DEF DoneInv
  <2>1. Durable(t) /\ t \in Tx
    BY <1>1 DEF DoneInv, TypeInv, TypeOK
  <2>2. /\ Of(Written, t)' = Of(Written, t) /\ Of(RecordsOn(wal), t) \subseteq RecordsOn(wal')
    BY <1>2 DEF Of
  <2>3. batch'[t] = <<>> /\ \A k \in DOMAIN ioq' : ioq'[k].records[t] = <<>>
    BY <1>1, <1>3, <2>1 DEF Durable, Silent
  <2> QED
    BY <1>1, <2>1, <2>2, <2>3, DurableStays DEF Durable, Silent
<1> QED
  BY <1>5, <1>6, <1>7, <1>8

\* The io thread gives the next record its index and puts it into the entry.
LEMMA PlacedPipeline ==
    ASSUME TypeInv, CommitInv, IdsInv, FileInv, PipelineInv, NEW u \in 0..MaxTx,
           IsFirst(batch, u), ioPc # "recv", ioPc' # "recv",
           NEW entry \in Seq(Record), Place(u, entry),
           UNCHANGED <<logs, hand, pc, op, tx, ioq, ioFrom, writes, asked, acked, lastTx>>,
           RecordsOn(wal') \cup ToSet(entry) \subseteq Written, exposed \subseteq exposed',
           \A r \in Written : \/ r \in RecordsOn(wal') \cup ToSet(entry)
                              \/ r.tx = 0 \/ r.tx \in exposed',
           \A r \in RecordsOn(wal) : r \in RecordsOn(wal') \/ r.tx = 0 \/ r.tx \in exposed'
    PROVE  PipelineInv'
<1> USE DEF PipelineInv
<1>0. PICK r : r = [Head(batch[u]) EXCEPT !.index = lastIndex + 1]
  OBVIOUS
<1>1. Head(batch[u]) \in Record /\ Head(batch[u]).tx = u
  BY KeyedFirst DEF IdsInv, TypeInv
<1>2. lastIndex \in Nat /\ batch \in Batches /\ batch[u] # <<>> /\ batch[u] \in Seq(Record)
  BY DEF TypeInv, TypeOK, IsFirst, Batches
<1>3. current' = Append(entry, r) /\ batch'[u] = Tail(batch[u])
      /\ \A t \in Tx : t # u => batch'[t] = batch[t]
  <2>1. Tx \subseteq 0..MaxTx
    BY BoundsNatural DEF Tx
  <2> QED
    BY <1>0, <1>2, <2>1 DEF Place, Batches
<1>4. /\ r \in Record /\ r.index = lastIndex + 1 /\ r.tx = u
      /\ r.op = Head(batch[u]).op /\ r.n = Head(batch[u]).n
  <2>1. Head(batch[u]) \in [index : Nat, tx : 0..MaxTx, op : Operations, n : Nat]
    BY <1>1 DEF Record
  <2>2. lastIndex + 1 \in Nat
    BY <1>2
  <2>3. /\ r \in [index : Nat, tx : 0..MaxTx, op : Operations, n : Nat]
        /\ r.index = lastIndex + 1 /\ r.tx = Head(batch[u]).tx
        /\ r.op = Head(batch[u]).op /\ r.n = Head(batch[u]).n
    BY <1>0, <2>1, <2>2
  <2> QED
    BY <1>1, <2>3 DEF Record
<1>5. Written' = RecordsOn(wal') \cup ToSet(entry) \cup {r}
  BY <1>3, <1>4, SetOfAppend DEF Written
<1>6. ASSUME NEW t \in Tx \ exposed'
      PROVE  /\ t = u => Of(Written, t)' = Of(Written, t) \cup {r}
             /\ t # u => Of(Written, t)' = Of(Written, t)
             /\ Of(RecordsOn(wal), t) \subseteq RecordsOn(wal')
  <2>1. t # 0
    BY DEF Tx
  <2> QED
    BY <1>4, <1>5, <2>1 DEF Of
<1>7. \A s \in Written : s.index \in Nat /\ s.index < r.index
  <2>1. \A s \in Written : s.index \in 1..lastIndex
    BY WrittenRanked DEF TypeInv
  <2> QED
    BY <1>2, <1>4, <2>1
<1>8. EmptyInv'
  BY DEF EmptyInv
<1>9. ChainInv'
  <2> SUFFICES ASSUME NEW t \in Tx \ exposed' PROVE OneHand(t)' /\ Chain(t)'
    BY DEF ChainInv
  <2>1. OneHand(t) /\ Chain(t)
    BY DEF ChainInv
  <2>2. CASE t = u
    <3>1. \A s \in Of(Written, t) : s.index \in Nat /\ s.index < r.index
      BY <1>7 DEF Of
    <3>2. r.index \in Nat
      BY <1>2, <1>4
    <3> QED
      BY <1>2, <1>3, <1>4, <1>6, <2>1, <2>2, <3>1, <3>2, ChainPlaced DEF TypeInv
  <2>3. CASE t # u
    BY <1>3, <1>6, <2>1, <2>3, ChainStays
  <2> QED
    BY <2>2, <2>3
<1>10. AskInv'
  <2> SUFFICES ASSUME NEW d \in Clients, NEW t \in Tx \ exposed', Committing(d, t)',
                      pc'[d] \in {"send", "await"}
               PROVE  Asking(d, t)'
    BY DEF AskInv
  <2>1. Asking(d, t)
    BY DEF AskInv, Committing
  <2>2. logs'[t] = <<>> /\ \A x \in Clients : x # d => hand'[x][t] = <<>>
    BY <2>1 DEF Asking
  <2>3. CASE t # u
    BY <1>3, <1>6, <2>1, <2>2, <2>3, AskingStays
  <2>4. CASE t = u
    <3>1. ASSUME ioFrom = d
          PROVE  IF batch'[t] = <<>> THEN \E k \in Written' : Closes(k, t)'
                 ELSE batch'[t][Len(batch'[t])].op = "commit"
      <4>1. batch[t][Len(batch[t])].op = "commit"
        BY <1>2, <2>1, <2>4, <3>1 DEF Asking
      <4>2. /\ Len(batch[t]) \in Nat /\ Len(batch[t]) > 0 /\ Head(batch[t]) = batch[t][1]
            /\ Tail(batch[t]) \in Seq(Record) /\ Len(Tail(batch[t])) = Len(batch[t]) - 1
            /\ \A i \in 1..Len(Tail(batch[t])) : Tail(batch[t])[i] = batch[t][i + 1]
        BY <1>2, <2>4
      <4>3. CASE Tail(batch[t]) = <<>>
        <5>1. Len(batch[t]) = 1
          <6>1. Len(<<>>) = 0
            OBVIOUS
          <6>2. Len(Tail(batch[t])) = 0
            BY <4>3, <6>1, Zenon
          <6> QED
            BY <4>2, <6>2
        <5>2. CommitOf(r, t)
          BY <1>4, <2>4, <4>1, <4>2, <5>1 DEF CommitOf
        <5>3. \A s \in Of(Written, t)' : s.index <= r.index
          BY <1>2, <1>4, <1>6, <1>7, <2>4 DEF Of
        <5>4. r \in Written' /\ Closes(r, t)'
          BY <1>5, <5>2, <5>3 DEF Closes
        <5> QED
          BY <1>3, <2>4, <4>3, <5>4
      <4>4. CASE Tail(batch[t]) # <<>>
        <5>1. Len(Tail(batch[t])) \in 1..Len(Tail(batch[t]))
          BY <4>2, <4>4, EmptySeq
        <5>2. Tail(batch[t])[Len(Tail(batch[t]))] = batch[t][Len(batch[t])]
          BY <4>2, <5>1
        <5> QED
          BY <1>3, <2>4, <4>1, <4>4, <5>2
      <4> QED
        BY <4>3, <4>4
    <3> QED
      BY <2>1, <2>2, <3>1 DEF Asking
  <2> QED
    BY <2>3, <2>4
<1>11. DoneInv'
  <2> SUFFICES ASSUME NEW t \in acked' \ exposed' PROVE Durable(t)'
    BY DEF DoneInv
  <2>1. Durable(t) /\ t \in Tx
    BY DEF DoneInv, TypeInv, TypeOK
  <2>2. t # u
    BY <1>2, <2>1 DEF Durable, Silent
  <2>3. Of(Written, t)' = Of(Written, t) /\ Of(RecordsOn(wal), t) \subseteq RecordsOn(wal')
    BY <1>6, <2>1, <2>2
  <2> QED
    BY <1>3, <2>1, <2>2, <2>3, DurableStays DEF Durable, Silent
<1> QED
  BY <1>8, <1>9, <1>10, <1>11

LEMMA WrittenPipeline ==
    ASSUME TypeInv, CommitInv, IdsInv, FileInv, PipelineInv, IoRecord \/ SwitchDone
    PROVE  PipelineInv'
<1> DEFINE w == [wal EXCEPT ![cursor] = current]
<1>1. /\ current \in Seq(Record)
      /\ ToSet(current) \subseteq RecordsOn(w) /\ RecordsOn(w) \subseteq Written
      /\ \A r \in RecordsOn(wal) :
           r \in RecordsOn(w) \/ r.tx = 0 \/ r.tx \in Overwritten(cursor, current)
  BY WriteKeeps DEF TypeInv, TypeOK
<1> HIDE DEF w
<1>2. CASE IoRecord
  <2>1. PICK t \in 0..MaxTx :
          /\ IsFirst(batch, t)
          /\ \/ Place(t, current) /\ ioPc' = ioPc
             \/ ioPc' = "switch" /\ UNCHANGED <<current, batch, lastIndex>>
    BY <1>2 DEF IoRecord
  <2>2. /\ UNCHANGED <<logs, hand, pc, op, tx, ioq, ioFrom, writes, asked, acked, lastTx, wal,
                       exposed>>
        /\ ioPc = "loop"
    BY <1>2 DEF IoRecord, bufferVars, clientVars
  <2>3. RecordsOn(wal') = RecordsOn(wal)
    BY <2>2 DEF RecordsOn
  <2>4. CASE Place(t, current) /\ ioPc' = ioPc
    <3>1. ioPc # "recv" /\ ioPc' # "recv"
      BY <2>2, <2>4
    <3>2. RecordsOn(wal') \cup ToSet(current) = Written
      BY <2>3 DEF Written
    <3> QED
      BY <1>1, <2>1, <2>2, <2>3, <2>4, <3>1, <3>2, PlacedPipeline
  <2>5. CASE ioPc' = "switch" /\ UNCHANGED <<current, batch, lastIndex>>
    <3>1. \A t1 \in Tx : /\ Of(Written, t1)' = Of(Written, t1)
                         /\ Of(RecordsOn(wal), t1) \subseteq RecordsOn(wal')
      BY <2>3, <2>5 DEF Of, Written
    <3>2. acked' \subseteq Tx
      BY <2>2 DEF TypeInv, TypeOK
    <3> QED
      BY <2>2, <2>5, <3>1, <3>2, PipelineStays
  <2> QED
    BY <2>1, <2>4, <2>5
<1>3. CASE SwitchDone
  <2>1. PICK t \in 0..MaxTx : IsFirst(batch, t) /\ Place(t, <<>>)
    BY <1>3 DEF SwitchDone
  <2>2. /\ UNCHANGED <<logs, hand, pc, op, tx, ioq, ioFrom, writes, asked, acked, lastTx>>
        /\ ioPc = "switch" /\ ioPc' = "loop" /\ wal' = w
        /\ exposed' = exposed \cup Overwritten(cursor, current)
    BY <1>3 DEF SwitchDone, bufferVars, clientVars, w
  <2>3. /\ RecordsOn(wal') \cup ToSet(<<>>) \subseteq Written
        /\ \A r \in Written : \/ r \in RecordsOn(wal') \cup ToSet(<<>>)
                              \/ r.tx = 0 \/ r.tx \in exposed'
        /\ \A r \in RecordsOn(wal) : r \in RecordsOn(wal') \/ r.tx = 0 \/ r.tx \in exposed'
    BY <1>1, <2>2, SetOfNone DEF Written
  <2>4. ioPc # "recv" /\ ioPc' # "recv" /\ <<>> \in Seq(Record) /\ exposed \subseteq exposed'
    BY <2>2, EmptySeq
  <2> QED
    BY <2>1, <2>2, <2>3, <2>4, PlacedPipeline
<1> QED
  BY <1>2, <1>3

\* An answer to a request: an acknowledged commit is on disk, with all of its transaction.
LEMMA AnsweredPipeline ==
    ASSUME TypeInv, CommitInv, IdsInv, FileInv, PipelineInv, SwitchFail \/ WriteDone \/ WriteFail
    PROVE  PipelineInv'
<1> USE DEF PipelineInv
<1> DEFINE w == [wal EXCEPT ![cursor] = current]
<1>1. /\ current \in Seq(Record)
      /\ ToSet(current) \subseteq RecordsOn(w) /\ RecordsOn(w) \subseteq Written
      /\ \A r \in RecordsOn(wal) :
           r \in RecordsOn(w) \/ r.tx = 0 \/ r.tx \in Overwritten(cursor, current)
  BY WriteKeeps DEF TypeInv, TypeOK
<1>2. /\ UNCHANGED <<logs, hand, ioq, writes, asked, lastTx, ioFrom>>
      /\ ioPc # "recv" /\ wal' \in {wal, w} /\ exposed \subseteq exposed'
      /\ Overwritten(cursor, current) \subseteq exposed'
  BY DEF SwitchFail, WriteDone, WriteFail, Writing, bufferVars
<1> HIDE DEF w
<1>3. /\ pc \in [Clients -> {"idle", "check", "flush", "send", "await", "snapshot", "open"}]
      /\ op \in [Clients -> {"none", "begin", "insert", "commit"}]
      /\ tx \in [Clients -> 0..MaxTx] /\ acked \subseteq Tx
  BY DEF TypeInv, TypeOK
<1>4. AnswerOk \/ AnswerErr
  BY DEF SwitchFail, WriteDone, WriteFail
<1>5. /\ ioPc' = "recv"
      /\ \A c \in Clients : c # ioFrom => pc'[c] = pc[c] /\ op'[c] = op[c] /\ tx'[c] = tx[c]
      /\ ioFrom \in Clients => /\ pc'[ioFrom] \in {"idle", "snapshot", "open"}
                               /\ tx'[ioFrom] = tx[ioFrom] \/ tx'[ioFrom] = 0
                               /\ pc[ioFrom] = "await"
  <2>1. ioFrom \in Clients => pc[ioFrom] = "await"
    BY <1>2 DEF TypeInv, Protocol, Awaited
  <2>2. CASE AnswerOk
    BY <1>3, <2>1, <2>2 DEF AnswerOk, Resume
  <2>3. CASE AnswerErr
    BY <1>3, <2>1, <2>3 DEF AnswerErr
  <2> QED
    BY <1>4, <2>2, <2>3
<1>6. \A c \in Clients : /\ pc'[c] # "send" => pc[c] # "send"
                         /\ tx'[c] = tx[c] \/ tx'[c] = 0
                         /\ op'[c] = "commit" /\ pc'[c] \in {"send", "await"} =>
                              /\ op[c] = "commit" /\ pc[c] \in {"send", "await"}
                              /\ tx'[c] = tx[c]
  BY <1>5
<1>7. \A r \in RecordsOn(wal) : r \in RecordsOn(wal') \/ r.tx = 0 \/ r.tx \in exposed'
  BY <1>1, <1>2
<1>8. /\ \A r \in Written' : r \in Written
      /\ \A r \in Written : r \in Written' \/ r.tx = 0 \/ r.tx \in exposed'
  <2>1. RecordsOn(wal') \subseteq Written
    BY <1>1, <1>2 DEF Written
  <2>2. CASE current' = current
    BY <1>7, <2>1, <2>2 DEF Written
  <2>3. CASE SwitchFail
    <3>1. current' = <<>> /\ TxsIn(ToSet(current)) \subseteq exposed'
      BY <2>3 DEF SwitchFail
    <3>2. \A r \in ToSet(current) : r.tx = 0 \/ r.tx \in exposed'
      BY <3>1 DEF TxsIn
    <3> QED
      BY <1>7, <2>1, <3>1, <3>2, SetOfNone DEF Written
  <2> QED
    BY <2>2, <2>3 DEF WriteDone, WriteFail
<1>9. \A t \in Tx : t \notin exposed' => batch'[t] = batch[t]
  <2>1. \A t \in Tx : NoBatch[t] = <<>>
    BY BoundsNatural DEF NoBatch, Tx
  <2>2. CASE SwitchFail
    BY <2>1, <2>2 DEF SwitchFail
  <2>3. CASE WriteDone \/ WriteFail
    BY <2>3 DEF WriteDone, WriteFail
  <2> QED
    BY <2>2, <2>3
<1>10. \A t \in Tx : batch'[t] = <<>>
  <2>1. \A t \in Tx : NoBatch[t] = <<>> /\ t \in 0..MaxTx
    BY BoundsNatural DEF NoBatch, Tx
  <2>2. CASE SwitchFail
    BY <2>1, <2>2 DEF SwitchFail
  <2>3. CASE WriteDone \/ WriteFail
    BY <2>1, <2>3 DEF WriteDone, WriteFail, Writing, IsEmpty
  <2> QED
    BY <2>2, <2>3
<1>11. ASSUME NEW t \in Tx \ exposed'
       PROVE  /\ Of(Written, t)' = Of(Written, t) /\ batch'[t] = batch[t]
              /\ Of(RecordsOn(wal), t) \subseteq RecordsOn(wal')
  <2>1. t # 0
    BY DEF Tx
  <2> QED
    BY <1>7, <1>8, <1>9, <2>1 DEF Of
<1>12. acked' \subseteq Tx
  BY <1>2, <1>4, AnswerType, ServedTx DEF TypeInv
<1>13. ASSUME NEW t \in acked' \ exposed', t \notin acked PROVE Durable(t)'
  <2>1. /\ WriteDone /\ AnswerOk /\ ioFrom \in Clients /\ op[ioFrom] = "commit"
        /\ tx[ioFrom] = t /\ tx'[ioFrom] = 0
    <3>1. AnswerOk
      BY <1>4, <1>13 DEF AnswerErr
    <3>2. /\ ioFrom \in Clients /\ op[ioFrom] = "commit" /\ t = tx[ioFrom]
          /\ tx' = [tx EXCEPT ![ioFrom] = 0]
      BY <1>13, <3>1 DEF AnswerOk
    <3>3. WriteDone
      BY <1>13 DEF SwitchFail, WriteFail, AnswerErr
    <3> QED
      BY <1>3, <3>1, <3>2, <3>3
  <2>2. PICK c \in Clients : c = ioFrom
    BY <2>1
  <2>3. t \in Tx \ exposed /\ t # 0 /\ Committing(c, t) /\ pc[c] = "await"
    <3>1. t \in Tx \ exposed
      BY <1>2, <1>12, <1>13
    <3>2. t # 0
      BY <3>1 DEF Tx
    <3> QED
      BY <1>5, <2>1, <2>2, <3>1, <3>2 DEF Committing
  <2>4. Asking(c, t)
    BY <2>3 DEF AskInv
  <2>5. batch[t] = <<>>
    BY <1>9, <1>10, <2>3, <1>13
  <2>6. (\A l \in DOMAIN ioq : ioq[l].records[t] = <<>>) /\ \E k \in Written : Closes(k, t)
    BY <1>2, <2>2, <2>4, <2>5 DEF Asking
  <2>7. \A d \in Clients : hand[d][t] = <<>>
    BY <2>3, <2>4 DEF Asking, EmptyInv
  <2>8. Silent(t)
    BY <2>4, <2>5, <2>6, <2>7 DEF Silent, Asking
  <2>9. PICK m \in Nat, h \in Nat, e \in Nat, q \in [0..Len(ioq) -> Nat] : Chained(t, m, q, h, e)
    BY <2>3 DEF ChainInv, Chain
  <2>10. m = writes[t] + 1
    <3>1. m = e
      BY <2>3, <2>8, <2>9, ChainOrder DEF TypeInv
    <3>2. e = writes[t] + 1
      BY <2>1, <2>9 DEF Chained
    <3> QED
      BY <3>1, <3>2
  <2>11. FileRun(Of(Written, t), writes[t] + 1, asked[t])
    BY <2>9, <2>10 DEF Chained
  <2>12. PICK k \in Written : Closes(k, t)
    BY <2>6
  <2>13. k \in RecordsOn(wal')
    <3>1. wal' = w
      BY <2>1 DEF WriteDone, w
    <3>2. k.tx = t
      BY <2>12 DEF Closes, CommitOf
    <3> QED
      BY <1>1, <1>7, <1>13, <2>3, <3>1, <3>2 DEF Written
  <2>14. Closes(k, t)'
    BY <1>11, <1>13, <2>3, <2>12 DEF Closes
  <2>15. \A d \in Clients : tx'[d] # t
    <3>1. \A d \in Clients : d # ioFrom => tx[d] # t
      BY <2>1, <2>3 DEF CommitInv, IdsUnique
    <3> QED
      BY <1>5, <2>1, <2>3, <3>1
  <2>16. t <= lastTx'
    BY <1>2, <2>1 DEF CommitInv, IdsUnique
  <2>17. Silent(t)' /\ FileRun(Of(Written, t), writes[t] + 1, asked[t])'
    BY <1>2, <1>10, <1>11, <1>13, <2>3, <2>8, <2>11 DEF Silent
  <2> QED
    BY <2>13, <2>14, <2>15, <2>16, <2>17 DEF Durable
<1> QED
  BY <1>2, <1>5, <1>6, <1>10, <1>11, <1>12, <1>13, PipelineStays

\* A crash leaves of every transaction a prefix of what the file and the entry had.
LEMMA RestartPipeline ==
    ASSUME TypeInv, FileInv, ReadInv, PipelineInv, Restart
    PROVE  PipelineInv'
<1> USE DEF PipelineInv
<1>1. PICK image \in CrashImages :
        wal' = image /\ exposed' = exposed \cup LostIn(image) /\ RestoreCounters(image)
  BY DEF Restart
<1>2. /\ logs' = NoBatch /\ hand' = [c \in Clients |-> NoBatch] /\ ioq' = <<>>
      /\ batch' = NoBatch /\ current' = <<>> /\ ioPc' = "recv"
      /\ pc' = [c \in Clients |-> "idle"] /\ op' = [c \in Clients |-> "none"]
      /\ tx' = [c \in Clients |-> 0]
      /\ UNCHANGED <<writes, asked, acked>>
  BY DEF Restart
<1>3. Written' = RecordsOn(image) /\ RecordsOn(wal') = RecordsOn(image)
  <2>1. RecordsOn(wal') = RecordsOn(image)
    BY <1>1 DEF RecordsOn
  <2> QED
    BY <1>2, <2>1, SetOfNone DEF Written
<1>4. \A t \in Tx : /\ logs'[t] = <<>> /\ batch'[t] = <<>> /\ t # 0
                    /\ \A c \in Clients : hand'[c][t] = <<>> /\ tx'[c] # t
  BY <1>2, BoundsNatural DEF NoBatch, Tx
<1>5. Unwritten /\ TypeOK /\ writes \in [Tx -> Nat]
  BY DEF ReadInv, TypeInv, TypeOK
<1>6. EmptyInv'
  BY <1>2, <1>4 DEF EmptyInv
<1>7. ChainInv'
  <2> SUFFICES ASSUME NEW t \in Tx \ exposed' PROVE OneHand(t)' /\ Chain(t)'
    BY DEF ChainInv
  <2>1. t \in Tx \ exposed /\ t \in Tx \ LostIn(image)
    BY <1>1
  <2>2. PICK w \in Nat, h \in Nat, e \in Nat, q \in [0..Len(ioq) -> Nat] : Chained(t, w, q, h, e)
    BY <2>1 DEF ChainInv, Chain
  <2>3. FileRun(Of(Written, t), w, asked[t]) /\ w <= e /\ e <= writes[t] + 1
    BY <1>5, <2>1, <2>2, ChainOrder DEF Chained
  <2>4. PICK v \in 0..w : FileRun(Of(RecordsOn(image), t), v, asked[t])
    BY <1>5, <2>1, <2>3, ImagePrefix
  <2>5. v \in Nat /\ v <= writes'[t] + 1
    BY <1>2, <1>5, <2>1, <2>3
  <2>6. PICK p : p = [k \in 0..0 |-> v]
    OBVIOUS
  <2>7. Len(ioq') = 0 /\ p \in [0..Len(ioq') -> Nat] /\ p[0] = v
    BY <1>2, <2>5, <2>6
  <2>8. Run(<<>>, v, v, asked'[t])
    BY <2>5, RunNone
  <2>9. /\ FileRun(Of(Written, t)', v, asked'[t])
        /\ Run(batch'[t], v, p[0], asked'[t]) /\ Run(logs'[t], v, v, asked'[t])
    BY <1>2, <1>3, <1>4, <2>4, <2>7, <2>8
  <2>10. Taken(t, p[Len(ioq)], v)'
    BY <1>4, <2>7 DEF Taken
  <2>11. \A k \in 1..Len(ioq') : Run(ioq'[k].records[t], p[k - 1], p[k], asked'[t])
    BY <2>7
  <2>12. Chained(t, v, p, v, v)'
    BY <1>4, <2>5, <2>9, <2>10, <2>11 DEF Chained
  <2>13. OneHand(t)'
    BY <1>4 DEF OneHand
  <2> QED
    BY <2>5, <2>7, <2>12, <2>13 DEF Chain
<1>8. AskInv'
  BY <1>2 DEF AskInv, Committing
<1>9. DoneInv'
  <2> SUFFICES ASSUME NEW t \in acked' \ exposed' PROVE Durable(t)'
    BY DEF DoneInv
  <2>1. t \in acked \ exposed /\ t \in Tx \ LostIn(image) /\ Durable(t)
    BY <1>1, <1>2 DEF DoneInv, TypeInv, TypeOK
  <2>2. PICK k \in RecordsOn(wal) : Closes(k, t)
    BY <2>1 DEF Durable
  <2>3. Of(RecordsOn(image), t) = Of(Written, t)
    BY <1>5, <2>1, <2>2, ImageWhole
  <2>4. Of(Written, t)' = Of(Written, t)
    BY <1>3, <2>3
  <2>5. k \in RecordsOn(image) /\ k.tx = t
    BY <2>2, <2>3 DEF Closes, CommitOf, Of, Written
  <2>6. k \in RecordsOn(wal') /\ Closes(k, t)'
    BY <1>3, <2>2, <2>4, <2>5 DEF Closes
  <2>7. t <= lastTx'
    BY <1>1, <2>5 DEF RestoreCounters
  <2>8. Silent(t)'
    BY <1>2, <1>4, <2>1 DEF Silent
  <2>9. FileRun(Of(Written, t), writes[t] + 1, asked[t])'
    BY <1>2, <2>1, <2>4 DEF Durable
  <2> QED
    BY <1>4, <2>1, <2>6, <2>7, <2>8, <2>9 DEF Durable
<1> QED
  BY <1>6, <1>7, <1>8, <1>9

\* At first nothing is anywhere.
LEMMA InitPipeline == Init => PipelineInv
<1> SUFFICES ASSUME Init PROVE PipelineInv
  OBVIOUS
<1>1. /\ logs = NoBatch /\ hand = [c \in Clients |-> NoBatch] /\ ioq = <<>>
      /\ batch = NoBatch /\ wal = [p \in Pages |-> <<>>] /\ current = <<>> /\ ioPc = "recv"
      /\ op = [c \in Clients |-> "none"] /\ tx = [c \in Clients |-> 0] /\ acked = {}
      /\ writes = [t \in Tx |-> 0] /\ asked = [t \in Tx |-> -1]
  BY DEF Init
<1>2. \A t \in Tx : /\ logs[t] = <<>> /\ batch[t] = <<>> /\ t # 0 /\ writes[t] = 0
                    /\ \A c \in Clients : hand[c][t] = <<>> /\ tx[c] # t
  BY <1>1, BoundsNatural DEF NoBatch, Tx
<1>3. Written = {}
  BY <1>1, SetOfNone DEF Written, RecordsOn
<1>4. EmptyInv
  <2>1. \A t \in Tx : asked[t] \in -1..writes[t]
    BY <1>1, <1>2
  <2> QED
    BY <1>1, <1>2, <2>1 DEF EmptyInv
<1>5. ChainInv
  <2> SUFFICES ASSUME NEW t \in Tx PROVE OneHand(t) /\ Chain(t)
    BY DEF ChainInv
  <2>1. PICK p : p = [k \in 0..0 |-> 0]
    OBVIOUS
  <2>2. Len(ioq) = 0 /\ p \in [0..Len(ioq) -> Nat] /\ p[0] = 0
    BY <1>1, <2>1
  <2>3. Run(<<>>, 0, 0, asked[t])
    <3>1. 0 \in Nat /\ 0 = 0
      OBVIOUS
    <3> QED
      BY <3>1, RunNone
  <2>4. FileRun(Of(Written, t), 0, asked[t])
    BY <1>3 DEF FileRun, Of
  <2>5. Taken(t, p[Len(ioq)], 0)
    BY <1>2, <2>2 DEF Taken
  <2>6. \A k \in 1..Len(ioq) : Run(ioq[k].records[t], p[k - 1], p[k], asked[t])
    BY <2>2
  <2>7. Chained(t, 0, p, 0, 0)
    BY <1>2, <2>2, <2>3, <2>4, <2>5, <2>6 DEF Chained
  <2>8. OneHand(t)
    BY <1>2 DEF OneHand
  <2> QED
    BY <2>2, <2>7, <2>8 DEF Chain
<1>6. AskInv /\ DoneInv
  BY <1>1 DEF AskInv, DoneInv, Committing
<1> QED
  BY <1>4, <1>5, <1>6 DEF PipelineInv

------------------------------------------------------------------------------
(* The theorems.                                                           *)

\* Wherever the records of a transaction are, between the buffer and the file, there is no
\* gap in them and nothing follows a commit but what its client asked for later; what was
\* acknowledged is whole in wal.db.  Transactions the code itself exposed are left out.
THEOREM PipelineInvariant == Spec => []PipelineInv
<1>1. Init => PipelineInv
  BY InitPipeline
<1>2. TypeInv /\ CommitInv /\ FileInvariants /\ PipelineInv /\ [Next]_vars => PipelineInv'
  <2> SUFFICES ASSUME TypeInv, CommitInv, FileInvariants, PipelineInv, [Next]_vars
               PROVE  PipelineInv'
    OBVIOUS
  <2>1. IdsInv /\ FileInv /\ ReadInv
    BY DEF FileInvariants
  <2>2. ASSUME NEW c \in Clients, Client(c) PROVE PipelineInv'
    <3>1. CASE Begin(c)
      BY <2>1, <3>1, BeginPipeline
    <3>2. CASE Update(c)
      BY <3>2, UpdatePipeline
    <3>3. CASE Flush(c)
      BY <3>3, FlushPipeline
    <3>4. CASE CommitDrain(c)
      BY <3>4, DrainPipeline
    <3>5. CASE Send(c)
      BY <3>5, SendersPipeline
    <3>6. CASE Check(c) \/ Snapshot(c) \/ Abandon(c)
      BY <3>6, QuietPipeline
    <3> QED
      BY <2>2, <3>1, <3>2, <3>3, <3>4, <3>5, <3>6 DEF Client
  <2>3. CASE Io
    BY <2>1, <2>3, ReceivedPipeline, WrittenPipeline, AnsweredPipeline DEF Io
  <2>4. CASE Checkpoint
    BY <2>4, QuietPipeline, SendersPipeline DEF Checkpoint
  <2>5. CASE Restart
    BY <2>1, <2>5, RestartPipeline
  <2>6. CASE UNCHANGED vars
    BY <2>6, QuietPipeline
  <2>7. Quiescent => UNCHANGED vars
    BY DEF Quiescent
  <2> QED
    BY <2>2, <2>3, <2>4, <2>5, <2>6, <2>7 DEF Next
<1> QED
  BY <1>1, <1>2, TypeInvariant, CommitInvariant, LogInvariant, PTL DEF Spec

\* The checkpoint thread sends one record at a time and waits for its answer.
MarkAwaited ==
    /\ \A k \in DOMAIN ioq : ioq[k].from = Checkpointer => ckPc = "await"
    /\ \A k, j \in DOMAIN ioq : ioq[k].from = Checkpointer /\ ioq[j].from = Checkpointer => k = j
    /\ ioPc # "recv" /\ ioFrom = Checkpointer =>
          ckPc = "await" /\ \A k \in DOMAIN ioq : ioq[k].from # Checkpointer

\* A client's request and the start of service leave the thread's record the only one.
LEMMA ChannelMark ==
    ASSUME TypeInv, MarkAwaited, IoRecv \/ \E c \in Clients : Client(c)
    PROVE  MarkAwaited'
<1> USE DEF TypeInv
<1>1. CASE IoRecv
  <2>1. /\ ioq # <<>> /\ ioq' = Tail(ioq) /\ ioFrom' = Head(ioq).from /\ ckPc' = ckPc
    BY <1>1 DEF IoRecv, ckVars
  <2> QED
    BY <2>1, TakeRequest DEF MarkAwaited
<1>2. ASSUME NEW c \in Clients, Send(c) PROVE MarkAwaited'
  <2>1. PICK r : r = [from |-> c, records |-> hand[c]]
    OBVIOUS
  <2>2. /\ ioq' = Append(ioq, r) /\ r.from # Checkpointer
        /\ UNCHANGED <<ckPc, ioPc, ioFrom>>
    BY <1>2, <2>1, SendersDiffer DEF Send, ioVars, ckVars
  <2> QED
    BY <2>2, AppendRequest DEF MarkAwaited
<1>3. ASSUME NEW c \in Clients, Client(c), ~ Send(c) PROVE MarkAwaited'
  <2>1. UNCHANGED <<ioq, ckPc, ioPc, ioFrom>>
    BY <1>3 DEF Client, Begin, Update, Check, Flush, CommitDrain, Snapshot, Abandon, ioVars,
                ckVars
  <2> QED
    BY <2>1 DEF MarkAwaited
<1> QED
  BY <1>1, <1>2, <1>3

\* An answer frees the thread, whose record is nowhere else.
LEMMA ServedMark ==
    ASSUME TypeInv, MarkAwaited, Io, ~ IoRecv
    PROVE  /\ MarkAwaited'
           /\ ckPc' = ckPc \/ (ckPc' = "idle" /\ ckPc = "await")
<1>1. CASE IoRecord \/ SwitchDone
  <2>1. UNCHANGED <<ioq, ckPc, ioFrom>> /\ ioPc # "recv"
    BY <1>1 DEF IoRecord, SwitchDone, ckVars
  <2> QED
    BY <2>1 DEF MarkAwaited
<1>2. CASE SwitchFail \/ WriteDone \/ WriteFail
  <2>1. ioPc # "recv" /\ (AnswerOk \/ AnswerErr) /\ UNCHANGED ioq
    BY <1>2 DEF SwitchFail, WriteDone, WriteFail, Writing
  <2>2. ioPc' = "recv" /\ (ckPc' = ckPc \/ (ckPc' = "idle" /\ ioFrom \notin Clients))
    BY <2>1 DEF AnswerOk, AnswerErr
  <2>3. ioFrom \in Clients \cup {Checkpointer}
    BY DEF TypeInv, TypeOK
  <2>4. CASE ckPc' = ckPc
    BY <2>1, <2>2, <2>4 DEF MarkAwaited
  <2>5. CASE ckPc' = "idle" /\ ioFrom = Checkpointer
    BY <2>1, <2>2, <2>5 DEF MarkAwaited
  <2> QED
    BY <2>2, <2>3, <2>4, <2>5
<1> QED
  BY <1>1, <1>2 DEF Io

\* The thread's own steps, and a restart.
LEMMA CheckpointMark ==
    ASSUME TypeInv, MarkAwaited, Checkpoint \/ Restart
    PROVE  MarkAwaited'
<1> USE DEF TypeInv
<1>1. CASE CkWake \/ CkNothing \/ CkDrain \/ CkFailed
  <2>1. UNCHANGED <<ioq, ioPc, ioFrom>> /\ ckPc # "await"
    BY <1>1 DEF CkWake, CkNothing, CkDrain, CkFailed, ioVars
  <2> QED
    BY <2>1 DEF MarkAwaited
<1>2. CASE CkFlushed
  <2>1. PICK r : r = [from |-> Checkpointer,
                      records |-> [NoBatch EXCEPT ![0] = <<Rec(0, "checkpoint", ckIndex)>>]]
    OBVIOUS
  <2>2. /\ ioq' = Append(ioq, r) /\ r.from = Checkpointer /\ ckPc = "drained"
        /\ ckPc' = "await" /\ UNCHANGED <<ioPc, ioFrom>>
    BY <1>2, <2>1 DEF CkFlushed, ioVars
  <2>3. /\ \A k \in DOMAIN ioq : ioq[k].from # Checkpointer
        /\ ioPc # "recv" => ioFrom # Checkpointer
    BY <2>2 DEF MarkAwaited
  <2>4. \A k \in DOMAIN ioq' : k = Len(ioq) + 1 \/ (k \in DOMAIN ioq /\ ioq'[k] = ioq[k])
    BY <2>2, AppendRequest
  <2> QED
    BY <2>2, <2>3, <2>4 DEF MarkAwaited
<1>3. CASE Restart
  <2>1. ioq' = <<>> /\ ioPc' = "recv"
    BY <1>3 DEF Restart
  <2>2. DOMAIN ioq' = {}
    BY <2>1
  <2> QED
    BY <2>1, <2>2 DEF MarkAwaited
<1> QED
  BY <1>1, <1>2, <1>3 DEF Checkpoint

\* When no flush is under way, every insert that one took is in data.db, whether its
\* transaction is committed or not; a flush that failed exposes what it took.  The thread
\* cannot be woken out of a flush by an answer: its records go one at a time.
THEOREM FlushedCovered == Spec => [](MarkAwaited /\ CoverInv)
<1>1. Init => MarkAwaited /\ CoverInv
  <2> SUFFICES ASSUME Init PROVE MarkAwaited /\ CoverInv
    OBVIOUS
  <2>1. ioPc = "recv" /\ ioq = <<>> /\ drained = [t \in Tx |-> 0] /\ covered = [t \in Tx |-> 0]
    BY DEF Init
  <2>2. DOMAIN ioq = {}
    BY <2>1
  <2> QED
    BY <2>1, <2>2 DEF MarkAwaited, CoverInv
<1>2. TypeInv /\ MarkAwaited /\ CoverInv /\ [Next]_vars => (MarkAwaited /\ CoverInv)'
  <2> SUFFICES ASSUME TypeInv, MarkAwaited, CoverInv, [Next]_vars PROVE MarkAwaited' /\ CoverInv'
    OBVIOUS
  <2>0. drained \in [Tx -> Nat] /\ covered \in [Tx -> Nat] /\ writes \in [Tx -> Nat]
    BY DEF TypeInv, TypeOK
  <2>a. ASSUME UNCHANGED <<ckPc, drained, covered>>, exposed \subseteq exposed' PROVE CoverInv'
    BY <2>a DEF CoverInv
  <2>1. ASSUME NEW c \in Clients, Begin(c) PROVE CoverInv'
    <3>1. \A t \in Tx : \/ /\ drained'[t] = drained[t] /\ covered'[t] = covered[t]
                        \/ /\ drained'[t] = 0 /\ covered'[t] = 0
      BY <2>0, <2>1 DEF Begin
    <3>2. ckPc' = ckPc /\ exposed' = exposed
      BY <2>1 DEF Begin, ckVars
    <3> QED
      BY <3>1, <3>2 DEF CoverInv
  <2>2. ASSUME NEW c \in Clients, Client(c), ~ Begin(c) PROVE CoverInv'
    <3>1. UNCHANGED <<ckPc, drained, covered>> /\ exposed \subseteq exposed'
      BY <2>2 DEF Client, Update, Check, Flush, CommitDrain, Send, Snapshot, Abandon, ckVars,
                  history, coverage
    <3> QED
      BY <2>a, <3>1
  <2>3. ASSUME Io PROVE CoverInv'
    <3>1. UNCHANGED <<drained, covered>> /\ exposed \subseteq exposed'
      BY <2>3 DEF Io, IoRecv, IoRecord, SwitchDone, SwitchFail, WriteDone, WriteFail, history,
                  coverage
    <3>2. ckPc' = ckPc \/ (ckPc' = "idle" /\ ckPc = "await")
      <4>1. IoRecv => ckPc' = ckPc
        BY DEF IoRecv, ckVars
      <4> QED
        BY <2>3, <4>1, ServedMark
    <3>3. CASE ckPc' = ckPc
      BY <2>a, <3>1, <3>3
    <3>4. CASE ckPc' = "idle" /\ ckPc = "await"
      BY <3>1, <3>4 DEF CoverInv
    <3> QED
      BY <3>2, <3>3, <3>4
  <2>4. ASSUME CkWake \/ CkNothing \/ CkDrain PROVE CoverInv'
    <3>1. UNCHANGED <<covered, exposed>>
      BY <2>4 DEF CkWake, CkNothing, CkDrain, history, coverage
    <3>2. ckPc' = "drained" \/ (ckPc # "drained" /\ drained' = drained)
      BY <2>4 DEF CkWake, CkNothing, CkDrain, history, coverage
    <3> QED
      BY <3>1, <3>2 DEF CoverInv
  <2>5. ASSUME CkFlushed PROVE CoverInv'
    <3>1. covered' = drained /\ drained' = drained
      BY <2>5 DEF CkFlushed
    <3> QED
      BY <2>0, <3>1 DEF CoverInv
  <2>6. ASSUME CkFailed PROVE CoverInv'
    <3>1. UNCHANGED <<drained, covered>>
          /\ exposed' = exposed \cup {t \in Tx : covered[t] < drained[t]}
      BY <2>6 DEF CkFailed, coverage
    <3> QED
      BY <2>0, <3>1 DEF CoverInv
  <2>7. ASSUME Restart PROVE CoverInv'
    <3>1. drained' = [t \in Tx |-> 0] /\ covered' = covered
      BY <2>7 DEF Restart
    <3> QED
      BY <2>0, <3>1 DEF CoverInv
  <2>8. ASSUME UNCHANGED vars PROVE CoverInv'
    BY <2>8, <2>a DEF vars, ckVars, history, coverage
  <2>9. Quiescent => UNCHANGED vars
    BY DEF Quiescent
  <2>10. MarkAwaited'
    <3>1. UNCHANGED vars => MarkAwaited'
      BY DEF vars, ioVars, ckVars, MarkAwaited
    <3> QED
      BY <2>9, <3>1, ChannelMark, ServedMark, CheckpointMark DEF Next
  <2> QED
    BY <2>1, <2>2, <2>3, <2>4, <2>5, <2>6, <2>7, <2>8, <2>9, <2>10 DEF Next, Checkpoint
<1> QED
  BY <1>1, <1>2, TypeInvariant, PTL DEF Spec

\* A commit that returned Ok survives any crash and any number of them: its records are in
\* the file in order, and every insert is given back by replay or was in the pool when a
\* flush took it to data.db.  Left out are the transactions that a checkpoint record passed
\* while they had inserts that no flush took, and those the code itself exposed.
THEOREM CommitsSurvive == Spec => []DurableCommits
<1>1. FileInvariants => FileInv /\ ReadInv
  BY DEF FileInvariants
<1>2. PipelineInv => DoneInv
  BY DEF PipelineInv
<1> QED
  BY <1>1, <1>2, CommitsRecovered, TypeCorrect, LogInvariant, PipelineInvariant,
     FlushedCovered, PTL

\* Replay gives back nothing of a transaction whose commit was not asked for, and of the
\* others nothing or, in order, all that was inserted before the commit.
THEOREM RecoveryAtomic == Spec => []AtomicRecovery
<1>1. FileInvariants => FileInv /\ ReadInv
  BY DEF FileInvariants
<1>2. PipelineInv => ChainInv
  BY DEF PipelineInv
<1> QED
  BY <1>1, <1>2, RecoveryWhole, TypeCorrect, LogInvariant, PipelineInvariant, PTL

\* On everything a crash can leave the replay loop, one record after the other, computes
\* the inserts of transactions in force that no checkpoint covers.
THEOREM ReplayCorrect == Spec => []ReplayIsReference
<1>1. FileInvariants => FileInv
  BY DEF FileInvariants
<1> QED
  BY <1>1, ReplayAgrees, TypeCorrect, LogInvariant, PTL

==============================================================================
