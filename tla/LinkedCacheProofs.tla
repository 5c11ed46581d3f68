-------------------------- MODULE LinkedCacheProofs --------------------------
(***************************************************************************)
(* Proofs about LinkedCache for any keys, values and addresses: the list   *)
(* of raw pointers is one sequence of allocated nodes, read from either    *)
(* end, the hash table agrees with it, and seen from outside the cache is  *)
(* the map in least-recently-used order of LRU.                            *)
(***************************************************************************)
EXTENDS LinkedCache, FiniteSetTheorems, WellFoundedInduction, TLAPS

------------------------------------------------------------------------------
(* What the pointers of a list say, given the nodes in order.              *)

First(s) == IF s = <<>> THEN Nil ELSE s[1]
Final(s) == IF s = <<>> THEN Nil ELSE s[Len(s)]
After(s, i) == IF i = Len(s) THEN Nil ELSE s[i + 1]
Before(s, i) == IF i = 1 THEN Nil ELSE s[i - 1]
Distinct(s) == \A i, j \in 1..Len(s) : s[i] = s[j] => i = j
In(s, n) == \E i \in 1..Len(s) : s[i] = n

Pointer == Nodes \cup {Nil}
LinkedList == [head : Pointer, tail : Pointer, len : Int,
               next : [Nodes -> Pointer], prev : [Nodes -> Pointer]]

Linked(l, s) ==
  /\ l.head = First(s) /\ l.tail = Final(s) /\ l.len = Len(s)
  /\ Distinct(s)
  /\ \A i \in 1..Len(s) : l.next[s[i]] = After(s, i)
  /\ \A i \in 1..Len(s) : l.prev[s[i]] = Before(s, i)

\* s without its p-th element.
Cut(s, p) == [i \in 1..(Len(s) - 1) |-> IF i < p THEN s[i] ELSE s[i + 1]]
Reversed(s) == [i \in 1..Len(s) |-> s[Len(s) + 1 - i]]

LEMMA SeqFacts ==
    ASSUME NEW s \in Seq(Nodes)
    PROVE  /\ Len(s) \in Nat /\ \A i \in 1..Len(s) : s[i] \in Nodes /\ s[i] # Nil
           /\ s = <<>> <=> Len(s) = 0
           /\ s = [i \in 1..Len(s) |-> s[i]]
<1>1. Len(s) \in Nat /\ \A i \in 1..Len(s) : s[i] \in Nodes
  OBVIOUS
<1>2. s = <<>> <=> Len(s) = 0
  OBVIOUS
<1>3. s = [i \in 1..Len(s) |-> s[i]]
  OBVIOUS
<1> QED
  BY <1>1, <1>2, <1>3, NilAssumption

LEMMA CutFacts ==
    ASSUME NEW s \in Seq(Nodes), NEW p \in 1..Len(s)
    PROVE  /\ Cut(s, p) \in Seq(Nodes) /\ Len(Cut(s, p)) = Len(s) - 1
           /\ \A i \in 1..(Len(s) - 1) : Cut(s, p)[i] = IF i < p THEN s[i] ELSE s[i + 1]
<1>1. Len(s) \in Nat /\ p \in Nat /\ p > 0 /\ p <= Len(s)
  OBVIOUS
<1>2. \A i \in 1..(Len(s) - 1) : i \in 1..Len(s) /\ i + 1 \in 1..Len(s)
  BY <1>1
<1>3. \A i \in 1..(Len(s) - 1) : (IF i < p THEN s[i] ELSE s[i + 1]) \in Nodes
  BY <1>2, SeqFacts
<1>4. Cut(s, p) \in [1..(Len(s) - 1) -> Nodes]
  BY <1>3 DEF Cut
<1>5. Len(s) - 1 \in Nat
  BY <1>1
<1>6. Cut(s, p) \in Seq(Nodes) /\ Len(Cut(s, p)) = Len(s) - 1
  BY <1>4, <1>5
<1> QED
  BY <1>6 DEF Cut

LEMMA LeastNat ==
    ASSUME NEW T, T \subseteq Nat, T # {}
    PROVE  \E x \in T : \A y \in T : x <= y
<1>1. PICK x \in T : \A y \in T : ~ (<<y, x>> \in OpToRel(<, Nat))
  BY NatLessThanWellFounded, WFMin
<1>2. \A y \in T : ~ (y < x)
  BY <1>1 DEF OpToRel
<1> QED
  BY <1>2

\* Following a link from the first node meets the nodes in order.
LEMMA WalkMeets ==
    ASSUME NEW s \in Seq(Nodes), Len(s) <= Cardinality(Nodes), NEW link,
           \A i \in 1..Len(s) : link[s[i]] = After(s, i)
    PROVE  Walk(First(s), link) = s
<1> DEFINE N == Cardinality(Nodes)
           Turn(g, i) == IF i = 0 THEN First(s)
                         ELSE IF g[i - 1] = Nil THEN Nil ELSE link[g[i - 1]]
           h == [i \in 0..N |-> IF i < Len(s) THEN s[i + 1] ELSE Nil]
           f == Path(First(s), link)
<1>0. N \in Nat /\ Len(s) \in Nat
  BY NodesAssumption, FS_CardinalityType
<1> HIDE DEF N
<1>1. ASSUME NEW i \in 0..N PROVE h[i] = Turn(h, i)
  <2>1. CASE i = 0
    BY <2>1, <1>0, SeqFacts DEF First
  <2>2. CASE i # 0
    <3>1. i - 1 \in 0..N /\ i \in Nat
      BY <2>2, <1>0
    <3>2. CASE i - 1 < Len(s)
      <4>1. i \in 1..Len(s) /\ h[i - 1] = s[i]
        BY <3>1, <3>2, <2>2, <1>0
      <4>2. h[i - 1] # Nil
        BY <4>1, SeqFacts
      <4>3. Turn(h, i) = After(s, i)
        BY <4>1, <4>2, <2>2
      <4>4. h[i] = After(s, i)
        BY <4>1, <1>0 DEF After
      <4> QED
        BY <4>3, <4>4
    <3>3. CASE ~ (i - 1 < Len(s))
      <4>1. h[i - 1] = Nil
        BY <3>1, <3>3
      <4>2. ~ (i < Len(s))
        BY <3>1, <3>3, <1>0
      <4> QED
        BY <4>1, <4>2, <2>2
    <3> QED
      BY <3>2, <3>3
  <2> QED
    BY <2>1, <2>2
<1>2. h = [i \in 0..N |-> Turn(h, i)]
  <2> HIDE DEF Turn
  <2>1. h = [i \in 0..N |-> h[i]]
    OBVIOUS
  <2> QED
    BY <1>1, <2>1
<1>3. f = [i \in 0..N |-> Turn(f, i)]
  BY <1>2 DEF Path, N
<1>4. \A i \in 0..N : f[i] = Turn(f, i)
  <2> HIDE DEF Turn, f
  <2> QED
    BY <1>3
<1> DEFINE T == {i \in 0..N : f[i] # h[i]}
<1>5. T = {}
  <2> SUFFICES ASSUME T # {} PROVE FALSE
    OBVIOUS
  <2>1. PICK i \in T : \A j \in T : i <= j
    <3>1. T \subseteq Nat
      BY <1>0
    <3> HIDE DEF T
    <3> QED
      BY <3>1, LeastNat
  <2>2. i # 0
    BY <1>1, <1>4, <2>1
  <2>3. i - 1 \in 0..N /\ ~ (i <= i - 1)
    BY <1>0, <2>1, <2>2
  <2>4. f[i - 1] = h[i - 1]
    BY <2>1, <2>3
  <2>5. Turn(f, i) = Turn(h, i)
    BY <2>2, <2>4
  <2> QED
    BY <1>1, <1>4, <2>1, <2>5
<1>6. \A i \in 0..N : f[i] = IF i < Len(s) THEN s[i + 1] ELSE Nil
  BY <1>5
<1> DEFINE met == {i \in 1..N : f[i - 1] # Nil}
<1>7. \A i \in 1..N : f[i - 1] # Nil <=> i <= Len(s)
  <2> TAKE i \in 1..N
  <2> HIDE DEF f
  <2>1. i - 1 \in 0..N /\ (i - 1) + 1 = i /\ (i - 1 < Len(s) <=> i \in 1..Len(s))
    BY <1>0
  <2>2. f[i - 1] = IF i \in 1..Len(s) THEN s[i] ELSE Nil
    BY <1>6, <2>1
  <2> QED
    BY <1>0, <2>2, SeqFacts
<1>8. met = 1..Len(s)
  <2> HIDE DEF f
  <2> QED
    BY <1>0, <1>7 DEF N
<1>9. Cardinality(met) = Len(s)
  <2>1. Cardinality(1..Len(s)) = Len(s)
    BY <1>0, FS_Interval
  <2> HIDE DEF met
  <2> QED
    BY <1>8, <2>1
<1>10. \A i \in 1..Len(s) : f[i - 1] = s[i]
  <2> TAKE i \in 1..Len(s)
  <2> HIDE DEF f
  <2>1. i - 1 \in 0..N /\ (i - 1) + 1 = i /\ i - 1 < Len(s)
    BY <1>0 DEF N
  <2> QED
    BY <1>6, <2>1
<1>11. Walk(First(s), link) = [i \in 1..Len(s) |-> f[i - 1]]
  <2>1. Walk(First(s), link) = [i \in 1..Cardinality(met) |-> f[i - 1]]
    BY DEF Walk, N
  <2> QED
    BY <1>9, <2>1
<1>12. [i \in 1..Len(s) |-> f[i - 1]] = [i \in 1..Len(s) |-> s[i]]
  <2> HIDE DEF f
  <2> QED
    BY <1>10
<1> QED
  BY <1>11, <1>12, SeqFacts

LEMMA ReversedFacts ==
    ASSUME NEW s \in Seq(Nodes)
    PROVE  /\ Reversed(s) \in Seq(Nodes) /\ Len(Reversed(s)) = Len(s)
           /\ First(Reversed(s)) = Final(s)
           /\ \A i \in 1..Len(s) : After(Reversed(s), i) = Before(s, Len(s) + 1 - i)
<1>1. Len(s) \in Nat /\ \A i \in 1..Len(s) : Len(s) + 1 - i \in 1..Len(s)
  OBVIOUS
<1>2. Reversed(s) \in [1..Len(s) -> Nodes]
  BY <1>1, SeqFacts DEF Reversed
<1>3. Reversed(s) \in Seq(Nodes) /\ Len(Reversed(s)) = Len(s)
  BY <1>1, <1>2
<1>4. First(Reversed(s)) = Final(s)
  <2>1. CASE s = <<>>
    <3>1. Reversed(s) = <<>>
      BY <2>1, <1>3, SeqFacts
    <3> QED
      BY <2>1, <3>1 DEF First, Final
  <2>2. CASE s # <<>>
    <3>1. Reversed(s) # <<>> /\ 1 \in 1..Len(s) /\ Len(s) + 1 - 1 = Len(s)
      BY <2>2, <1>1, <1>3, SeqFacts
    <3>2. Reversed(s)[1] = s[Len(s)]
      BY <3>1 DEF Reversed
    <3> QED
      BY <2>2, <3>1, <3>2 DEF First, Final
  <2> QED
    BY <2>1, <2>2
<1>5. ASSUME NEW i \in 1..Len(s) PROVE After(Reversed(s), i) = Before(s, Len(s) + 1 - i)
  <2>1. CASE i = Len(s)
    BY <2>1, <1>1, <1>3 DEF After, Before
  <2>2. CASE i # Len(s)
    <3>1. i + 1 \in 1..Len(s) /\ Len(s) + 1 - (i + 1) = (Len(s) + 1 - i) - 1 /\ Len(s) + 1 - i # 1
      BY <2>2, <1>1
    <3>2. Reversed(s)[i + 1] = s[(Len(s) + 1 - i) - 1]
      BY <3>1 DEF Reversed
    <3> QED
      BY <2>2, <3>1, <3>2, <1>3 DEF After, Before
  <2> QED
    BY <2>1, <2>2
<1> QED
  BY <1>3, <1>4, <1>5

\* The list is read the same from either end.
LEMMA WalkBack ==
    ASSUME NEW s \in Seq(Nodes), Len(s) <= Cardinality(Nodes), NEW link,
           \A i \in 1..Len(s) : link[s[i]] = Before(s, i)
    PROVE  Walk(Final(s), link) = Reversed(s)
<1>1. ASSUME NEW i \in 1..Len(s) PROVE link[Reversed(s)[i]] = After(Reversed(s), i)
  <2>1. Reversed(s)[i] = s[Len(s) + 1 - i]
    BY DEF Reversed
  <2>2. Len(s) + 1 - i \in 1..Len(s)
    OBVIOUS
  <2> QED
    BY <2>1, <2>2, ReversedFacts
<1> QED
  BY <1>1, ReversedFacts, WalkMeets

LEMMA LinkedWalks ==
    ASSUME NEW l, NEW s \in Seq(Nodes), Linked(l, s), Len(s) <= Cardinality(Nodes)
    PROVE  Walk(l.head, l.next) = s /\ Walk(l.tail, l.prev) = Reversed(s)
BY WalkMeets, WalkBack DEF Linked

------------------------------------------------------------------------------
(* What the operations of the list do to the sequence.                     *)

LEMMA ListType ==
    ASSUME NEW l \in LinkedList, NEW n \in Nodes
    PROVE  /\ PushBack(l, n) \in LinkedList /\ Unlink(l, n) \in LinkedList
           /\ Forget(l, n) \in LinkedList
           /\ l.head # Nil => PopFront(l) \in LinkedList
<1>1. /\ l.head \in Pointer /\ l.tail \in Pointer /\ l.len \in Int
      /\ l.next \in [Nodes -> Pointer] /\ l.prev \in [Nodes -> Pointer]
  BY DEF LinkedList
<1>2. n \in Pointer /\ Nil \in Pointer /\ l.next[n] \in Pointer /\ l.prev[n] \in Pointer
  BY <1>1 DEF Pointer
<1>3. PushBack(l, n) \in LinkedList
  BY <1>1, <1>2 DEF PushBack, LinkedList
<1>4. Unlink(l, n) \in LinkedList
  BY <1>1, <1>2 DEF Unlink, LinkedList
<1>5. Forget(l, n) \in LinkedList
  BY <1>1, <1>2 DEF Forget, LinkedList
<1>6. ASSUME l.head # Nil PROVE PopFront(l) \in LinkedList
  <2>1. l.next[l.head] \in Pointer
    BY <1>1, <1>6 DEF Pointer
  <2> QED
    BY <1>1, <1>2, <2>1 DEF PopFront, LinkedList
<1> QED
  BY <1>3, <1>4, <1>5, <1>6

\* push_back appends.
LEMMA PushBackAppends ==
    ASSUME NEW l \in LinkedList, NEW s \in Seq(Nodes), Linked(l, s), NEW n \in Nodes, ~ In(s, n)
    PROVE  Append(s, n) \in Seq(Nodes) /\ Linked(PushBack(l, n), Append(s, n))
<1> DEFINE t == Append(s, n)
           p == PushBack(l, n)
<1>1. /\ t \in Seq(Nodes) /\ Len(t) = Len(s) + 1 /\ t[Len(s) + 1] = n
      /\ \A i \in 1..Len(s) : t[i] = s[i]
  OBVIOUS
<1>2. Len(s) \in Nat /\ l.next \in [Nodes -> Pointer] /\ l.prev \in [Nodes -> Pointer]
  BY DEF LinkedList
<1>3. t # <<>>
  BY <1>1, <1>2, SeqFacts
<1> HIDE DEF t
<1>4. \A i \in 1..Len(s) : s[i] \in Nodes /\ s[i] # n /\ s[i] # Nil
  BY SeqFacts DEF In
<1>5. s = <<>> <=> Len(s) = 0
  BY SeqFacts
<1>6. Distinct(t)
  BY <1>1, <1>2, <1>4 DEF Distinct, Linked
<1>7. p.head = First(t)
  <2>1. CASE s = <<>>
    BY <2>1, <1>1, <1>3, <1>5 DEF PushBack, Linked, First, Final
  <2>2. CASE s # <<>>
    <3>1. 1 \in 1..Len(s) /\ Len(s) \in 1..Len(s)
      BY <2>2, <1>2, <1>5
    <3>2. l.tail # Nil /\ l.head = s[1]
      BY <2>2, <3>1, <1>4 DEF Linked, First, Final
    <3>3. t[1] = s[1]
      BY <1>1, <3>1
    <3> QED
      BY <1>3, <3>2, <3>3 DEF PushBack, First
  <2> QED
    BY <2>1, <2>2
<1>8. p.tail = Final(t) /\ p.len = Len(t)
  BY <1>1, <1>3 DEF PushBack, Linked, Final
<1>9. ASSUME NEW i \in 1..Len(t) PROVE p.next[t[i]] = After(t, i)
  <2>1. CASE i = Len(s) + 1
    BY <2>1, <1>1 DEF PushBack, After
  <2>2. CASE i = Len(s)
    <3>1. i \in 1..Len(s) /\ l.tail = s[i] /\ i # Len(t)
      BY <2>2, <1>1, <1>2, <1>5 DEF Linked, Final
    <3> QED
      BY <2>2, <3>1, <1>1, <1>4 DEF PushBack, After
  <2>3. CASE i # Len(s) + 1 /\ i # Len(s)
    <3>1. i \in 1..Len(s) /\ i + 1 \in 1..Len(s) /\ Len(s) \in 1..Len(s) /\ i # Len(t)
      BY <2>3, <1>1, <1>2
    <3>2. l.tail = s[Len(s)] /\ s[i] # l.tail
      BY <2>3, <3>1, <1>2, <1>5 DEF Linked, Final, Distinct
    <3>3. p.next[s[i]] = s[i + 1]
      BY <2>3, <3>1, <3>2, <1>4 DEF PushBack, Linked, After
    <3> QED
      BY <3>1, <3>3, <1>1 DEF After
  <2> QED
    BY <2>1, <2>2, <2>3
<1>10. ASSUME NEW i \in 1..Len(t) PROVE p.prev[t[i]] = Before(t, i)
  <2>1. CASE i = Len(s) + 1
    <3>1. p.prev[n] = l.tail
      BY <1>2 DEF PushBack
    <3>2. CASE s = <<>>
      BY <2>1, <3>1, <3>2, <1>1, <1>5 DEF Before, Linked, Final
    <3>3. CASE s # <<>>
      <4>1. i # 1 /\ i - 1 = Len(s) /\ Len(s) \in 1..Len(s)
        BY <2>1, <3>3, <1>2, <1>5
      <4> QED
        BY <2>1, <3>1, <3>3, <4>1, <1>1 DEF Before, Linked, Final
    <3> QED
      BY <3>2, <3>3
  <2>2. CASE i # Len(s) + 1
    <3>1. i \in 1..Len(s) /\ (i # 1 => i - 1 \in 1..Len(s))
      BY <2>2, <1>1, <1>2
    <3>2. p.prev[s[i]] = Before(s, i)
      BY <3>1, <1>2, <1>4 DEF PushBack, Linked
    <3> QED
      BY <3>1, <3>2, <1>1 DEF Before
  <2> QED
    BY <2>1, <2>2
<1>11. Linked(p, t)
  <2> HIDE DEF p
  <2> QED
    BY <1>6, <1>7, <1>8, <1>9, <1>10 DEF Linked
<1> QED
  BY <1>1, <1>11 DEF t

LEMMA OneBelow ==
    ASSUME NEW n \in Nat, n # 0, n # 1
    PROVE  1 \in 1..(n - 1)
OBVIOUS

\* remove cuts the node out.
LEMMA UnlinkCuts ==
    ASSUME NEW l \in LinkedList, NEW s \in Seq(Nodes), Linked(l, s), NEW p \in 1..Len(s)
    PROVE  Linked(Unlink(l, s[p]), Cut(s, p)) /\ ~ In(Cut(s, p), s[p])
<1> DEFINE t == Cut(s, p)
           u == Unlink(l, s[p])
           m == Len(s)
<1>1. /\ t \in Seq(Nodes) /\ Len(t) = m - 1
      /\ \A i \in 1..(m - 1) : t[i] = IF i < p THEN s[i] ELSE s[i + 1]
  BY CutFacts
<1>2. /\ m \in Nat /\ p \in Nat /\ p > 0 /\ p <= m
      /\ l.next \in [Nodes -> Pointer] /\ l.prev \in [Nodes -> Pointer]
  BY DEF LinkedList
<1>3. \A i \in 1..m : s[i] \in Nodes /\ s[i] # Nil
  BY SeqFacts
<1>4. \A i, j \in 1..m : s[i] = s[j] => i = j
  BY DEF Linked, Distinct
<1>5. t = <<>> <=> m = 1
  BY <1>1, <1>2, SeqFacts
<1>6. s # <<>>
  BY <1>2, SeqFacts
<1>7. l.next[s[p]] = After(s, p) /\ l.prev[s[p]] = Before(s, p)
  BY DEF Linked
<1> HIDE DEF t
<1>8. Distinct(t)
  <2> SUFFICES ASSUME NEW i \in 1..(m - 1), NEW j \in 1..(m - 1), t[i] = t[j] PROVE i = j
    BY <1>1 DEF Distinct
  <2>1. i \in 1..m /\ i + 1 \in 1..m /\ j \in 1..m /\ j + 1 \in 1..m
    BY <1>2
  <2> QED
    BY <1>1, <1>2, <1>4, <2>1
<1>9. ~ In(t, s[p])
  <2> SUFFICES ASSUME NEW i \in 1..(m - 1), t[i] = s[p] PROVE FALSE
    BY <1>1 DEF In
  <2>1. i \in 1..m /\ i + 1 \in 1..m
    BY <1>2
  <2> QED
    BY <1>1, <1>2, <1>4, <2>1
<1>10. u.head = First(t)
  <2>1. CASE p = 1
    <3>1. u.head = After(s, 1)
      BY <2>1, <1>7 DEF Unlink, Before
    <3>2. CASE m = 1
      BY <3>1, <3>2, <1>5 DEF After, First
    <3>3. CASE m # 1
      <4>1. m \in Nat /\ m # 0
        BY <1>2
      <4>3. 1 \in 1..(m - 1)
        BY <3>3, <4>1, OneBelow
      <4> QED
        BY <2>1, <3>1, <3>3, <4>3, <1>1, <1>5 DEF After, First
    <3> QED
      BY <3>2, <3>3
  <2>2. CASE p # 1
    <3>1. p - 1 \in 1..m /\ 1 \in 1..(m - 1) /\ 1 < p
      BY <2>2, <1>2
    <3>2. Before(s, p) # Nil
      BY <2>2, <3>1, <1>3 DEF Before
    <3>3. u.head = s[1]
      BY <3>2, <1>6, <1>7 DEF Unlink, Linked, First
    <3> QED
      BY <3>1, <3>3, <1>1, <1>2, <1>5 DEF First
  <2> QED
    BY <2>1, <2>2
<1>11. u.tail = Final(t)
  <2>1. CASE p = m
    <3>1. u.tail = Before(s, m)
      BY <2>1, <1>7 DEF Unlink, After
    <3>2. CASE m = 1
      BY <3>1, <3>2, <1>5 DEF Before, Final
    <3>3. CASE m # 1
      <4>1. m - 1 \in 1..(m - 1) /\ m - 1 < p
        BY <2>1, <3>3, <1>2
      <4> QED
        BY <3>1, <3>3, <4>1, <1>1, <1>5 DEF Before, Final
    <3> QED
      BY <3>2, <3>3
  <2>2. CASE p # m
    <3>1. p + 1 \in 1..m /\ m - 1 \in 1..(m - 1) /\ ~ (m - 1 < p) /\ (m - 1) + 1 = m
      BY <2>2, <1>2
    <3>2. After(s, p) # Nil
      BY <2>2, <3>1, <1>3 DEF After
    <3>3. u.tail = s[m]
      BY <3>2, <1>6, <1>7 DEF Unlink, Linked, Final
    <3> QED
      BY <3>1, <3>3, <1>1, <1>2, <1>5 DEF Final
  <2> QED
    BY <2>1, <2>2
<1>12. u.len = Len(t)
  BY <1>1 DEF Unlink, Linked
<1>13. \A n \in Nodes : /\ u.next[n] = IF n = Before(s, p) THEN After(s, p) ELSE l.next[n]
                        /\ u.prev[n] = IF n = After(s, p) THEN Before(s, p) ELSE l.prev[n]
  BY <1>7 DEF Unlink
<1>14. \A i \in 1..m : l.next[s[i]] = After(s, i) /\ l.prev[s[i]] = Before(s, i)
  BY DEF Linked
<1>15. \A i \in 1..m : (s[i] = Before(s, p) <=> i = p - 1) /\ (s[i] = After(s, p) <=> i = p + 1)
  <2> TAKE i \in 1..m
  <2>1. s[i] = Before(s, p) <=> i = p - 1
    <3>1. CASE p = 1
      BY <3>1, <1>3 DEF Before
    <3>2. CASE p # 1
      <4>1. p - 1 \in 1..m
        BY <3>2, <1>2
      <4> QED
        BY <3>2, <4>1, <1>4 DEF Before
    <3> QED
      BY <3>1, <3>2
  <2>2. s[i] = After(s, p) <=> i = p + 1
    <3>1. CASE p = m
      BY <3>1, <1>2, <1>3 DEF After
    <3>2. CASE p # m
      <4>1. p + 1 \in 1..m
        BY <3>2, <1>2
      <4> QED
        BY <3>2, <4>1, <1>4 DEF After
    <3> QED
      BY <3>1, <3>2
  <2> QED
    BY <2>1, <2>2
<1>16. \A i \in 1..m : /\ u.next[s[i]] = IF i = p - 1 THEN After(s, p) ELSE After(s, i)
                       /\ u.prev[s[i]] = IF i = p + 1 THEN Before(s, p) ELSE Before(s, i)
  <2> HIDE DEF u
  <2> QED
    BY <1>3, <1>13, <1>14, <1>15
<1> HIDE DEF u
<1>17. ASSUME NEW i \in 1..(m - 1) PROVE u.next[t[i]] = After(t, i)
  <2>0. i \in 1..m /\ i + 1 \in 1..m /\ i \in Nat
    BY <1>2
  <2>1. CASE i < p - 1
    <3>1. t[i] = s[i] /\ t[i + 1] = s[i + 1] /\ i # m - 1 /\ i # p - 1 /\ i # m
      BY <2>0, <2>1, <1>1, <1>2
    <3> QED
      BY <2>0, <3>1, <1>1, <1>16 DEF After
  <2>2. CASE i = p - 1
    <3>1. t[i] = s[i]
      BY <2>0, <2>2, <1>1, <1>2
    <3>2. i # m - 1 => t[i + 1] = s[p + 1] /\ p # m
      BY <2>0, <2>2, <1>1, <1>2
    <3>3. i = m - 1 => p = m
      BY <2>0, <2>2, <1>2
    <3> QED
      BY <2>0, <2>2, <3>1, <3>2, <3>3, <1>1, <1>16 DEF After
  <2>3. CASE i > p - 1
    <3>1. t[i] = s[i + 1] /\ i + 1 # p - 1
      BY <2>0, <2>3, <1>1, <1>2
    <3>2. i # m - 1 => t[i + 1] = s[(i + 1) + 1] /\ i + 1 # m
      BY <2>0, <2>3, <1>1, <1>2
    <3>3. i = m - 1 => i + 1 = m
      BY <2>0, <1>2
    <3> QED
      BY <2>0, <3>1, <3>2, <3>3, <1>1, <1>16 DEF After
  <2> QED
    BY <2>0, <2>1, <2>2, <2>3, <1>2
<1>18. ASSUME NEW i \in 1..(m - 1) PROVE u.prev[t[i]] = Before(t, i)
  <2>0. i \in 1..m /\ i + 1 \in 1..m /\ i \in Nat /\ (i # 1 => i - 1 \in 1..(m - 1))
    BY <1>2
  <2>1. CASE i < p
    <3>1. t[i] = s[i] /\ (i # 1 => t[i - 1] = s[i - 1]) /\ i # p + 1
      BY <2>0, <2>1, <1>1, <1>2
    <3> QED
      BY <2>0, <3>1, <1>16 DEF Before
  <2>2. CASE i = p
    <3>1. t[i] = s[i + 1] /\ (i # 1 => t[i - 1] = s[i - 1])
      BY <2>0, <2>2, <1>1, <1>2
    <3> QED
      BY <2>0, <2>2, <3>1, <1>16 DEF Before
  <2>3. CASE i > p
    <3>1. /\ t[i] = s[i + 1] /\ i # 1 /\ t[i - 1] = s[i] /\ i + 1 # p + 1
          /\ i + 1 # 1 /\ (i + 1) - 1 = i
      BY <2>0, <2>3, <1>1, <1>2
    <3> QED
      BY <2>0, <3>1, <1>16 DEF Before
  <2> QED
    BY <2>0, <2>1, <2>2, <2>3, <1>2
<1>19. Linked(u, t)
  BY <1>1, <1>8, <1>10, <1>11, <1>12, <1>17, <1>18 DEF Linked
<1> QED
  BY <1>9, <1>19 DEF t, u

\* move_back: cut out, and appended.
LEMMA MoveBackMoves ==
    ASSUME NEW l \in LinkedList, NEW s \in Seq(Nodes), Linked(l, s), NEW p \in 1..Len(s)
    PROVE  /\ MoveBack(l, s[p]) \in LinkedList
           /\ Append(Cut(s, p), s[p]) \in Seq(Nodes)
           /\ Linked(MoveBack(l, s[p]), Append(Cut(s, p), s[p]))
<1>1. s[p] \in Nodes
  BY SeqFacts
<1>2. Unlink(l, s[p]) \in LinkedList /\ MoveBack(l, s[p]) \in LinkedList
  BY <1>1, ListType DEF MoveBack
<1>3. Linked(Unlink(l, s[p]), Cut(s, p)) /\ ~ In(Cut(s, p), s[p]) /\ Cut(s, p) \in Seq(Nodes)
  BY UnlinkCuts, CutFacts
<1> QED
  BY <1>1, <1>2, <1>3, PushBackAppends DEF MoveBack

LEMMA ForgetFields ==
    ASSUME NEW l \in LinkedList, NEW n \in Nodes
    PROVE  Forget(l, n) = [head |-> l.head, tail |-> l.tail, len |-> l.len,
                           next |-> [l.next EXCEPT ![n] = Nil], prev |-> [l.prev EXCEPT ![n] = Nil]]
<1> DEFINE f == Forget(l, n)
<1>1. /\ f.head = l.head /\ f.tail = l.tail /\ f.len = l.len
      /\ f.next = [l.next EXCEPT ![n] = Nil] /\ f.prev = [l.prev EXCEPT ![n] = Nil]
  BY DEF Forget, LinkedList
<1>2. f \in LinkedList
  BY ListType
<1>3. f = [head |-> f.head, tail |-> f.tail, len |-> f.len, next |-> f.next, prev |-> f.prev]
  <2> HIDE DEF f
  <2> QED
    BY <1>2 DEF LinkedList
<1> QED
  BY <1>1, <1>3

\* What a node that is not in the list holds is not part of it.
LEMMA ForgetKeeps ==
    ASSUME NEW l \in LinkedList, NEW s \in Seq(Nodes), Linked(l, s), NEW n \in Nodes, ~ In(s, n)
    PROVE  Linked(Forget(l, n), s)
<1>1. l.next \in [Nodes -> Pointer] /\ l.prev \in [Nodes -> Pointer]
  BY DEF LinkedList
<1>2. \A i \in 1..Len(s) : s[i] \in Nodes /\ s[i] # n
  BY SeqFacts DEF In
<1>3. /\ Forget(l, n).head = l.head /\ Forget(l, n).tail = l.tail /\ Forget(l, n).len = l.len
      /\ \A m \in Nodes : m # n => /\ Forget(l, n).next[m] = l.next[m]
                                  /\ Forget(l, n).prev[m] = l.prev[m]
  BY <1>1 DEF Forget, LinkedList
<1> QED
  BY <1>2, <1>3 DEF Linked

------------------------------------------------------------------------------
(* The cache: boxes b, table t and list l, whose nodes are s.              *)

Matches(b, t) ==
  /\ \A k \in Keys : t[k] # Nil => b[t[k]] # Nil /\ b[t[k]].key = k
  /\ \A n \in Nodes : b[n] # Nil => t[b[n].key] = n

Boxed(b, s) == \A n \in Nodes : b[n] # Nil <=> In(s, n)

Cache(b, t, l, s) ==
  /\ b \in [Nodes -> Bucket \cup {Nil}] /\ t \in [Keys -> Pointer] /\ l \in LinkedList
  /\ s \in Seq(Nodes) /\ Linked(l, s) /\ Boxed(b, s) /\ Matches(b, t)

CacheInv == \E s \in Seq(Nodes) : Cache(box, table, list, s)

\* f is g but for one place, or but for the value of one box.
Changed(f, g, x, y) == f = [g EXCEPT ![x] = y]
Revalued(c, b, n, v) == c = [b EXCEPT ![n].value = v]

\* What is seen from outside.
KeysOf(b, s) == [i \in 1..Len(s) |-> b[s[i]].key]
Extended(f, k, v) == [j \in DOMAIN f \cup {k} |-> IF j = k THEN v ELSE f[j]]
Shortened(f, k) == [j \in DOMAIN f \ {k} |-> f[j]]
ValuesOf(b, t) == [k \in {j \in Keys : t[j] # Nil} |-> b[t[k]].value]

\* The nodes of the list are no more than there are, and as many as it says.
LEMMA ListSize ==
    ASSUME NEW s \in Seq(Nodes), Distinct(s)
    PROVE  /\ Len(s) <= Cardinality(Nodes)
           /\ Cardinality({n \in Nodes : In(s, n)}) = Len(s)
<1> DEFINE T == {n \in Nodes : In(s, n)}
<1>1. Len(s) \in Nat /\ \A i \in 1..Len(s) : s[i] \in T
  BY SeqFacts DEF In
<1>2. IsFiniteSet(1..Len(s)) /\ Cardinality(1..Len(s)) = Len(s)
  <2>1. Len(s) \in Int /\ ~ (1 > Len(s) /\ Len(s) # 0)
    BY <1>1
  <2> QED
    BY <2>1, FS_Interval
<1>3. s \in [1..Len(s) -> T]
  BY <1>1, SeqFacts
<1>4. \A n \in T : \E i \in 1..Len(s) : s[i] = n
  BY DEF In
<1>5. s \in Bijection(1..Len(s), T)
  <2> HIDE DEF T
  <2> QED
    BY <1>3, <1>4 DEF Bijection, Injection, Surjection, IsInjective, Distinct
<1>6. ExistsBijection(1..Len(s), T)
  BY <1>5 DEF ExistsBijection
<1>7. Cardinality(T) = Len(s)
  BY <1>2, <1>6, FS_Bijection
<1>8. T \subseteq Nodes
  OBVIOUS
<1>9. Cardinality(T) <= Cardinality(Nodes)
  <2> HIDE DEF T
  <2> QED
    BY <1>8, FS_Subset, NodesAssumption
<1> QED
  BY <1>7, <1>9

\* Where the node of a key is in the list.
LEMMA KeyAt ==
    ASSUME NEW b, NEW t, NEW l, NEW s, Cache(b, t, l, s)
    PROVE  /\ \A k \in Keys : t[k] # Nil =>
                /\ t[k] \in Nodes /\ b[t[k]] \in Bucket /\ b[t[k]].key = k
                /\ \E p \in 1..Len(s) : s[p] = t[k]
           /\ \A p \in 1..Len(s) :
                /\ s[p] \in Nodes /\ b[s[p]] \in Bucket /\ b[s[p]].key \in Keys
                /\ t[b[s[p]].key] = s[p]
           /\ Distinct(s)
<1>1. ASSUME NEW p \in 1..Len(s)
      PROVE  s[p] \in Nodes /\ b[s[p]] \in Bucket /\ b[s[p]].key \in Keys /\ t[b[s[p]].key] = s[p]
  <2>1. s[p] \in Nodes
    BY SeqFacts DEF Cache
  <2>2. b[s[p]] # Nil
    BY <2>1 DEF Cache, Boxed, In
  <2>3. b[s[p]] \in Bucket
    BY <2>1, <2>2 DEF Cache
  <2> QED
    BY <2>1, <2>2, <2>3 DEF Cache, Matches, Bucket
<1>2. ASSUME NEW k \in Keys, t[k] # Nil
      PROVE  /\ t[k] \in Nodes /\ b[t[k]] \in Bucket /\ b[t[k]].key = k
             /\ \E p \in 1..Len(s) : s[p] = t[k]
  <2>1. t[k] \in Nodes
    BY <1>2 DEF Cache, Pointer
  <2>2. b[t[k]] # Nil /\ b[t[k]].key = k
    BY <1>2 DEF Cache, Matches
  <2>3. b[t[k]] \in Bucket
    BY <2>1, <2>2 DEF Cache
  <2>4. In(s, t[k])
    BY <2>1, <2>2 DEF Cache, Boxed
  <2> QED
    BY <2>1, <2>2, <2>3, <2>4 DEF In
<1> QED
  BY <1>1, <1>2 DEF Cache, Linked

\* No two nodes have the same key.
LEMMA KeysDistinct ==
    ASSUME NEW b, NEW t, NEW l, NEW s, Cache(b, t, l, s), NEW i \in 1..Len(s), NEW j \in 1..Len(s),
           b[s[i]].key = b[s[j]].key
    PROVE  i = j
<1>1. s[i] = s[j]
  BY KeyAt
<1> QED
  BY <1>1, KeyAt DEF Distinct

\* What a walk meets is what the list holds, in this state and the next.
LEMMA Seen ==
    ASSUME NEW s, Cache(box, table, list, s)
    PROVE  Order = KeysOf(box, s) /\ Value = ValuesOf(box, table)
<1>1. s \in Seq(Nodes) /\ Linked(list, s) /\ Len(s) <= Cardinality(Nodes) /\ Len(s) \in Nat
  BY ListSize, SeqFacts DEF Cache, Linked
<1>2. Forward = s
  BY <1>1, LinkedWalks DEF Forward
<1>3. DOMAIN s = 1..Len(s)
  BY <1>1
<1> QED
  BY <1>2, <1>3 DEF Order, Value, Has, KeysOf, ValuesOf

LEMMA SeenNext ==
    ASSUME NEW s, Cache(box', table', list', s)
    PROVE  Order' = KeysOf(box', s) /\ Value' = ValuesOf(box', table')
<1>1. s \in Seq(Nodes) /\ Linked(list', s) /\ Len(s) <= Cardinality(Nodes) /\ Len(s) \in Nat
  BY ListSize, SeqFacts DEF Cache, Linked
<1>2. Walk(list'.head, list'.next) = s
  BY <1>1, LinkedWalks
<1>3. Forward' = s
  BY <1>2 DEF Forward
<1>4. DOMAIN s = 1..Len(s)
  BY <1>1
<1> QED
  BY <1>3, <1>4 DEF Order, Value, Has, KeysOf, ValuesOf

\* The invariants that the run checks.
LEMMA InvariantsHold ==
    ASSUME CacheInv
    PROVE  WellLinked /\ TableMatches
<1>1. PICK s \in Seq(Nodes) : Cache(box, table, list, s)
  BY DEF CacheInv
<1>2. /\ Linked(list, s) /\ Len(s) <= Cardinality(Nodes) /\ Len(s) \in Nat
      /\ Cardinality({n \in Nodes : In(s, n)}) = Len(s)
  BY <1>1, ListSize, SeqFacts DEF Cache, Linked
<1>3. Forward = s /\ Backward = Reversed(s)
  BY <1>2, LinkedWalks DEF Forward, Backward
<1>4. list.len = Len(s) /\ DOMAIN s = 1..Len(s)
  BY <1>2 DEF Linked
<1>5. Allocated = {n \in Nodes : In(s, n)}
  BY <1>1 DEF Cache, Boxed, Allocated
<1>6. {s[i] : i \in DOMAIN s} = {n \in Nodes : In(s, n)}
  BY <1>4, SeqFacts DEF In
<1>7. TypeOK
  <2>1. Cardinality(Nodes) \in Nat
    BY NodesAssumption, FS_CardinalityType
  <2>2. list.len \in 0..Cardinality(Nodes)
    BY <2>1, <1>2, <1>4
  <2> QED
    BY <2>2, <1>1 DEF TypeOK, Cache, LinkedList, Pointer
<1>8. Backward = [i \in 1..list.len |-> Forward[list.len + 1 - i]]
  BY <1>3, <1>4 DEF Reversed
<1>9. TableMatches
  BY <1>1 DEF Cache, Matches, TableMatches, Has, Allocated
<1> QED
  BY <1>2, <1>3, <1>4, <1>5, <1>6, <1>7, <1>8, <1>9 DEF WellLinked

------------------------------------------------------------------------------
(* What the operations do to a cache.                                      *)

\* A hit that is a use.
LEMMA UseMoves ==
    ASSUME NEW b, NEW t, NEW l, NEW s, Cache(b, t, l, s), NEW p \in 1..Len(s)
    PROVE  LET u == Append(Cut(s, p), s[p]) IN
             /\ Cache(b, t, MoveBack(l, s[p]), u)
             /\ KeysOf(b, u) = Append(Cut(KeysOf(b, s), p), b[s[p]].key)
<1> DEFINE u == Append(Cut(s, p), s[p])
<1>1. l \in LinkedList /\ s \in Seq(Nodes) /\ Linked(l, s)
  BY DEF Cache
<1>2. MoveBack(l, s[p]) \in LinkedList /\ u \in Seq(Nodes) /\ Linked(MoveBack(l, s[p]), u)
  BY <1>1, MoveBackMoves
<1>3. /\ Cut(s, p) \in Seq(Nodes) /\ Len(Cut(s, p)) = Len(s) - 1
      /\ \A i \in 1..(Len(s) - 1) : Cut(s, p)[i] = IF i < p THEN s[i] ELSE s[i + 1]
  BY <1>1, CutFacts
<1>4. Len(s) \in Nat /\ p \in Nat /\ p > 0 /\ p <= Len(s)
  BY <1>1
<1>5. /\ Len(u) = Len(s) /\ u[Len(s)] = s[p]
      /\ \A i \in 1..(Len(s) - 1) : u[i] = IF i < p THEN s[i] ELSE s[i + 1]
  BY <1>3, <1>4
<1> HIDE DEF u
<1>6. ASSUME NEW n PROVE In(u, n) <=> In(s, n)
  <2>1. ASSUME NEW i \in 1..Len(s) PROVE \E j \in 1..Len(s) : u[i] = s[j]
    <3>1. CASE i = Len(s)
      BY <3>1, <1>5
    <3>2. CASE i # Len(s)
      <4>1. i \in 1..(Len(s) - 1) /\ i + 1 \in 1..Len(s)
        BY <3>2, <1>4
      <4> QED
        BY <4>1, <1>5
    <3> QED
      BY <3>1, <3>2
  <2>2. ASSUME NEW i \in 1..Len(s) PROVE \E j \in 1..Len(s) : s[i] = u[j]
    <3>1. CASE i = p
      BY <3>1, <1>4, <1>5
    <3>2. CASE i < p
      <4>1. i \in 1..(Len(s) - 1)
        BY <3>2, <1>4
      <4> QED
        BY <3>2, <4>1, <1>5
    <3>3. CASE i > p
      <4>1. i - 1 \in 1..(Len(s) - 1) /\ ~ (i - 1 < p) /\ (i - 1) + 1 = i /\ i - 1 \in 1..Len(s)
        BY <3>3, <1>4
      <4> QED
        BY <4>1, <1>5
    <3> QED
      BY <3>1, <3>2, <3>3, <1>4
  <2>3. ASSUME In(u, n) PROVE In(s, n)
    <3>1. PICK i \in 1..Len(s) : u[i] = n
      BY <2>3, <1>5 DEF In
    <3> QED
      BY <2>1, <3>1 DEF In
  <2>4. ASSUME In(s, n) PROVE In(u, n)
    <3>1. PICK i \in 1..Len(s) : s[i] = n
      BY <2>4 DEF In
    <3>2. PICK j \in 1..Len(s) : n = u[j]
      BY <2>2, <3>1
    <3> QED
      BY <3>2, <1>5 DEF In
  <2> QED
    BY <2>3, <2>4
<1>7. Cache(b, t, MoveBack(l, s[p]), u)
  BY <1>2, <1>6 DEF Cache, Boxed
<1>8. KeysOf(b, u) = Append(Cut(KeysOf(b, s), p), b[s[p]].key)
  <2> DEFINE K == KeysOf(b, s)
             C == Cut(K, p)
  <2>1. K \in [1..Len(s) -> {b[s[i]].key : i \in 1..Len(s)}]
    BY DEF KeysOf
  <2>2. K \in Seq({b[s[i]].key : i \in 1..Len(s)}) /\ Len(K) = Len(s)
    BY <2>1, <1>4
  <2>3. C = [i \in 1..(Len(s) - 1) |-> b[u[i]].key]
    <3>1. \A i \in 1..(Len(s) - 1) : i \in 1..Len(s) /\ i + 1 \in 1..Len(s)
      BY <1>4
    <3>2. \A i \in 1..(Len(s) - 1) : (IF i < p THEN K[i] ELSE K[i + 1]) = b[u[i]].key
      BY <3>1, <1>5 DEF KeysOf
    <3> QED
      BY <3>2, <2>2 DEF Cut
  <2>4. C \in Seq({b[u[i]].key : i \in 1..Len(s)}) /\ Len(C) = Len(s) - 1
    <3>1. Len(s) - 1 \in Nat /\ \A i \in 1..(Len(s) - 1) : i \in 1..Len(s)
      BY <1>4
    <3>2. C \in [1..(Len(s) - 1) -> {b[u[i]].key : i \in 1..Len(s)}]
      BY <2>3, <3>1
    <3> QED
      BY <3>1, <3>2
  <2> HIDE DEF C
  <2> DEFINE A == Append(C, b[s[p]].key)
  <2>5. /\ Len(A) = Len(s) /\ A[Len(s)] = b[s[p]].key
        /\ \A i \in 1..(Len(s) - 1) : A[i] = b[u[i]].key
    BY <2>3, <2>4, <1>4
  <2>6. A = [i \in 1..Len(s) |-> A[i]]
    BY <2>4, <2>5
  <2>7. \A i \in 1..Len(s) : A[i] = b[u[i]].key
    <3> TAKE i \in 1..Len(s)
    <3>1. i = Len(s) \/ i \in 1..(Len(s) - 1)
      BY <1>4
    <3> HIDE DEF A
    <3> QED
      BY <3>1, <2>5, <1>5
  <2>8. A = KeysOf(b, u)
    <3> HIDE DEF A
    <3> QED
      BY <2>6, <2>7, <1>5 DEF KeysOf
  <2> QED
    BY <2>8 DEF C
<1> QED
  BY <1>7, <1>8 DEF u

\* A value written through the pointer.
LEMMA WriteChanges ==
    ASSUME NEW b, NEW t, NEW l, NEW s, Cache(b, t, l, s), NEW k \in Keys, t[k] # Nil,
           NEW v \in Values, NEW c, Revalued(c, b, t[k], v)
    PROVE  /\ Cache(c, t, l, s) /\ KeysOf(c, s) = KeysOf(b, s)
           /\ ValuesOf(c, t) = Extended(ValuesOf(b, t), k, v)
<1>1. t[k] \in Nodes /\ b[t[k]] \in Bucket /\ b[t[k]].key = k
  BY KeyAt
<1>2. b \in [Nodes -> Bucket \cup {Nil}]
  BY DEF Cache
<1>3. /\ c \in [Nodes -> Bucket \cup {Nil}] /\ c[t[k]] \in Bucket
      /\ c[t[k]].key = k /\ c[t[k]].value = v
      /\ \A n \in Nodes : n # t[k] => c[n] = b[n]
  BY <1>1, <1>2 DEF Bucket, Revalued
<1>4. c[t[k]] # Nil /\ b[t[k]] # Nil
  BY <1>1, <1>3, NilAssumption
<1>5. \A n \in Nodes : (c[n] # Nil <=> b[n] # Nil) /\ (c[n] # Nil => c[n].key = b[n].key)
  BY <1>1, <1>3, <1>4
<1>6. \A j \in Keys : t[j] # Nil => t[j] \in Nodes
  BY KeyAt
<1>7. Cache(c, t, l, s)
  BY <1>3, <1>5, <1>6 DEF Cache, Matches, Boxed
<1>8. KeysOf(c, s) = KeysOf(b, s)
  <2>1. \A i \in 1..Len(s) : s[i] \in Nodes /\ b[s[i]] # Nil
    BY KeyAt, NilAssumption
  <2> QED
    BY <2>1, <1>5 DEF KeysOf
<1>9. \A j \in Keys : t[j] # Nil /\ j # k => c[t[j]] = b[t[j]]
  <2> TAKE j \in Keys
  <2> HAVE t[j] # Nil /\ j # k
  <2>1. t[j] \in Nodes /\ b[t[j]].key = j
    BY KeyAt
  <2>2. t[j] # t[k]
    BY <2>1, <1>1
  <2> QED
    BY <2>1, <2>2, <1>3
<1>10. ValuesOf(c, t) = Extended(ValuesOf(b, t), k, v)
  <2>1. DOMAIN ValuesOf(b, t) = {j \in Keys : t[j] # Nil}
        /\ \A j \in {i \in Keys : t[i] # Nil} : ValuesOf(b, t)[j] = b[t[j]].value
    BY DEF ValuesOf
  <2>2. {j \in Keys : t[j] # Nil} \cup {k} = {j \in Keys : t[j] # Nil}
    OBVIOUS
  <2>3. \A j \in {i \in Keys : t[i] # Nil} :
           c[t[j]].value = IF j = k THEN v ELSE ValuesOf(b, t)[j]
    BY <2>1, <1>3, <1>9
  <2> HIDE DEF ValuesOf
  <2>4. ValuesOf(c, t) = [j \in {i \in Keys : t[i] # Nil} |-> c[t[j]].value]
    BY DEF ValuesOf
  <2> QED
    BY <2>1, <2>2, <2>3, <2>4 DEF Extended, Shortened
<1> QED
  BY <1>7, <1>8, <1>10

\* A new node for a key that has none.
LEMMA AllocateAdds ==
    ASSUME NEW b, NEW t, NEW l, NEW s, Cache(b, t, l, s), NEW k \in Keys, t[k] = Nil, NEW v \in Values,
           NEW n \in Nodes, b[n] = Nil, NEW c, Changed(c, b, n, [key |-> k, value |-> v]),
           NEW d, Changed(d, t, k, n)
    PROVE  /\ Cache(c, d, PushBack(l, n), Append(s, n))
           /\ KeysOf(c, Append(s, n)) = Append(KeysOf(b, s), k)
           /\ ValuesOf(c, d) = Extended(ValuesOf(b, t), k, v)
<1> DEFINE new == [key |-> k, value |-> v]
           u == Append(s, n)
<1>1. /\ b \in [Nodes -> Bucket \cup {Nil}] /\ t \in [Keys -> Pointer] /\ l \in LinkedList
      /\ s \in Seq(Nodes) /\ Linked(l, s) /\ Boxed(b, s) /\ Matches(b, t)
  BY DEF Cache
<1>2. ~ In(s, n)
  BY <1>1 DEF Boxed
<1>3. u \in Seq(Nodes) /\ Linked(PushBack(l, n), u) /\ PushBack(l, n) \in LinkedList
  BY <1>1, <1>2, PushBackAppends, ListType
<1>4. /\ Len(u) = Len(s) + 1 /\ Len(s) \in Nat /\ u[Len(s) + 1] = n
      /\ \A i \in 1..Len(s) : u[i] = s[i]
  BY <1>1
<1> HIDE DEF u
<1>5. new \in Bucket /\ new # Nil /\ new.key = k /\ new.value = v /\ n # Nil
  BY NilAssumption DEF Bucket
<1>6. /\ c \in [Nodes -> Bucket \cup {Nil}] /\ c[n] = new
      /\ \A m \in Nodes : m # n => c[m] = b[m]
  BY <1>1, <1>5 DEF Changed
<1> HIDE DEF new
<1>7. /\ d \in [Keys -> Pointer] /\ d[k] = n
      /\ \A j \in Keys : j # k => d[j] = t[j]
  BY <1>1 DEF Pointer, Changed
<1>8. \A i \in 1..Len(u) : i = Len(s) + 1 \/ i \in 1..Len(s)
  BY <1>4
<1>9. \A m : In(u, m) <=> m = n \/ In(s, m)
  <2> TAKE m
  <2>1. Len(s) + 1 \in 1..Len(u) /\ \A i \in 1..Len(s) : i \in 1..Len(u)
    BY <1>4
  <2>2. ASSUME In(u, m) PROVE m = n \/ In(s, m)
    BY <2>2, <1>4, <1>8 DEF In
  <2>3. In(u, n)
    BY <2>1, <1>4 DEF In
  <2>4. ASSUME In(s, m) PROVE In(u, m)
    BY <2>1, <2>4, <1>4 DEF In
  <2> QED
    BY <2>2, <2>3, <2>4
<1>10. Boxed(c, u)
  BY <1>1, <1>5, <1>6, <1>9 DEF Boxed
<1>11. \A j \in Keys : t[j] # Nil => t[j] \in Nodes /\ t[j] # n
  BY <1>1, KeyAt DEF Matches
<1>12. \A m \in Nodes : b[m] # Nil => m # n /\ b[m].key \in Keys /\ b[m].key # k
  <2> TAKE m \in Nodes
  <2> HAVE b[m] # Nil
  <2>1. b[m] \in Bucket
    BY <1>1
  <2>2. t[b[m].key] = m /\ m # Nil
    BY <1>1, NilAssumption DEF Matches
  <2> QED
    BY <2>1, <2>2 DEF Bucket
<1>13. Matches(c, d)
  <2>1. ASSUME NEW j \in Keys, d[j] # Nil PROVE c[d[j]] # Nil /\ c[d[j]].key = j
    <3>1. CASE j = k
      BY <3>1, <1>5, <1>6, <1>7
    <3>2. CASE j # k
      <4>1. t[j] # Nil /\ d[j] = t[j] /\ c[d[j]] = b[t[j]]
        BY <3>2, <2>1, <1>6, <1>7, <1>11
      <4> QED
        BY <4>1, <1>1 DEF Matches
    <3> QED
      BY <3>1, <3>2
  <2>2. ASSUME NEW m \in Nodes, c[m] # Nil PROVE d[c[m].key] = m
    <3>1. CASE m = n
      BY <3>1, <1>5, <1>6, <1>7
    <3>2. CASE m # n
      <4>1. c[m] = b[m] /\ b[m] # Nil
        BY <3>2, <2>2, <1>6
      <4> QED
        BY <4>1, <1>1, <1>7, <1>12 DEF Matches
    <3> QED
      BY <3>1, <3>2
  <2> QED
    BY <2>1, <2>2 DEF Matches
<1>14. Cache(c, d, PushBack(l, n), u)
  BY <1>3, <1>6, <1>7, <1>10, <1>13 DEF Cache
<1>15. KeysOf(c, u) = Append(KeysOf(b, s), k)
  <2> DEFINE S == {b[s[i]].key : i \in 1..Len(s)} \cup {k}
             K == KeysOf(b, s)
             A == Append(K, k)
  <2>1. K \in [1..Len(s) -> S]
    BY DEF KeysOf
  <2>2. K \in Seq(S) /\ Len(K) = Len(s)
    BY <2>1, <1>4
  <2>3. \A i \in 1..Len(s) : K[i] = b[s[i]].key
    BY DEF KeysOf
  <2>4. \A i \in 1..Len(s) : s[i] \in Nodes /\ s[i] # n
    BY <1>1, <1>2, SeqFacts DEF In
  <2> HIDE DEF K, S
  <2>5. A \in Seq(S \cup {k}) /\ Len(A) = Len(u) /\ A[Len(s) + 1] = k /\ \A i \in 1..Len(s) : A[i] = K[i]
    BY <2>2, <1>4
  <2>6. A = [i \in 1..Len(u) |-> A[i]]
    <3>1. A \in Seq(S \cup {k}) /\ Len(A) = Len(u)
      BY <2>5
    <3> HIDE DEF A
    <3> QED
      BY <3>1
  <2>7. \A i \in 1..Len(u) : A[i] = c[u[i]].key
    <3> HIDE DEF A
    <3> TAKE i \in 1..Len(u)
    <3>1. CASE i = Len(s) + 1
      BY <3>1, <2>5, <1>4, <1>5, <1>6
    <3>2. CASE i \in 1..Len(s)
      BY <3>2, <2>3, <2>4, <2>5, <1>4, <1>6
    <3> QED
      BY <3>1, <3>2, <1>8
  <2>8. A = KeysOf(c, u)
    <3> HIDE DEF A
    <3> QED
      BY <2>6, <2>7 DEF KeysOf
  <2> QED
    BY <2>8 DEF K
<1>16. ValuesOf(c, d) = Extended(ValuesOf(b, t), k, v)
  <2>1. DOMAIN ValuesOf(b, t) = {j \in Keys : t[j] # Nil}
        /\ \A j \in {i \in Keys : t[i] # Nil} : ValuesOf(b, t)[j] = b[t[j]].value
    BY DEF ValuesOf
  <2>2. {j \in Keys : t[j] # Nil} \cup {k} = {j \in Keys : d[j] # Nil}
    BY <1>5, <1>7
  <2>3. \A j \in {i \in Keys : d[i] # Nil} :
           c[d[j]].value = IF j = k THEN v ELSE ValuesOf(b, t)[j]
    <3> TAKE j \in {i \in Keys : d[i] # Nil}
    <3>1. CASE j = k
      BY <3>1, <1>5, <1>6, <1>7
    <3>2. CASE j # k
      BY <3>2, <2>1, <1>6, <1>7, <1>11
    <3> QED
      BY <3>1, <3>2
  <2> HIDE DEF ValuesOf
  <2>4. ValuesOf(c, d) = [j \in {i \in Keys : d[i] # Nil} |-> c[d[j]].value]
    BY DEF ValuesOf
  <2> QED
    BY <2>1, <2>2, <2>3, <2>4 DEF Extended, Shortened
<1> QED
  BY <1>14, <1>15, <1>16 DEF u

\* The node of a key given back.
LEMMA ReleaseCuts ==
    ASSUME NEW b, NEW t, NEW l, NEW s, Cache(b, t, l, s), NEW k \in Keys, t[k] # Nil,
           NEW p \in 1..Len(s), s[p] = t[k], NEW c, Changed(c, b, t[k], Nil),
           NEW d, Changed(d, t, k, Nil)
    PROVE  /\ Cache(c, d, Forget(Unlink(l, t[k]), t[k]), Cut(s, p))
           /\ KeysOf(c, Cut(s, p)) = Cut(KeysOf(b, s), p)
           /\ ValuesOf(c, d) = Shortened(ValuesOf(b, t), k)
<1> DEFINE n == t[k]
           u == Cut(s, p)
           w == Forget(Unlink(l, n), n)
<1>1. /\ b \in [Nodes -> Bucket \cup {Nil}] /\ t \in [Keys -> Pointer] /\ l \in LinkedList
      /\ s \in Seq(Nodes) /\ Linked(l, s) /\ Boxed(b, s) /\ Matches(b, t)
  BY DEF Cache
<1>2. n \in Nodes /\ b[n] \in Bucket /\ b[n].key = k
  BY KeyAt
<1>3. /\ u \in Seq(Nodes) /\ Len(u) = Len(s) - 1
      /\ \A i \in 1..(Len(s) - 1) : u[i] = IF i < p THEN s[i] ELSE s[i + 1]
  BY <1>1, CutFacts
<1>4. Len(s) \in Nat /\ p \in Nat /\ p > 0 /\ p <= Len(s)
  BY <1>1
<1>5. Linked(Unlink(l, n), u) /\ ~ In(u, n) /\ Unlink(l, n) \in LinkedList
  BY <1>1, <1>2, UnlinkCuts, ListType
<1> HIDE DEF u
<1>6. Linked(w, u) /\ w \in LinkedList
  BY <1>2, <1>3, <1>5, ForgetKeeps, ListType
<1> HIDE DEF w
<1>7. /\ c \in [Nodes -> Bucket \cup {Nil}] /\ c[n] = Nil
      /\ \A m \in Nodes : m # n => c[m] = b[m]
  BY <1>1, <1>2 DEF Changed
<1>8. /\ d \in [Keys -> Pointer] /\ d[k] = Nil
      /\ \A j \in Keys : j # k => d[j] = t[j]
  BY <1>1 DEF Pointer, Changed
<1>9. \A i \in 1..(Len(s) - 1) : i \in 1..Len(s) /\ i + 1 \in 1..Len(s) /\ i \in Nat
  BY <1>4
<1>10. \A m : In(u, m) <=> m # n /\ In(s, m)
  <2> TAKE m
  <2>1. ASSUME In(u, m) PROVE m # n /\ In(s, m)
    BY <2>1, <1>3, <1>5, <1>9 DEF In
  <2>2. ASSUME m # n, In(s, m) PROVE In(u, m)
    <3>1. PICK i \in 1..Len(s) : s[i] = m
      BY <2>2 DEF In
    <3>2. i # p
      BY <2>2, <3>1
    <3>3. CASE i < p
      <4>1. i \in 1..(Len(s) - 1)
        BY <3>3, <1>4
      <4> QED
        BY <3>1, <3>3, <4>1, <1>3 DEF In
    <3>4. CASE i > p
      <4>1. i - 1 \in 1..(Len(s) - 1) /\ ~ (i - 1 < p) /\ (i - 1) + 1 = i
        BY <3>4, <1>4
      <4> QED
        BY <3>1, <4>1, <1>3 DEF In
    <3> QED
      BY <3>2, <3>3, <3>4, <1>4
  <2> QED
    BY <2>1, <2>2
<1>11. Boxed(c, u)
  BY <1>1, <1>7, <1>10 DEF Boxed
<1>12. \A j \in Keys : t[j] # Nil => t[j] \in Nodes /\ (j # k => t[j] # n)
  BY <1>2, KeyAt
<1>13. \A m \in Nodes : b[m] # Nil /\ m # n => b[m].key \in Keys /\ b[m].key # k
  <2> TAKE m \in Nodes
  <2> HAVE b[m] # Nil /\ m # n
  <2>1. b[m] \in Bucket
    BY <1>1
  <2>2. t[b[m].key] = m
    BY <1>1 DEF Matches
  <2> QED
    BY <2>1, <2>2 DEF Bucket
<1>14. Matches(c, d)
  <2>1. ASSUME NEW j \in Keys, d[j] # Nil PROVE c[d[j]] # Nil /\ c[d[j]].key = j
    BY <2>1, <1>1, <1>7, <1>8, <1>12 DEF Matches
  <2>2. ASSUME NEW m \in Nodes, c[m] # Nil PROVE d[c[m].key] = m
    BY <2>2, <1>1, <1>7, <1>8, <1>13 DEF Matches
  <2> QED
    BY <2>1, <2>2 DEF Matches
<1>15. Cache(c, d, w, u)
  BY <1>3, <1>6, <1>7, <1>8, <1>11, <1>14 DEF Cache
<1>16. KeysOf(c, u) = Cut(KeysOf(b, s), p)
  <2> DEFINE K == KeysOf(b, s)
  <2>1. Len(K) = Len(s) /\ \A i \in 1..Len(s) : K[i] = b[s[i]].key
    <3>1. K \in [1..Len(s) -> {b[s[i]].key : i \in 1..Len(s)}]
      BY DEF KeysOf
    <3>2. Len(K) = Len(s)
      BY <3>1, <1>4
    <3> QED
      BY <3>2 DEF KeysOf
  <2> HIDE DEF K
  <2>2. \A i \in 1..(Len(s) - 1) : u[i] \in Nodes /\ u[i] # n
    BY <1>3, <1>5, SeqFacts DEF In
  <2>3. \A i \in 1..(Len(s) - 1) : c[u[i]].key = IF i < p THEN K[i] ELSE K[i + 1]
    BY <2>1, <2>2, <1>3, <1>7, <1>9
  <2>4. KeysOf(c, u) = Cut(K, p)
    BY <2>1, <2>3, <1>3 DEF KeysOf, Cut
  <2> QED
    BY <2>4 DEF K
<1>17. ValuesOf(c, d) = Shortened(ValuesOf(b, t), k)
  <2>1. DOMAIN ValuesOf(b, t) = {j \in Keys : t[j] # Nil}
        /\ \A j \in {i \in Keys : t[i] # Nil} : ValuesOf(b, t)[j] = b[t[j]].value
    BY DEF ValuesOf
  <2>2. {j \in Keys : t[j] # Nil} \ {k} = {j \in Keys : d[j] # Nil}
    BY <1>8
  <2>3. \A j \in {i \in Keys : d[i] # Nil} : c[d[j]].value = ValuesOf(b, t)[j]
    BY <2>1, <1>7, <1>8, <1>12
  <2> HIDE DEF ValuesOf
  <2>4. ValuesOf(c, d) = [j \in {i \in Keys : d[i] # Nil} |-> c[d[j]].value]
    BY DEF ValuesOf
  <2> QED
    BY <2>1, <2>2, <2>3, <2>4 DEF Extended, Shortened
<1> QED
  BY <1>15, <1>16, <1>17 DEF u, w

------------------------------------------------------------------------------
(* Drop, turn by turn.                                                     *)

\* The nodes that the first i turns freed, and what is left after them.
Freed(s, i) == {n \in Nodes : \E j \in 1..Len(s) : j <= i /\ s[j] = n}
Rest(l, s, i) ==
  [head |-> IF i < Len(s) THEN s[i + 1] ELSE Nil,
   tail |-> IF i < Len(s) THEN l.tail ELSE Nil,
   len  |-> IF i < Len(s) THEN l.len - i ELSE 0,
   next |-> [n \in Nodes |-> IF n \in Freed(s, i) THEN Nil ELSE l.next[n]],
   prev |-> [n \in Nodes |-> IF n \in Freed(s, i + 1) THEN Nil ELSE l.prev[n]]]
Kept(b, s, i) == [n \in Nodes |-> IF n \in Freed(s, i) THEN Nil ELSE b[n]]

LEMMA FreedGrows ==
    ASSUME NEW s \in Seq(Nodes), Distinct(s), NEW i \in Nat
    PROVE  /\ Freed(s, 0) = {}
           /\ i < Len(s) => /\ s[i + 1] \notin Freed(s, i)
                            /\ Freed(s, i + 1) = Freed(s, i) \cup {s[i + 1]}
           /\ ~ (i < Len(s)) => Freed(s, i + 1) = Freed(s, i) /\ Freed(s, i) = {n \in Nodes : In(s, n)}
<1>1. Len(s) \in Nat /\ \A j \in 1..Len(s) : j \in Nat /\ j >= 1 /\ j <= Len(s)
  OBVIOUS
<1>2. Freed(s, 0) = {}
  BY <1>1 DEF Freed
<1>3. ASSUME i < Len(s)
      PROVE  s[i + 1] \notin Freed(s, i) /\ Freed(s, i + 1) = Freed(s, i) \cup {s[i + 1]}
  <2>1. i + 1 \in 1..Len(s) /\ s[i + 1] \in Nodes
    BY <1>1, <1>3, SeqFacts
  <2>2. \A j \in 1..Len(s) : j <= i + 1 <=> j <= i \/ j = i + 1
    BY <1>1
  <2>3. s[i + 1] \notin Freed(s, i)
    BY <1>1, <2>1 DEF Freed, Distinct
  <2>4. Freed(s, i + 1) = Freed(s, i) \cup {s[i + 1]}
    BY <2>1, <2>2 DEF Freed
  <2> QED
    BY <2>3, <2>4
<1>4. ASSUME ~ (i < Len(s))
      PROVE  Freed(s, i + 1) = Freed(s, i) /\ Freed(s, i) = {n \in Nodes : In(s, n)}
  <2>1. \A j \in 1..Len(s) : j <= i + 1 /\ j <= i
    BY <1>1, <1>4
  <2> QED
    BY <2>1 DEF Freed, In
<1> QED
  BY <1>2, <1>3, <1>4

LEMMA RestType ==
    ASSUME NEW l \in LinkedList, NEW s \in Seq(Nodes), Linked(l, s), NEW i \in Nat
    PROVE  Rest(l, s, i) \in LinkedList
<1>1. /\ l.next \in [Nodes -> Pointer] /\ l.prev \in [Nodes -> Pointer] /\ Nil \in Pointer
      /\ l.len \in Int /\ l.tail \in Pointer
  BY DEF LinkedList, Pointer
<1>2. /\ [n \in Nodes |-> IF n \in Freed(s, i) THEN Nil ELSE l.next[n]] \in [Nodes -> Pointer]
      /\ [n \in Nodes |-> IF n \in Freed(s, i + 1) THEN Nil ELSE l.prev[n]] \in [Nodes -> Pointer]
  BY <1>1
<1>3. i < Len(s) => s[i + 1] \in Pointer
  <2> HAVE i < Len(s)
  <2>1. i + 1 \in 1..Len(s)
    OBVIOUS
  <2> QED
    BY <2>1, SeqFacts DEF Pointer
<1> QED
  BY <1>1, <1>2, <1>3 DEF Rest, LinkedList

\* One turn frees one node, or none when none is left.
LEMMA TurnFrees ==
    ASSUME NEW b, NEW t, NEW l, NEW s, Cache(b, t, l, s), NEW i \in Nat
    PROVE  FreeOne([list |-> Rest(l, s, i), box |-> Kept(b, s, i)])
             = [list |-> Rest(l, s, i + 1), box |-> Kept(b, s, i + 1)]
<1> DEFINE r == Rest(l, s, i)
           k == Kept(b, s, i)
           m == s[i + 1]
<1>1. /\ s \in Seq(Nodes) /\ Linked(l, s) /\ Distinct(s) /\ Len(s) \in Nat
      /\ l.next \in [Nodes -> Pointer] /\ l.prev \in [Nodes -> Pointer]
      /\ l.len = Len(s)
  BY SeqFacts DEF Cache, Linked, LinkedList
<1>2. CASE ~ (i < Len(s))
  <2>1. ~ (i + 1 < Len(s))
    BY <1>1, <1>2
  <2>2. /\ Freed(s, i + 1) = Freed(s, i) /\ Freed(s, (i + 1) + 1) = Freed(s, i + 1)
    BY <1>1, <1>2, <2>1, FreedGrows
  <2>3. Rest(l, s, i + 1) = r /\ Kept(b, s, i + 1) = k
    BY <1>2, <2>1, <2>2 DEF Rest, Kept
  <2>4. r.head = Nil
    BY <1>2 DEF Rest
  <2> HIDE DEF r, k
  <2> QED
    BY <2>3, <2>4 DEF FreeOne, r, k
<1>3. CASE i < Len(s)
  <2>1. i + 1 \in 1..Len(s) /\ m \in Nodes /\ m # Nil /\ i + 1 \in Nat
    BY <1>1, <1>3, SeqFacts
  <2>2. m \notin Freed(s, i) /\ Freed(s, i + 1) = Freed(s, i) \cup {m}
    BY <1>1, <1>3, FreedGrows
  <2>3. r.head = m /\ r.tail = l.tail /\ r.len = l.len - i
    BY <1>3 DEF Rest
  <2>4. r.next = [n \in Nodes |-> IF n \in Freed(s, i) THEN Nil ELSE l.next[n]]
    BY DEF Rest
  <2>5. r.prev = [n \in Nodes |-> IF n \in Freed(s, i + 1) THEN Nil ELSE l.prev[n]]
    BY DEF Rest
  <2>6. r.next[m] = After(s, i + 1)
    BY <2>1, <2>2, <2>4, <1>1 DEF Linked
  <2> DEFINE x == After(s, i + 1)
             q == Forget(PopFront(r), m)
  <2>7. x = (IF i + 1 < Len(s) THEN s[(i + 1) + 1] ELSE Nil)
    BY <1>1, <1>3 DEF After
  <2>8. i + 1 < Len(s) => x # Nil /\ x \in Nodes
    <3> HAVE i + 1 < Len(s)
    <3>1. (i + 1) + 1 \in 1..Len(s)
      BY <1>1, <2>1
    <3> QED
      BY <2>7, <3>1, <1>1, SeqFacts
  <2>9. Freed(s, (i + 1) + 1) = IF i + 1 < Len(s) THEN Freed(s, i + 1) \cup {x} ELSE Freed(s, i + 1)
    BY <1>1, <2>1, <2>7, FreedGrows
  <2> HIDE DEF x, r, m
  <2>10. PopFront(r) = [head |-> x, tail |-> IF x = Nil THEN Nil ELSE r.tail, len |-> r.len - 1,
                        next |-> r.next, prev |-> [n \in Nodes |-> IF n = x THEN Nil ELSE r.prev[n]]]
    BY <2>3, <2>6 DEF PopFront, x
  <2>11. q = [head |-> x, tail |-> IF x = Nil THEN Nil ELSE r.tail, len |-> r.len - 1,
              next |-> [r.next EXCEPT ![m] = Nil],
              prev |-> [[n \in Nodes |-> IF n = x THEN Nil ELSE r.prev[n]] EXCEPT ![m] = Nil]]
    <3>1. PopFront(r) \in LinkedList
      BY <2>1, <2>3, <1>1, RestType, ListType DEF r, Cache
    <3>2. q = [head |-> PopFront(r).head, tail |-> PopFront(r).tail, len |-> PopFront(r).len,
               next |-> [PopFront(r).next EXCEPT ![m] = Nil],
               prev |-> [PopFront(r).prev EXCEPT ![m] = Nil]]
      BY <2>1, <3>1, ForgetFields
    <3> QED
      BY <2>10, <3>2
  <2> HIDE DEF q
  <2>12. (IF x = Nil THEN Nil ELSE r.tail) = (IF i + 1 < Len(s) THEN l.tail ELSE Nil)
    BY <2>3, <2>7, <2>8
  <2>13. r.len - 1 = (IF i + 1 < Len(s) THEN l.len - (i + 1) ELSE 0)
    BY <2>3, <1>1, <1>3
  <2>14. [r.next EXCEPT ![m] = Nil]
           = [n \in Nodes |-> IF n \in Freed(s, i + 1) THEN Nil ELSE l.next[n]]
    BY <2>1, <2>2, <2>4
  <2>15. [[n \in Nodes |-> IF n = x THEN Nil ELSE r.prev[n]] EXCEPT ![m] = Nil]
           = [n \in Nodes |-> IF n \in Freed(s, (i + 1) + 1) THEN Nil ELSE l.prev[n]]
    <3>1. \A n \in Nodes : n \in Freed(s, (i + 1) + 1) <=> n \in Freed(s, i + 1) \/ n = x
      BY <2>1, <2>7, <2>8, <2>9, NilAssumption
    <3>2. m \in Freed(s, i + 1)
      BY <2>2
    <3> QED
      BY <3>1, <3>2, <2>1, <2>5
  <2>16. q = Rest(l, s, i + 1)
    BY <2>7, <2>11, <2>12, <2>13, <2>14, <2>15 DEF Rest
  <2>17. [k EXCEPT ![m] = Nil] = Kept(b, s, i + 1)
    BY <2>1, <2>2 DEF Kept
  <2> HIDE DEF k
  <2>18. FreeOne([list |-> r, box |-> k]) = [list |-> q, box |-> [k EXCEPT ![m] = Nil]]
    BY <2>1, <2>3 DEF FreeOne, q
  <2> QED
    BY <2>16, <2>17, <2>18 DEF r, k
<1> QED
  BY <1>2, <1>3

LEMMA TurnsFree ==
    ASSUME NEW b, NEW t, NEW l, NEW s, Cache(b, t, l, s), NEW i \in 0..Cardinality(Nodes)
    PROVE  Turns([list |-> l, box |-> b])[i] = [list |-> Rest(l, s, i), box |-> Kept(b, s, i)]
<1> DEFINE N == Cardinality(Nodes)
           c == [list |-> l, box |-> b]
           Turn(g, j) == IF j = 0 THEN c ELSE FreeOne(g[j - 1])
           h == [j \in 0..N |-> [list |-> Rest(l, s, j), box |-> Kept(b, s, j)]]
           f == Turns(c)
<1>0. N \in Nat
  BY NodesAssumption, FS_CardinalityType
<1> HIDE DEF N
<1>1. ASSUME NEW j \in 0..N PROVE h[j] = Turn(h, j)
  <2>1. CASE j = 0
    <3>1. /\ s \in Seq(Nodes) /\ Distinct(s) /\ Len(s) \in Nat /\ Linked(l, s)
          /\ b \in [Nodes -> Bucket \cup {Nil}] /\ l \in LinkedList
      BY SeqFacts DEF Cache, Linked
    <3>2. Freed(s, 0) = {} /\ (0 < Len(s) => Freed(s, 1) = {s[1]})
          /\ (~ (0 < Len(s)) => Freed(s, 1) = {})
      <4>1. /\ Freed(s, 0) = {}
            /\ 0 < Len(s) => Freed(s, 0 + 1) = Freed(s, 0) \cup {s[0 + 1]}
            /\ ~ (0 < Len(s)) => Freed(s, 0 + 1) = Freed(s, 0)
        BY <3>1, 0 \in Nat, FreedGrows, Zenon
      <4>2. 0 + 1 = 1
        OBVIOUS
      <4> QED
        BY <4>1, <4>2
    <3>3. Kept(b, s, 0) = b
      BY <3>1, <3>2 DEF Kept
    <3>4. Rest(l, s, 0) = l
      <4>1. (0 < Len(s) <=> s # <<>>) /\ 0 + 1 = 1
        BY <3>1, SeqFacts
      <4>2. /\ l.head = (IF 0 < Len(s) THEN s[0 + 1] ELSE Nil)
            /\ l.tail = (IF 0 < Len(s) THEN l.tail ELSE Nil)
            /\ l.len = (IF 0 < Len(s) THEN l.len - 0 ELSE 0)
        BY <4>1, <3>1 DEF Linked, First, Final
      <4>3. l.next = [n \in Nodes |-> IF n \in Freed(s, 0) THEN Nil ELSE l.next[n]]
        BY <3>1, <3>2 DEF LinkedList
      <4>4. l.prev = [n \in Nodes |-> IF n \in Freed(s, 0 + 1) THEN Nil ELSE l.prev[n]]
        <5>1. 0 < Len(s) => l.prev[s[1]] = Nil
          BY <3>1 DEF Linked, Before
        <5>2. l.prev = [n \in Nodes |-> l.prev[n]]
          BY <3>1 DEF LinkedList
        <5>3. \A n \in Nodes : l.prev[n] = IF n \in Freed(s, 0 + 1) THEN Nil ELSE l.prev[n]
          BY <5>1, <3>2, <4>1
        <5> QED
          BY <5>2, <5>3
      <4>5. l = [head |-> l.head, tail |-> l.tail, len |-> l.len, next |-> l.next, prev |-> l.prev]
        BY <3>1 DEF LinkedList
      <4> QED
        BY <4>2, <4>3, <4>4, <4>5 DEF Rest
    <3> QED
      BY <2>1, <3>3, <3>4
  <2>2. CASE j # 0
    <3>1. j - 1 \in 0..N /\ j - 1 \in Nat /\ (j - 1) + 1 = j
      BY <2>2, <1>0
    <3>2. FreeOne(h[j - 1]) = [list |-> Rest(l, s, j), box |-> Kept(b, s, j)]
      BY <3>1, TurnFrees
    <3> QED
      BY <2>2, <3>2
  <2> QED
    BY <2>1, <2>2
<1>2. h = [j \in 0..N |-> Turn(h, j)]
  <2> HIDE DEF Turn
  <2>1. h = [j \in 0..N |-> h[j]]
    OBVIOUS
  <2> QED
    BY <1>1, <2>1
<1>3. f = [j \in 0..N |-> Turn(f, j)]
  <2> HIDE DEF h, c
  <2> QED
    BY <1>2 DEF Turns, N
<1>4. \A j \in 0..N : f[j] = Turn(f, j)
  <2> HIDE DEF Turn, f
  <2> QED
    BY <1>3
<1> DEFINE T == {j \in 0..N : f[j] # h[j]}
<1>5. T = {}
  <2> SUFFICES ASSUME T # {} PROVE FALSE
    OBVIOUS
  <2>1. PICK j \in T : \A x \in T : j <= x
    <3>1. T \subseteq Nat
      BY <1>0
    <3> HIDE DEF T
    <3> QED
      BY <3>1, LeastNat
  <2> HIDE DEF f, h, c
  <2>2. j # 0
    BY <1>1, <1>4, <2>1
  <2>3. j - 1 \in 0..N /\ ~ (j <= j - 1)
    BY <1>0, <2>1, <2>2
  <2>4. f[j - 1] = h[j - 1]
    BY <2>1, <2>3
  <2>5. Turn(f, j) = Turn(h, j)
    BY <2>2, <2>4
  <2> QED
    BY <1>1, <1>4, <2>1, <2>5
<1>6. i \in 0..N
  BY DEF N
<1>7. f[i] = h[i]
  <2> HIDE DEF f, h
  <2> QED
    BY <1>5, <1>6
<1> QED
  BY <1>6, <1>7

\* After as many turns as there are addresses nothing is left.
LEMMA DropFrees ==
    ASSUME NEW b, NEW t, NEW l, NEW s, Cache(b, t, l, s)
    PROVE  LET c == Turns([list |-> l, box |-> b])[Cardinality(Nodes)]
               d == [k \in Keys |-> Nil]
           IN  Cache(c.box, d, c.list, <<>>)
<1> DEFINE N == Cardinality(Nodes)
           d == [k \in Keys |-> Nil]
           r == Rest(l, s, N)
           k == Kept(b, s, N)
<1>1. /\ s \in Seq(Nodes) /\ Linked(l, s) /\ Distinct(s) /\ Len(s) \in Nat /\ Boxed(b, s)
      /\ l \in LinkedList /\ b \in [Nodes -> Bucket \cup {Nil}]
  BY SeqFacts DEF Cache, Linked
<1>2. N \in Nat /\ Len(s) <= N
  BY <1>1, ListSize, NodesAssumption, FS_CardinalityType
<1>3. Turns([list |-> l, box |-> b])[N] = [list |-> r, box |-> k]
  BY <1>2, TurnsFree
<1> HIDE DEF N
<1>4. ~ (N < Len(s)) /\ Freed(s, N) = {n \in Nodes : In(s, n)}
  BY <1>1, <1>2, FreedGrows
<1>5. \A n \in Nodes : k[n] = Nil
  BY <1>1, <1>4 DEF Kept, Boxed
<1>6. k \in [Nodes -> Bucket \cup {Nil}]
  BY <1>1 DEF Kept
<1>7. r.head = Nil /\ r.tail = Nil /\ r.len = 0
  BY <1>4 DEF Rest
<1>8. r \in LinkedList
  BY <1>1, <1>2, RestType
<1> HIDE DEF r, k
<1>9. <<>> \in Seq(Nodes) /\ Len(<<>>) = 0
  OBVIOUS
<1>10. Linked(r, <<>>)
  BY <1>7, <1>9 DEF Linked, First, Final, Distinct
<1>11. Boxed(k, <<>>)
  BY <1>5, <1>9 DEF Boxed, In
<1>12. Matches(k, d) /\ d \in [Keys -> Pointer]
  BY <1>5 DEF Matches, Pointer
<1>13. Cache(k, d, r, <<>>)
  <2> HIDE DEF d
  <2> QED
    BY <1>6, <1>8, <1>9, <1>10, <1>11, <1>12 DEF Cache
<1> QED
  BY <1>3, <1>13 DEF N

------------------------------------------------------------------------------
(* The same, seen from outside.                                            *)

LEMMA KeysType ==
    ASSUME NEW b, NEW t, NEW l, NEW s, Cache(b, t, l, s)
    PROVE  /\ KeysOf(b, s) \in Seq(Keys) /\ Len(KeysOf(b, s)) = Len(s)
           /\ s \in Seq(Nodes) /\ Len(s) \in Nat /\ DOMAIN KeysOf(b, s) = 1..Len(s)
           /\ \A i \in 1..Len(s) : KeysOf(b, s)[i] = b[s[i]].key
<1>1. s \in Seq(Nodes) /\ Len(s) \in Nat
  BY DEF Cache
<1>2. KeysOf(b, s) \in [1..Len(s) -> Keys]
  BY KeyAt DEF KeysOf
<1>3. KeysOf(b, s) \in Seq(Keys) /\ Len(KeysOf(b, s)) = Len(s)
  BY <1>1, <1>2
<1> QED
  BY <1>1, <1>2, <1>3 DEF KeysOf

\* A cache is seen as the map in the order of its list.
LEMMA SeenAs ==
    ASSUME NEW s, Cache(box, table, list, s), NEW k \in Keys
    PROVE  /\ (Reference!Has(k) <=> Has(k)) /\ Reference!Found(k) = Found(k)
           /\ ~ Has(k) => Reference!Without(k) = Order
           /\ \A p \in 1..Len(s) : Has(k) /\ s[p] = table[k] =>
                Reference!Without(k) = Cut(KeysOf(box, s), p)
<1>1. Order = KeysOf(box, s) /\ Value = ValuesOf(box, table)
  BY Seen
<1>2. Reference!Has(k) <=> Has(k)
  BY <1>1 DEF Reference!Has, Has, ValuesOf
<1>3. Reference!Found(k) = Found(k)
  BY <1>1, <1>2 DEF Reference!Found, Found, Has, ValuesOf
<1>4. ~ Has(k) => Reference!Without(k) = Order
  BY <1>2 DEF Reference!Without
<1>5. ASSUME NEW p \in 1..Len(s), Has(k), s[p] = table[k]
      PROVE  Reference!Without(k) = Cut(KeysOf(box, s), p)
  <2>1. \A i \in DOMAIN Order : Order[i] = k <=> i = p
    <3>1. box[s[p]].key = k
      BY <1>5, KeyAt DEF Has
    <3> QED
      BY <1>1, <3>1, KeysType, KeysDistinct
  <2>2. p \in DOMAIN Order
    BY <1>1, KeysType
  <2>3. Reference!Place(k) = p
    BY <2>1, <2>2 DEF Reference!Place
  <2> QED
    BY <1>1, <1>2, <1>5, <2>3 DEF Reference!Without, Cut
<1> QED
  BY <1>2, <1>3, <1>4, <1>5

\* A key that is used goes to the end.
LEMMA UseStep ==
    ASSUME CacheInv, NEW k \in Keys, Has(k), list' = MoveBack(list, table[k]), UNCHANGED <<box, table>>
    PROVE  CacheInv' /\ Order' = Reference!Used(k) /\ Value' = Value
<1>1. PICK s \in Seq(Nodes) : Cache(box, table, list, s)
  BY DEF CacheInv
<1>2. PICK p \in 1..Len(s) : s[p] = table[k]
  BY <1>1, KeyAt DEF Has
<1> DEFINE u == Append(Cut(s, p), s[p])
<1>3. /\ Cache(box, table, MoveBack(list, s[p]), u)
      /\ KeysOf(box, u) = Append(Cut(KeysOf(box, s), p), box[s[p]].key)
  BY <1>1, UseMoves
<1> HIDE DEF u
<1>4. Cache(box', table', list', u) /\ u \in Seq(Nodes)
  BY <1>2, <1>3 DEF Cache
<1>5. box[s[p]].key = k
  BY <1>1, <1>2, KeyAt DEF Has
<1>6. Order' = KeysOf(box, u) /\ Value' = ValuesOf(box, table) /\ Value = ValuesOf(box, table)
  BY <1>1, <1>4, Seen, SeenNext
<1>7. Reference!Without(k) = Cut(KeysOf(box, s), p)
  BY <1>1, <1>2, SeenAs
<1> QED
  BY <1>3, <1>4, <1>5, <1>6, <1>7 DEF CacheInv, Reference!Used

\* A value written is only that.
LEMMA WriteStep ==
    ASSUME CacheInv, NEW k \in Keys, Has(k), NEW v \in Values,
           box' = [box EXCEPT ![table[k]].value = v], UNCHANGED <<table, list>>
    PROVE  CacheInv' /\ Order' = Order /\ Value' = Reference!With(k, v)
<1>1. PICK s \in Seq(Nodes) : Cache(box, table, list, s)
  BY DEF CacheInv
<1>2. /\ Cache(box', table, list, s) /\ KeysOf(box', s) = KeysOf(box, s)
      /\ ValuesOf(box', table) = Extended(ValuesOf(box, table), k, v)
  <2>1. Revalued(box', box, table[k], v)
    BY DEF Revalued
  <2> QED
    BY <2>1, <1>1, WriteChanges DEF Has
<1>3. Cache(box', table', list', s)
  BY <1>2
<1>4. /\ Order = KeysOf(box, s) /\ Value = ValuesOf(box, table)
      /\ Order' = KeysOf(box', s) /\ Value' = ValuesOf(box', table)
  BY <1>1, <1>3, Seen, SeenNext
<1> QED
  BY <1>2, <1>3, <1>4 DEF CacheInv, Reference!With, Extended

\* A new value is a use.
LEMMA ReplaceStep ==
    ASSUME CacheInv, NEW k \in Keys, Has(k), NEW v \in Values, Replace(k, v)
    PROVE  CacheInv' /\ Order' = Reference!Used(k) /\ Value' = Reference!With(k, v)
<1>1. PICK s \in Seq(Nodes) : Cache(box, table, list, s)
  BY DEF CacheInv
<1>2. PICK p \in 1..Len(s) : s[p] = table[k]
  BY <1>1, KeyAt DEF Has
<1>3. list' = MoveBack(list, table[k]) /\ box' = [box EXCEPT ![table[k]].value = v] /\ table' = table
  BY DEF Replace
<1>4. /\ Cache(box', table, list, s) /\ KeysOf(box', s) = KeysOf(box, s)
      /\ ValuesOf(box', table) = Extended(ValuesOf(box, table), k, v)
  <2>1. Revalued(box', box, table[k], v)
    BY <1>3 DEF Revalued
  <2> QED
    BY <2>1, <1>1, WriteChanges DEF Has
<1> DEFINE u == Append(Cut(s, p), s[p])
<1>5. /\ Cache(box', table, MoveBack(list, s[p]), u)
      /\ KeysOf(box', u) = Append(Cut(KeysOf(box', s), p), box'[s[p]].key)
  BY <1>4, UseMoves
<1> HIDE DEF u
<1>6. Cache(box', table', list', u) /\ u \in Seq(Nodes)
  BY <1>2, <1>3, <1>5 DEF Cache
<1>7. box'[s[p]].key = k
  BY <1>2, <1>4, KeyAt DEF Has
<1>8. /\ Value = ValuesOf(box, table) /\ Order' = KeysOf(box', u)
      /\ Value' = ValuesOf(box', table)
  BY <1>1, <1>3, <1>6, Seen, SeenNext
<1>9. Reference!Without(k) = Cut(KeysOf(box, s), p)
  BY <1>1, <1>2, SeenAs
<1>10. CacheInv'
  BY <1>6 DEF CacheInv
<1>11. Order' = Reference!Used(k)
  BY <1>4, <1>5, <1>7, <1>8, <1>9 DEF Reference!Used
<1>12. Value' = Reference!With(k, v)
  BY <1>4, <1>8 DEF Reference!With, Extended
<1> QED
  BY <1>10, <1>11, <1>12

\* A new key is the last.
LEMMA AllocateStep ==
    ASSUME CacheInv, NEW k \in Keys, ~ Has(k), NEW v \in Values, Allocate(k, v)
    PROVE  /\ CacheInv' /\ Order' = Append(Order, k) /\ Order' = Reference!Used(k)
           /\ Value' = Reference!With(k, v)
<1>1. PICK s \in Seq(Nodes) : Cache(box, table, list, s)
  BY DEF CacheInv
<1>2. PICK n \in Nodes : /\ box[n] = Nil /\ box' = [box EXCEPT ![n] = [key |-> k, value |-> v]]
                          /\ table' = [table EXCEPT ![k] = n] /\ list' = PushBack(list, n)
  BY DEF Allocate
<1> DEFINE u == Append(s, n)
<1>3. /\ Cache(box', table', list', u) /\ KeysOf(box', u) = Append(KeysOf(box, s), k)
      /\ ValuesOf(box', table') = Extended(ValuesOf(box, table), k, v)
  <2>1. /\ Changed(box', box, n, [key |-> k, value |-> v]) /\ Changed(table', table, k, n)
        /\ list' = PushBack(list, n) /\ box[n] = Nil
    BY <1>2 DEF Changed
  <2> QED
    BY <2>1, <1>1, AllocateAdds DEF Has
<1> HIDE DEF u
<1>4. /\ Order = KeysOf(box, s) /\ Value = ValuesOf(box, table)
      /\ Order' = KeysOf(box', u) /\ Value' = ValuesOf(box', table')
  BY <1>1, <1>3, Seen, SeenNext
<1>5. Reference!Without(k) = Order
  BY <1>1, SeenAs
<1>6. CacheInv'
  BY <1>3 DEF CacheInv, Cache
<1>7. Order' = Append(Order, k) /\ Order' = Reference!Used(k)
  BY <1>3, <1>4, <1>5 DEF Reference!Used
<1>8. Value' = Reference!With(k, v)
  BY <1>3, <1>4 DEF Reference!With, Extended
<1> QED
  BY <1>6, <1>7, <1>8

\* A key that is removed leaves the others in order.
LEMMA ReleaseStep ==
    ASSUME CacheInv, NEW k \in Keys, Has(k), Release(k)
    PROVE  CacheInv' /\ Order' = Reference!Without(k) /\ Value' = Reference!Less(k)
<1>1. PICK s \in Seq(Nodes) : Cache(box, table, list, s)
  BY DEF CacheInv
<1>2. PICK p \in 1..Len(s) : s[p] = table[k]
  BY <1>1, KeyAt DEF Has
<1>3. /\ table' = [table EXCEPT ![k] = Nil] /\ box' = [box EXCEPT ![table[k]] = Nil]
      /\ list' = Forget(Unlink(list, table[k]), table[k])
  BY DEF Release
<1> DEFINE u == Cut(s, p)
<1>4. /\ Cache(box', table', list', u) /\ KeysOf(box', u) = Cut(KeysOf(box, s), p)
      /\ ValuesOf(box', table') = Shortened(ValuesOf(box, table), k)
  <2>1. /\ Changed(box', box, table[k], Nil) /\ Changed(table', table, k, Nil)
        /\ list' = Forget(Unlink(list, table[k]), table[k])
    BY <1>3 DEF Changed
  <2> QED
    BY <2>1, <1>1, <1>2, ReleaseCuts DEF Has
<1> HIDE DEF u
<1>5. Value = ValuesOf(box, table) /\ Order' = KeysOf(box', u) /\ Value' = ValuesOf(box', table')
  BY <1>1, <1>4, Seen, SeenNext
<1>6. Reference!Without(k) = Cut(KeysOf(box, s), p)
  BY <1>1, <1>2, SeenAs
<1>7. CacheInv'
  BY <1>4 DEF CacheInv, Cache
<1>8. Value' = Reference!Less(k)
  BY <1>4, <1>5 DEF Reference!Less, Shortened
<1> QED
  BY <1>4, <1>5, <1>6, <1>7, <1>8

LEMMA SameStep ==
    ASSUME CacheInv, UNCHANGED <<box, table, list>>
    PROVE  CacheInv' /\ Order' = Order /\ Value' = Value
BY DEF CacheInv, Order, Value, Has, Forward

LEMMA TailIsCut ==
    ASSUME NEW S, NEW o \in Seq(S), o # <<>>
    PROVE  Cut(o, 1) = Tail(o)
<1>1. /\ Tail(o) \in Seq(S) /\ Len(Tail(o)) = Len(o) - 1
      /\ \A i \in 1..(Len(o) - 1) : Tail(o)[i] = o[i + 1]
  OBVIOUS
<1>2. Tail(o) = [i \in 1..(Len(o) - 1) |-> Tail(o)[i]]
  <2> DEFINE r == Tail(o)
  <2>1. r \in Seq(S) /\ Len(r) = Len(o) - 1
    BY <1>1
  <2> HIDE DEF r
  <2>2. r = [i \in 1..(Len(o) - 1) |-> r[i]]
    BY <2>1
  <2> QED
    BY <2>2 DEF r
<1>3. \A i \in 1..(Len(o) - 1) : (IF i < 1 THEN o[i] ELSE o[i + 1]) = Tail(o)[i]
  BY <1>1
<1> QED
  BY <1>2, <1>3 DEF Cut

\* The oldest node, and what is left without its key.
LEMMA OldestIs ==
    ASSUME CacheInv
    PROVE  /\ list.head = Nil <=> Order = <<>>
           /\ list.head # Nil => /\ Oldest.key \in Keys /\ Has(Oldest.key)
                                 /\ Head(Order) = Oldest.key /\ Value[Oldest.key] = Oldest.value
                                 /\ Reference!Without(Oldest.key) = Tail(Order)
<1>1. PICK s \in Seq(Nodes) : Cache(box, table, list, s)
  BY DEF CacheInv
<1>2. Order = KeysOf(box, s) /\ Value = ValuesOf(box, table)
  BY <1>1, Seen
<1>3. /\ Order \in Seq(Keys) /\ Len(Order) = Len(s) /\ Len(s) \in Nat
      /\ \A i \in 1..Len(s) : Order[i] = box[s[i]].key
  BY <1>1, <1>2, KeysType
<1>4. list.head = First(s) /\ (s = <<>> <=> Len(s) = 0)
  BY <1>1, SeqFacts DEF Cache, Linked
<1>5. Order = <<>> <=> Len(s) = 0
  BY <1>3
<1>6. CASE s = <<>>
  BY <1>4, <1>5, <1>6 DEF First
<1>7. CASE s # <<>>
  <2>1. 1 \in 1..Len(s)
    BY <1>3, <1>4, <1>7
  <2>2. list.head = s[1] /\ s[1] # Nil /\ s[1] \in Nodes
    BY <2>1, <1>4, <1>7, SeqFacts DEF First
  <2> DEFINE k == Oldest.key
  <2>3. k \in Keys /\ table[k] = s[1] /\ Has(k)
    BY <2>1, <2>2, <1>1, KeyAt DEF Oldest, Has
  <2>4. Head(Order) = k
    BY <2>1, <2>2, <1>3 DEF Oldest
  <2>5. Value[k] = Oldest.value
    BY <2>2, <2>3, <1>2 DEF ValuesOf, Oldest, Has
  <2>6. Reference!Without(k) = Cut(Order, 1)
    BY <2>1, <2>3, <1>1, <1>2, SeenAs
  <2>7. Cut(Order, 1) = Tail(Order)
    <3>1. Order # <<>>
      BY <1>3, <1>5, <2>1
    <3> QED
      BY <3>1, <1>3, TailIsCut
  <2> HIDE DEF k
  <2> QED
    BY <2>2, <2>3, <2>4, <2>5, <2>6, <2>7, <1>4, <1>5, <1>7 DEF k
<1> QED
  BY <1>6, <1>7

\* A cache of nothing is seen as nothing.
LEMMA NothingSeen ==
    ASSUME NEW b, NEW t, \A k \in Keys : t[k] = Nil
    PROVE  KeysOf(b, <<>>) = <<>> /\ ValuesOf(b, t) = [k \in {} |-> NoValue]
<1>1. Len(<<>>) = 0
  OBVIOUS
<1>2. 1..Len(<<>>) = {}
  BY <1>1
<1>3. KeysOf(b, <<>>) = <<>>
  BY <1>2 DEF KeysOf
<1>4. {j \in Keys : t[j] # Nil} = {}
  OBVIOUS
<1>5. ValuesOf(b, t) = [k \in {} |-> NoValue]
  BY <1>4 DEF ValuesOf
<1> QED
  BY <1>3, <1>5

LEMMA InitSeen ==
    ASSUME Init
    PROVE  CacheInv /\ Reference!Init
<1>1. /\ box \in [Nodes -> Bucket \cup {Nil}] /\ table \in [Keys -> Pointer]
      /\ \A n \in Nodes : box[n] = Nil
      /\ \A k \in Keys : table[k] = Nil
  BY DEF Init, Pointer
<1>2. /\ list \in LinkedList /\ list.head = Nil /\ list.tail = Nil /\ list.len = 0
  BY DEF Init, EmptyList, LinkedList, Pointer
<1>3. <<>> \in Seq(Nodes) /\ Len(<<>>) = 0
  OBVIOUS
<1>4. Linked(list, <<>>)
  BY <1>2, <1>3 DEF Linked, First, Final, Distinct
<1>5. Boxed(box, <<>>) /\ Matches(box, table)
  BY <1>1, <1>3 DEF Boxed, In, Matches
<1>6. Cache(box, table, list, <<>>)
  BY <1>1, <1>2, <1>3, <1>4, <1>5 DEF Cache
<1>7. Order = <<>> /\ Value = [k \in {} |-> NoValue]
  BY <1>1, <1>6, Seen, NothingSeen
<1> QED
  BY <1>3, <1>6, <1>7 DEF CacheInv, Reference!Init, Init

LEMMA DropSeen ==
    ASSUME CacheInv, Drop
    PROVE  CacheInv' /\ Reference!Drop
<1>1. PICK s \in Seq(Nodes) : Cache(box, table, list, s)
  BY DEF CacheInv
<1> DEFINE c == Turns([list |-> list, box |-> box])[Cardinality(Nodes)]
           d == [k \in Keys |-> Nil]
<1>2. Cache(c.box, d, c.list, <<>>)
  BY <1>1, DropFrees
<1>3. box' = c.box /\ list' = c.list /\ table' = d /\ ret' = NoValue
  BY DEF Drop
<1>4. \A k \in Keys : d[k] = Nil
  OBVIOUS
<1> HIDE DEF c, d
<1>5. Cache(box', table', list', <<>>)
  BY <1>2, <1>3
<1>6. Order' = <<>> /\ Value' = [k \in {} |-> NoValue]
  <2>1. Order' = KeysOf(box', <<>>) /\ Value' = ValuesOf(box', table')
    BY <1>5, SeenNext
  <2>2. \A k \in Keys : table'[k] = Nil
    BY <1>3, <1>4
  <2> QED
    BY <2>1, <2>2, NothingSeen
<1> QED
  BY <1>3, <1>5, <1>6 DEF CacheInv, Cache, Reference!Drop

LEMMA FoundSeen ==
    ASSUME CacheInv, NEW k \in Keys
    PROVE  (Reference!Has(k) <=> Has(k)) /\ Reference!Found(k) = Found(k)
BY SeenAs DEF CacheInv

\* What a hit finds is in the map under its key.
LEMMA HitSeen ==
    ASSUME NEW k \in Keys, Has(k)
    PROVE  Value[k] = Found(k)
BY DEF Value, Found, Has

LEMMA KeyStep ==
    ASSUME CacheInv, NEW k \in Keys, Get(k) \/ GetOnly(k) \/ Remove(k)
    PROVE  CacheInv' /\ (Reference!Get(k) \/ Reference!GetOnly(k) \/ Reference!Remove(k))
<1>1. CASE Get(k)
  <2>1. CASE Has(k)
    BY <1>1, <2>1, UseStep, FoundSeen DEF Get, Reference!Get
  <2>2. CASE ~ Has(k)
    BY <1>1, <2>2, SameStep, FoundSeen DEF Get, Reference!Get
  <2> QED
    BY <2>1, <2>2
<1>2. CASE GetOnly(k)
  BY <1>2, SameStep, FoundSeen DEF GetOnly, Reference!GetOnly
<1>3. CASE Remove(k)
  <2>1. CASE Has(k)
    BY <1>3, <2>1, ReleaseStep, FoundSeen DEF Remove, Reference!Remove
  <2>2. CASE ~ Has(k)
    <3>1. Reference!Without(k) = Order /\ Reference!Less(k) = Value
      <4>1. ~ Reference!Has(k)
        BY <2>2, FoundSeen
      <4>2. Value = [j \in DOMAIN Value |-> Value[j]]
        BY DEF Value
      <4>3. DOMAIN Value \ {k} = DOMAIN Value
        BY <4>1 DEF Reference!Has
      <4>4. Reference!Less(k) = Value
        BY <4>2, <4>3 DEF Reference!Less
      <4> QED
        BY <4>1, <4>4 DEF Reference!Without
    <3>2. UNCHANGED <<box, table, list>> /\ ret' = Found(k)
      BY <1>3, <2>2 DEF Remove
    <3> QED
      BY <3>1, <3>2, SameStep, FoundSeen DEF Reference!Remove
  <2> QED
    BY <2>1, <2>2
<1> QED
  BY <1>1, <1>2, <1>3

LEMMA ValueStep ==
    ASSUME CacheInv, NEW k \in Keys, NEW v \in Values,
           GetMut(k, v) \/ Insert(k, v) \/ Modify(k, v) \/ OrInsert(k, v)
    PROVE  /\ CacheInv'
           /\ \/ Reference!GetMut(k, v) \/ Reference!Insert(k, v)
              \/ Reference!Modify(k, v) \/ Reference!OrInsert(k, v)
<1>1. CASE GetMut(k, v)
  <2>1. CASE Has(k)
    BY <1>1, <2>1, WriteStep, FoundSeen DEF GetMut, Reference!GetMut
  <2>2. CASE ~ Has(k)
    BY <1>1, <2>2, SameStep, FoundSeen DEF GetMut, Reference!GetMut
  <2> QED
    BY <2>1, <2>2
<1>2. CASE Insert(k, v)
  <2>1. CASE Has(k)
    BY <1>2, <2>1, ReplaceStep, FoundSeen DEF Insert, Reference!Insert
  <2>2. CASE ~ Has(k)
    BY <1>2, <2>2, AllocateStep, FoundSeen DEF Insert, Reference!Insert
  <2> QED
    BY <2>1, <2>2
<1>3. CASE Modify(k, v)
  <2>1. CASE Has(k)
    BY <1>3, <2>1, ReplaceStep DEF Modify, Reference!Modify
  <2>2. CASE ~ Has(k)
    BY <1>3, <2>2, AllocateStep DEF Modify, Reference!Modify
  <2> QED
    BY <2>1, <2>2
<1>4. CASE OrInsert(k, v)
  <2>1. CASE Has(k)
    BY <1>4, <2>1, SameStep, FoundSeen, HitSeen DEF OrInsert, Reference!OrInsert
  <2>2. CASE ~ Has(k)
    BY <1>4, <2>2, AllocateStep, FoundSeen DEF OrInsert, Reference!OrInsert
  <2> QED
    BY <2>1, <2>2
<1> QED
  BY <1>1, <1>2, <1>3, <1>4

LEMMA OldStep ==
    ASSUME CacheInv, PopOld \/ PeekOld
    PROVE  CacheInv' /\ (Reference!PopOld \/ Reference!PeekOld)
<1>1. CASE PopOld
  <2>1. CASE list.head = Nil
    BY <1>1, <2>1, SameStep, OldestIs DEF PopOld, Reference!PopOld
  <2>2. CASE list.head # Nil
    <3>1. /\ Oldest.key \in Keys /\ Has(Oldest.key) /\ Order # <<>>
          /\ Head(Order) = Oldest.key /\ Value[Oldest.key] = Oldest.value
          /\ Reference!Without(Oldest.key) = Tail(Order)
      BY <2>2, OldestIs
    <3>2. ret' = <<Oldest.key, Oldest.value>> /\ Release(Oldest.key)
      BY <1>1, <2>2 DEF PopOld
    <3>3. /\ CacheInv' /\ Order' = Reference!Without(Oldest.key)
          /\ Value' = Reference!Less(Oldest.key)
      BY <3>1, <3>2, ReleaseStep
    <3> QED
      BY <3>1, <3>2, <3>3 DEF Reference!PopOld
  <2> QED
    BY <2>1, <2>2
<1>2. CASE PeekOld
  BY <1>2, SameStep, OldestIs DEF PeekOld, Reference!PeekOld
<1> QED
  BY <1>1, <1>2

\* Every step is a step of the map, or changes nothing that is seen.
LEMMA NextSeen ==
    ASSUME CacheInv, [Next]_vars
    PROVE  CacheInv' /\ [Reference!Next]_(Reference!vars)
<1>1. ASSUME NEW k \in Keys, Get(k) \/ GetOnly(k) \/ Remove(k)
      PROVE  CacheInv' /\ Reference!Next
  BY <1>1, KeyStep DEF Reference!Next
<1>2. ASSUME NEW k \in Keys, NEW v \in Values,
             GetMut(k, v) \/ Insert(k, v) \/ Modify(k, v) \/ OrInsert(k, v)
      PROVE  CacheInv' /\ Reference!Next
  BY <1>2, ValueStep DEF Reference!Next
<1>3. ASSUME PopOld \/ PeekOld PROVE CacheInv' /\ Reference!Next
  BY <1>3, OldStep DEF Reference!Next
<1>4. ASSUME Drop PROVE CacheInv' /\ Reference!Next
  BY <1>4, DropSeen DEF Reference!Next
<1>5. ASSUME UNCHANGED vars PROVE CacheInv' /\ UNCHANGED Reference!vars
  BY <1>5, SameStep DEF vars, Reference!vars
<1> QED
  BY <1>1, <1>2, <1>3, <1>4, <1>5 DEF Next

------------------------------------------------------------------------------
(* The theorems.                                                           *)

\* There is always one sequence of nodes that are all the boxes allocated, linked in that
\* order from both ends, with keys that lead to them in the hash table.
THEOREM CacheInvariant == Spec => []CacheInv
<1>1. Init => CacheInv
  BY InitSeen
<1>2. CacheInv /\ [Next]_vars => CacheInv'
  BY NextSeen
<1> QED
  BY <1>1, <1>2, PTL DEF Spec

\* No node leaks, none is freed while it can be reached, and the list reads the same from
\* either end, after any sequence of calls.
THEOREM AlwaysWellLinked == Spec => []WellLinked
BY CacheInvariant, InvariantsHold, PTL

\* The hash table has no dangling pointer, and each box is found under its own key.
THEOREM AlwaysTableMatches == Spec => []TableMatches
BY CacheInvariant, InvariantsHold, PTL

\* What the calls of LRUCache return is what a map in least-recently-used order returns.
THEOREM CacheImplementsLRU == Spec => Implements
<1>1. Init => Reference!Init
  BY InitSeen
<1>2. CacheInv /\ [Next]_vars => [Reference!Next]_(Reference!vars)
  BY NextSeen
<1> QED
  BY <1>1, <1>2, CacheInvariant, PTL DEF Spec, Implements, Reference!Spec
==============================================================================
