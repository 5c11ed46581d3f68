------------------------------ MODULE TreeProofs ------------------------------
(***************************************************************************)
(* Proofs about Tree for every value of its constants: any number of       *)
(* cursors, any keys and any node size.  A key becomes the first of its    *)
(* leaf only at the left edge of the tree, where the parent has a          *)
(* separator to its right: so no insertion indexes past the separators.    *)
(***************************************************************************)
EXTENDS Tree, FiniteSetTheorems, SequenceTheorems, WellFoundedInduction, TLAPS

------------------------------------------------------------------------------
(* The invariant.  `low` is the separator a page was made with, which never   *)
(* changes, as long as no node is mangled; `edge` is the set of pages on the  *)
(* way from a root, past or present, to the leftmost leaf, which is page 1.   *)
(* Both only grow.  Whatever cursors overwrite of each other, any copy of a   *)
(* page, in the store, on a path or under change, fits them.                  *)

LeafNodes == [type : {"leaf"}, keys : Seq([key : Int, page : Nat]), prev : Nat, next : Nat]
InternalNodes == [type : {"internal"}, keys : Seq(Int), children : Seq(Nat)]

\* The children after the first are off the edge, each with the separator before it.
ChildrenFit(low, edge, last, n) ==
    /\ Len(n.children) = Len(n.keys) + 1
    /\ \A j \in 1..Len(n.children) : n.children[j] \in 1..last - 1
    /\ \A j \in 1..Len(n.keys) : /\ n.children[j + 1] \notin edge
                                 /\ low[n.children[j + 1]] = n.keys[j]

\* A node with separator b, or one on the edge.
LeafFits(last, n, b, left_) ==
    /\ n \in LeafNodes
    /\ \A j \in 1..Len(n.keys) : n.keys[j].page \in 1..last - 1
    /\ left_ \/ (Len(n.keys) >= 1 /\ n.keys[1].key = b)
InternalFits(low, edge, last, n, b, left_) ==
    /\ n \in InternalNodes /\ ChildrenFit(low, edge, last, n)
    /\ IF left_ THEN Len(n.keys) >= 1 /\ n.children[1] \in edge
                ELSE n.children[1] \notin edge /\ low[n.children[1]] = b
Fits(low, edge, last, n, b, left_) ==
    LeafFits(last, n, b, left_) \/ InternalFits(low, edge, last, n, b, left_)
RightFits(low, edge, last, n, sep) == Fits(low, edge, last, n, sep, FALSE)
FitsAt(low, edge, last, n, i) ==
    /\ Fits(low, edge, last, n, low[i], i \in edge)
    /\ n.type = "leaf" /\ i \in edge => i = 1

\* A node that a new minimum has mangled: its write is the end of the invariant.
Doomed(n) == n \in InternalNodes /\ Len(n.keys) >= 2 /\ n.keys[1] > n.keys[2]

PathFits(low, edge, last, path) ==
    /\ path \in Seq([page : Nat, node : InternalNodes, slot : Nat])
    /\ \A k \in 1..Len(path) :
          /\ path[k].page \in 1..last - 1
          /\ FitsAt(low, edge, last, path[k].node, path[k].page)
          /\ path[k].slot \in 1..Len(path[k].node.keys) + 1

\* The last step of the descent was to the first child, with a separator after it.
FirstChild(path) ==
    path # <<>> => path[Len(path)].slot = 1 /\ Len(path[Len(path)].node.keys) >= 1

NewPage(low, edge, last, o) ==
    o.new \in (1..last - 1) \ edge /\ o.sep \in Int /\ low[o.new] = o.sep

Local(low, edge, last, o) ==
    /\ o.key \in Int
    /\ o.kind = "insert" => o.res # "panic"
    /\ o.pc = "header" => o.path = <<>>
    /\ o.pc \in {"down", "place", "split", "write"} =>
          o.at \in 1..last - 1 /\ o.root \in edge /\ PathFits(low, edge, last, o.path)
    /\ o.pc = "down" => /\ o.at \in edge \/ low[o.at] <= o.key
                        /\ o.at = 1 => FirstChild(o.path)
    /\ o.pc = "value" => o.at \in 1..last - 1
    /\ o.pc = "place" => /\ o.node \in LeafNodes /\ FitsAt(low, edge, last, o.node, o.at)
                         /\ Ordered(KeysOf(o.node)) /\ ~Holds(o.node, o.key)
                         /\ Below(o.node, o.key) = 0 => o.at = 1
                         /\ o.at = 1 => FirstChild(o.path)
    /\ o.pc \in {"split", "write"} => /\ FitsAt(low, edge, last, o.node, o.at) \/ Doomed(o.node)
                                      /\ o.first => FirstChild(o.path)
    /\ o.pc = "split" => /\ o.sep \in Int
                         /\ o.first => o.key < o.sep
                         /\ RightFits(low, edge, last, o.right, o.sep)
    /\ o.pc = "write" /\ o.new # 0 => /\ NewPage(low, edge, last, o)
                                      /\ o.first => o.key < o.sep
    /\ o.pc = "root" => o.root \in edge /\ NewPage(low, edge, last, o)
    /\ o.pc = "set_root" => o.new \in edge

PagesFit(low, edge) ==
    /\ low \in [Indexes -> Int] /\ edge \subseteq 1..last_index - 1 /\ 1 \in edge
    /\ DecodeRoot(pages[HEADER_INDEX]) \in edge
    /\ \A i \in 1..last_index - 1 : pages[i].type \in {"leaf", "internal"} =>
          FitsAt(low, edge, last_index, pages[i], i) /\ Ordered(KeysOf(pages[i]))

Shaped(low, edge) ==
    PagesFit(low, edge) /\ \A c \in Clients : Local(low, edge, last_index, cl[c])

\* On an empty file no insertion finds a root.
Rootless(o) ==
    /\ o.pc \in {"idle", "header", "down", "done"}
    /\ o.pc = "down" => o.at = 0
    /\ o.kind = "insert" => o.res # "panic"
Blank ==
    /\ pages = [i \in Indexes |-> Zero]
    /\ \A c \in Clients : Rootless(cl[c])

Framed == DOMAIN pages = Indexes /\ DOMAIN cl = Clients /\ last_index \in 0..MaxPages

TreeInv == ~mangled => Framed /\ (Blank \/ \E low, edge : Shaped(low, edge))

------------------------------------------------------------------------------
(* Sequences and searches.                                                 *)

\* What inserting an element in a sequence leaves before and after it.
Insertion(X, x, s, i, e) ==
    /\ x \in Seq(X) /\ Len(x) = Len(s) + 1
    /\ \A j \in 1..i - 1 : x[j] = s[j]
    /\ x[i] = e
    /\ \A j \in i..Len(s) : x[j + 1] = s[j]

LEMMA Inserted ==
    ASSUME NEW X, NEW s \in Seq(X), NEW e \in X, NEW i \in 1..Len(s) + 1
    PROVE  Insertion(X, InsertedAt(s, i, e), s, i, e)
<1>1. /\ SubSeq(s, 1, i - 1) \in Seq(X) /\ Len(SubSeq(s, 1, i - 1)) = i - 1
      /\ \A j \in 1..i - 1 : SubSeq(s, 1, i - 1)[j] = s[j]
  OBVIOUS
<1>2. /\ SubSeq(s, i, Len(s)) \in Seq(X) /\ Len(SubSeq(s, i, Len(s))) = Len(s) - i + 1
      /\ \A j \in 1..Len(s) - i + 1 : SubSeq(s, i, Len(s))[j] = s[i + j - 1]
  OBVIOUS
<1>3. <<e>> \in Seq(X) /\ Len(<<e>>) = 1 /\ <<e>>[1] = e
  OBVIOUS
<1> DEFINE a == SubSeq(s, 1, i - 1)
           b == SubSeq(s, i, Len(s))
<1> HIDE DEF a, b
<1>4. /\ a \in Seq(X) /\ Len(a) = i - 1 /\ \A j \in 1..i - 1 : a[j] = s[j]
      /\ b \in Seq(X) /\ Len(b) = Len(s) - i + 1 /\ \A j \in 1..Len(s) - i + 1 : b[j] = s[i + j - 1]
  BY <1>1, <1>2 DEF a, b
<1>5. InsertedAt(s, i, e) = (a \o <<e>>) \o b
  BY DEF InsertedAt, a, b
<1>6. /\ a \o <<e>> \in Seq(X) /\ Len(a \o <<e>>) = i
      /\ \A j \in 1..i : (a \o <<e>>)[j] = IF j < i THEN s[j] ELSE e
  BY <1>3, <1>4
<1> DEFINE d == a \o <<e>>
<1> HIDE DEF d
<1>7. /\ d \in Seq(X) /\ Len(d) = i /\ \A j \in 1..i : d[j] = IF j < i THEN s[j] ELSE e
      /\ InsertedAt(s, i, e) = d \o b
  BY <1>5, <1>6 DEF d
<1>0. Len(s) \in Nat /\ i \in Nat
  OBVIOUS
<1>8. d \o b \in Seq(X) /\ Len(d \o b) = Len(s) + 1
  <2>1. d \o b \in Seq(X) /\ Len(d \o b) = Len(d) + Len(b)
    BY <1>4, <1>7, ConcatProperties
  <2> QED
    BY <2>1, <1>0, <1>4, <1>7
<1>9. \A j \in 1..i : (d \o b)[j] = d[j]
  BY <1>0, <1>4, <1>7
<1>10. ASSUME NEW j \in i..Len(s) PROVE (d \o b)[j + 1] = s[j]
  <2>1. j + 1 \in 1..Len(d) + Len(b) /\ ~(j + 1 <= Len(d)) /\ (j + 1) - Len(d) = j + 1 - i
    BY <1>0, <1>4, <1>7
  <2>2. (d \o b)[j + 1] = b[(j + 1) - Len(d)]
    BY <2>1, <1>4, <1>7, ConcatProperties
  <2>3. j + 1 - i \in 1..Len(s) - i + 1 /\ i + (j + 1 - i) - 1 = j
    BY <1>0
  <2> QED
    BY <2>1, <2>2, <2>3, <1>4
<1>11. Insertion(X, d \o b, s, i, e)
  <2>1. \A j \in 1..i - 1 : (d \o b)[j] = s[j]
    BY <1>0, <1>7, <1>9
  <2>2. (d \o b)[i] = e
    BY <1>0, <1>7, <1>9
  <2> QED
    BY <2>1, <2>2, <1>8, <1>10 DEF Insertion
<1> QED
  BY <1>7, <1>11

\* The first i elements of a sequence, and those from the i-th on.
LEMMA Cut ==
    ASSUME NEW X, NEW s \in Seq(X), NEW i \in 0..Len(s)
    PROVE  /\ UpTo(s, i) \in Seq(X) /\ Len(UpTo(s, i)) = i
           /\ \A j \in 1..i : UpTo(s, i)[j] = s[j]
BY DEF UpTo

LEMMA CutRest ==
    ASSUME NEW X, NEW s \in Seq(X), NEW i \in 1..Len(s) + 1
    PROVE  /\ From(s, i) \in Seq(X) /\ Len(From(s, i)) = Len(s) - i + 1
           /\ \A j \in 1..Len(s) - i + 1 : From(s, i)[j] = s[i + j - 1]
BY DEF From

\* A set of naturals with an element has a least one.
LEMMA LeastNat ==
    ASSUME NEW T, T \subseteq Nat, T # {}
    PROVE  \E x \in T : \A y \in T : x <= y
<1>1. PICK x \in T : \A y \in T : ~ (<<y, x>> \in OpToRel(<, Nat))
  BY NatLessThanWellFounded, WFMin
<1>2. \A y \in T : ~ (y < x)
  BY <1>1 DEF OpToRel
<1> QED
  BY <1>2

\* A leaf or an internal node, and the keys it has.
AnyNode(n) == n \in LeafNodes \/ n \in InternalNodes

LEMMA KeysTyped ==
    ASSUME NEW n, AnyNode(n)
    PROVE  /\ DOMAIN n.keys = 1..Len(n.keys) /\ Len(n.keys) \in Nat
           /\ \A i \in 1..Len(n.keys) : KeyOf(n, i) \in Int
           /\ DOMAIN KeysOf(n) = 1..Len(n.keys)
           /\ \A i \in 1..Len(n.keys) : KeysOf(n)[i] = KeyOf(n, i)
<1>1. CASE n \in LeafNodes
  <2>1. n.keys \in Seq([key : Int, page : Nat]) /\ n.type = "leaf"
    BY <1>1 DEF LeafNodes
  <2>2. DOMAIN n.keys = 1..Len(n.keys) /\ Len(n.keys) \in Nat
    BY <2>1
  <2>3. \A i \in 1..Len(n.keys) : n.keys[i] \in [key : Int, page : Nat]
    BY <2>1, ElementOfSeq
  <2>4. \A i \in 1..Len(n.keys) : KeyOf(n, i) \in Int
    BY <2>1, <2>3 DEF KeyOf
  <2> QED
    BY <2>2, <2>4 DEF KeysOf
<1>2. CASE n \in InternalNodes
  <2>1. n.keys \in Seq(Int) /\ n.type = "internal"
    BY <1>2 DEF InternalNodes
  <2>2. DOMAIN n.keys = 1..Len(n.keys) /\ Len(n.keys) \in Nat
    BY <2>1
  <2>3. \A i \in 1..Len(n.keys) : n.keys[i] \in Int
    BY <2>1, <2>2
  <2>4. \A i \in 1..Len(n.keys) : KeyOf(n, i) \in Int
    BY <2>1, <2>3 DEF KeyOf
  <2> QED
    BY <2>2, <2>4 DEF KeysOf
<1> QED
  BY <1>1, <1>2 DEF AnyNode

\* In keys in order the search cuts between those below k and the others.
LEMMA BelowCuts ==
    ASSUME NEW n, AnyNode(n), Ordered(KeysOf(n)), NEW k \in Int
    PROVE  /\ Below(n, k) \in 0..Len(n.keys)
           /\ \A i \in 1..Len(n.keys) : KeyOf(n, i) < k <=> i <= Below(n, k)
<1> DEFINE L == Len(n.keys)
           D == {i \in DOMAIN n.keys : KeyOf(n, i) < k}
           U == (1..L + 1) \ D
<1>1. /\ L \in Nat /\ DOMAIN n.keys = 1..L
      /\ \A i \in 1..L : KeyOf(n, i) \in Int
      /\ \A i, j \in 1..L : i < j => KeyOf(n, i) < KeyOf(n, j)
  BY KeysTyped DEF Ordered
<1> HIDE DEF L
<1>2. D \subseteq 1..L /\ \A i \in 1..L : i \in D <=> KeyOf(n, i) < k
  BY <1>1
<1>3. U \subseteq Nat /\ L + 1 \in U
  BY <1>1, <1>2
<1>4. PICK m \in U : \A i \in U : m <= i
  BY <1>3, LeastNat
<1>5. m \in 1..L + 1 /\ m \notin D
  BY <1>4
<1>6. \A i \in 1..L : i \in D <=> i < m
  <2>1. ASSUME NEW i \in 1..L, i < m PROVE i \in D
    BY <2>1, <1>1, <1>4, <1>5
  <2>2. ASSUME NEW i \in 1..L, i \in D PROVE i < m
    <3>1. SUFFICES ASSUME m <= i PROVE FALSE
      BY <1>1, <1>5
    <3>2. m \in 1..L /\ m # i
      BY <3>1, <2>2, <1>1, <1>5
    <3>3. KeyOf(n, m) < KeyOf(n, i)
      BY <3>1, <3>2, <1>1
    <3>4. KeyOf(n, m) < k
      BY <3>2, <3>3, <2>2, <1>1, <1>2
    <3> QED
      BY <3>2, <3>4, <1>2, <1>5
  <2> QED
    BY <2>1, <2>2
<1>7. D = 1..m - 1
  BY <1>1, <1>2, <1>5, <1>6
<1>8. Cardinality(1..m - 1) = m - 1
  BY <1>1, <1>5, FS_Interval
<1>9. Below(n, k) = m - 1
  BY <1>7, <1>8 DEF Below
<1> QED
  BY <1>1, <1>2, <1>5, <1>6, <1>9 DEF L

\* The child that a search leads to, by the separator to its left.
LEMMA ChildCuts ==
    ASSUME NEW n \in InternalNodes, Ordered(KeysOf(n)), NEW k \in Int
    PROVE  \/ ChildPos(n, k) = 1 /\ Below(n, k) = 0
           \/ \E j \in 1..Len(n.keys) : ChildPos(n, k) = j + 1 /\ n.keys[j] <= k
<1>1. /\ AnyNode(n) /\ n.type = "internal"
      /\ \A i \in 1..Len(n.keys) : KeyOf(n, i) = n.keys[i]
  BY DEF AnyNode, InternalNodes, KeyOf
<1> DEFINE L == Len(n.keys)
           m == Below(n, k)
<1>2. /\ L \in Nat /\ DOMAIN n.keys = 1..L
      /\ \A i \in 1..L : n.keys[i] \in Int
      /\ \A i, j \in 1..L : i < j => n.keys[i] < n.keys[j]
  BY <1>1, KeysTyped DEF Ordered
<1>3. m \in 0..L /\ \A i \in 1..L : n.keys[i] < k <=> i <= m
  BY <1>1, BelowCuts
<1>4. CASE Holds(n, k)
  <2>1. PICK i \in 1..L : n.keys[i] = k
    BY <1>1, <1>2, <1>4 DEF Holds
  <2>2. i > m
    BY <2>1, <1>2, <1>3
  <2>3. i = m + 1
    <3>1. SUFFICES ASSUME i > m + 1 PROVE FALSE
      BY <2>2, <1>2, <1>3
    <3>2. m + 1 \in 1..L
      BY <3>1, <2>1, <1>2, <1>3
    <3>3. n.keys[m + 1] < n.keys[i]
      BY <3>1, <3>2, <2>1, <1>2
    <3> QED
      BY <3>2, <3>3, <2>1, <1>2, <1>3
  <2>4. ChildPos(n, k) = (m + 1) + 1
    BY <1>4, <1>3 DEF ChildPos
  <2> QED
    BY <2>1, <2>3, <2>4, <1>2
<1>5. CASE ~Holds(n, k)
  <2>1. ChildPos(n, k) = m + 1
    BY <1>5 DEF ChildPos
  <2>2. CASE m = 0
    BY <2>1, <2>2
  <2>3. CASE m # 0
    <3>1. m \in 1..L
      BY <2>3, <1>2, <1>3
    <3>2. n.keys[m] < k
      BY <3>1, <1>3
    <3>3. n.keys[m] <= k
      BY <3>1, <3>2, <1>2
    <3> QED
      BY <2>1, <3>1, <3>3
  <2> QED
    BY <2>2, <2>3
<1> QED
  BY <1>4, <1>5

------------------------------------------------------------------------------
(* What fits keeps fitting as pages are handed out.                        *)

Grown(low, edge, last, low2, edge2, last2) ==
    /\ last \in Nat /\ last2 \in Nat /\ last <= last2
    /\ edge \subseteq edge2
    /\ \A i \in 1..last - 1 : low2[i] = low[i] /\ (i \in edge2 => i \in edge)

LEMMA FitsGrown ==
    ASSUME NEW low, NEW edge, NEW last, NEW low2, NEW edge2, NEW last2,
           Grown(low, edge, last, low2, edge2, last2),
           NEW n, NEW b, NEW left_, Fits(low, edge, last, n, b, left_)
    PROVE  Fits(low2, edge2, last2, n, b, left_)
<1>1. \A x : x \in 1..last - 1 => x \in 1..last2 - 1
  BY DEF Grown
<1>2. CASE LeafFits(last, n, b, left_)
  BY <1>1, <1>2 DEF Fits, LeafFits
<1>3. CASE InternalFits(low, edge, last, n, b, left_)
  <2>1. n \in InternalNodes /\ ChildrenFit(low, edge, last, n)
    BY <1>3 DEF InternalFits
  <2>2. Len(n.keys) \in Nat /\ Len(n.children) = Len(n.keys) + 1
    BY <2>1 DEF InternalNodes, ChildrenFit
  <2>3. \A j \in 1..Len(n.children) : /\ n.children[j] \in 1..last - 1
                                      /\ low2[n.children[j]] = low[n.children[j]]
                                      /\ n.children[j] \in edge2 <=> n.children[j] \in edge
    BY <2>1 DEF Grown, ChildrenFit
  <2>4. ChildrenFit(low2, edge2, last2, n)
    <3>1. \A j \in 1..Len(n.keys) : j + 1 \in 1..Len(n.children)
      BY <2>2
    <3> QED
      BY <1>1, <2>1, <2>2, <2>3, <3>1 DEF ChildrenFit
  <2>5. 1 \in 1..Len(n.children)
    BY <2>2
  <2> QED
    BY <1>3, <2>1, <2>3, <2>4, <2>5 DEF Fits, InternalFits
<1> QED
  BY <1>2, <1>3 DEF Fits

LEMMA RightGrown ==
    ASSUME NEW low, NEW edge, NEW last, NEW low2, NEW edge2, NEW last2,
           Grown(low, edge, last, low2, edge2, last2),
           NEW n, NEW sep, RightFits(low, edge, last, n, sep)
    PROVE  RightFits(low2, edge2, last2, n, sep)
BY FitsGrown DEF RightFits

LEMMA FitsAtGrown ==
    ASSUME NEW low, NEW edge, NEW last, NEW low2, NEW edge2, NEW last2,
           Grown(low, edge, last, low2, edge2, last2),
           NEW n, NEW i \in 1..last - 1, FitsAt(low, edge, last, n, i)
    PROVE  FitsAt(low2, edge2, last2, n, i)
<1>1. low2[i] = low[i] /\ (i \in edge2 <=> i \in edge)
  BY DEF Grown
<1>2. Fits(low2, edge2, last2, n, low[i], i \in edge)
  BY FitsGrown DEF FitsAt
<1>3. CASE i \in edge
  BY <1>1, <1>2, <1>3 DEF FitsAt
<1>4. CASE i \notin edge
  BY <1>1, <1>2, <1>4 DEF FitsAt
<1> QED
  BY <1>3, <1>4

LEMMA PathGrown ==
    ASSUME NEW low, NEW edge, NEW last, NEW low2, NEW edge2, NEW last2,
           Grown(low, edge, last, low2, edge2, last2),
           NEW path, PathFits(low, edge, last, path)
    PROVE  PathFits(low2, edge2, last2, path)
<1>1. \A x : x \in 1..last - 1 => x \in 1..last2 - 1
  BY DEF Grown
<1>2. ASSUME NEW k \in 1..Len(path)
      PROVE  /\ path[k].page \in 1..last2 - 1
             /\ FitsAt(low2, edge2, last2, path[k].node, path[k].page)
             /\ path[k].slot \in 1..Len(path[k].node.keys) + 1
  <2>1. /\ path[k].page \in 1..last - 1
        /\ FitsAt(low, edge, last, path[k].node, path[k].page)
        /\ path[k].slot \in 1..Len(path[k].node.keys) + 1
    BY DEF PathFits
  <2> QED
    BY <1>1, <2>1, FitsAtGrown
<1> QED
  BY <1>2 DEF PathFits

\* An operation that takes no step while pages are handed out.
LEMMA LocalGrown ==
    ASSUME NEW low, NEW edge, NEW last, NEW low2, NEW edge2, NEW last2,
           Grown(low, edge, last, low2, edge2, last2), edge \subseteq 1..last - 1,
           NEW o, Local(low, edge, last, o)
    PROVE  Local(low2, edge2, last2, o)
<1>1. /\ \A x : x \in 1..last - 1 => x \in 1..last2 - 1 /\ low2[x] = low[x]
      /\ \A x : x \in edge => x \in edge2
      /\ \A x : x \in (1..last - 1) \ edge => x \in (1..last2 - 1) \ edge2
  <2>1. \A x : x \in 1..last - 1 => x \in 1..last2 - 1
    BY DEF Grown
  <2>2. \A x \in 1..last - 1 : low2[x] = low[x] /\ (x \in edge2 => x \in edge)
    BY DEF Grown
  <2>3. edge \subseteq edge2
    BY DEF Grown
  <2> QED
    BY <2>1, <2>2, <2>3
<1>2. o.pc \in {"down", "place", "split", "write"} =>
         o.at \in 1..last2 - 1 /\ o.root \in edge2 /\ PathFits(low2, edge2, last2, o.path)
  BY <1>1, PathGrown DEF Local
<1>3. o.pc = "down" => /\ o.at \in edge2 \/ low2[o.at] <= o.key
                       /\ o.at = 1 => FirstChild(o.path)
  BY <1>1 DEF Local
<1>4. o.pc = "place" => /\ o.node \in LeafNodes /\ FitsAt(low2, edge2, last2, o.node, o.at)
                        /\ Ordered(KeysOf(o.node)) /\ ~Holds(o.node, o.key)
                        /\ Below(o.node, o.key) = 0 => o.at = 1
                        /\ o.at = 1 => FirstChild(o.path)
  BY FitsAtGrown DEF Local
<1>5. o.pc \in {"split", "write"} => /\ FitsAt(low2, edge2, last2, o.node, o.at) \/ Doomed(o.node)
                                     /\ o.first => FirstChild(o.path)
  BY FitsAtGrown DEF Local
<1>6. o.pc = "split" => /\ o.sep \in Int
                        /\ o.first => o.key < o.sep
                        /\ RightFits(low2, edge2, last2, o.right, o.sep)
  BY RightGrown DEF Local
<1>7. NewPage(low, edge, last, o) => NewPage(low2, edge2, last2, o)
  BY <1>1 DEF NewPage
<1>8. /\ o.key \in Int
      /\ o.kind = "insert" => o.res # "panic"
      /\ o.pc = "header" => o.path = <<>>
      /\ o.pc = "value" => o.at \in 1..last2 - 1
      /\ o.pc = "write" /\ o.new # 0 => NewPage(low2, edge2, last2, o) /\ (o.first => o.key < o.sep)
      /\ o.pc = "root" => o.root \in edge2 /\ NewPage(low2, edge2, last2, o)
      /\ o.pc = "set_root" => o.new \in edge2
  BY <1>1, <1>7 DEF Local
<1> QED
  BY <1>2, <1>3, <1>4, <1>5, <1>6, <1>8 DEF Local

------------------------------------------------------------------------------
(* Nodes under change.                                                     *)

\* A node that fits but for its second separator, which a new minimum has put there.
LateFits(low, edge, last, n) ==
    /\ n \in InternalNodes /\ Len(n.children) = Len(n.keys) + 1
    /\ \A j \in 1..Len(n.children) : n.children[j] \in 1..last - 1
    /\ \A j \in 3..Len(n.keys) : /\ n.children[j + 1] \notin edge
                                 /\ low[n.children[j + 1]] = n.keys[j]

LEMMA HalfBounds == ASSUME NEW n \in Nat, n >= 3 PROVE Half(n) \in 2..n - 1
BY DEF Half

LEMMA InternalSplits ==
    ASSUME NEW low, NEW edge, NEW last \in Nat, NEW n, LateFits(low, edge, last, n),
           Len(n.keys) >= 3
    PROVE  /\ InternalFits(low, edge, last, InternalRight(n), n.keys[Half(Len(n.keys)) + 1], FALSE)
           /\ \A b, left_ : InternalFits(low, edge, last, n, b, left_) =>
                 InternalFits(low, edge, last, InternalLeft(n), b, left_)
           /\ Doomed(n) => Doomed(InternalLeft(n))
<1> DEFINE L == Len(n.keys)
           h == Half(L)
           rk == From(n.keys, h + 2)
           rc == From(n.children, h + 2)
           lk == UpTo(n.keys, h)
           lc == UpTo(n.children, h + 1)
<1>1. /\ n.keys \in Seq(Int) /\ n.children \in Seq(Nat) /\ L \in Nat /\ Len(n.children) = L + 1
      /\ h \in 2..L - 1
  BY HalfBounds DEF LateFits, InternalNodes
<1>2. /\ InternalRight(n) = Internal(rk, rc) /\ InternalLeft(n) = Internal(lk, lc)
  BY DEF InternalRight, InternalLeft
<1> HIDE DEF L, h, rk, rc, lk, lc
<1>3. /\ rk \in Seq(Int) /\ Len(rk) = L - h - 1 /\ \A j \in 1..L - h - 1 : rk[j] = n.keys[h + 1 + j]
  <2>1. h + 2 \in 1..L + 1 /\ L - (h + 2) + 1 = L - h - 1
    BY <1>1
  <2>2. /\ rk \in Seq(Int) /\ Len(rk) = L - (h + 2) + 1
        /\ \A j \in 1..L - (h + 2) + 1 : rk[j] = n.keys[h + 2 + j - 1]
    BY <1>1, <2>1, CutRest DEF rk, L
  <2>3. ASSUME NEW j \in 1..L - h - 1 PROVE rk[j] = n.keys[h + 1 + j]
    <3>1. h + 2 + j - 1 = h + 1 + j
      BY <1>1
    <3> QED
      BY <2>1, <2>2, <3>1
  <2> QED
    BY <2>1, <2>2, <2>3
<1>4. /\ rc \in Seq(Nat) /\ Len(rc) = L - h /\ \A j \in 1..L - h : rc[j] = n.children[h + 1 + j]
  <2>1. h + 2 \in 1..Len(n.children) + 1 /\ Len(n.children) - (h + 2) + 1 = L - h
    BY <1>1
  <2>2. /\ rc \in Seq(Nat) /\ Len(rc) = Len(n.children) - (h + 2) + 1
        /\ \A j \in 1..Len(n.children) - (h + 2) + 1 : rc[j] = n.children[h + 2 + j - 1]
    BY <1>1, <2>1, CutRest DEF rc
  <2>3. ASSUME NEW j \in 1..L - h PROVE rc[j] = n.children[h + 1 + j]
    <3>1. h + 2 + j - 1 = h + 1 + j
      BY <1>1
    <3> QED
      BY <2>1, <2>2, <3>1
  <2> QED
    BY <2>1, <2>2, <2>3
<1>5. /\ lk \in Seq(Int) /\ Len(lk) = h /\ \A j \in 1..h : lk[j] = n.keys[j]
  <2>1. h \in 0..L
    BY <1>1
  <2> QED
    BY <1>1, <2>1, Cut DEF lk, L
<1>6. /\ lc \in Seq(Nat) /\ Len(lc) = h + 1 /\ \A j \in 1..h + 1 : lc[j] = n.children[j]
  <2>1. h + 1 \in 0..Len(n.children)
    BY <1>1
  <2> QED
    BY <1>1, <2>1, Cut DEF lc
<1>7. InternalFits(low, edge, last, InternalRight(n), n.keys[h + 1], FALSE)
  <2>1. Internal(rk, rc) \in InternalNodes
    BY <1>3, <1>4 DEF Internal, InternalNodes
  <2>2. ASSUME NEW j \in 1..L - h - 1
        PROVE  rc[j + 1] \notin edge /\ low[rc[j + 1]] = rk[j]
    <3>1. h + 1 + j \in 3..L /\ j + 1 \in 1..L - h /\ h + 1 + (j + 1) = (h + 1 + j) + 1
      BY <1>1
    <3>2. rk[j] = n.keys[h + 1 + j]
      BY ONLY <1>3, j \in 1..L - h - 1
    <3>3. rc[j + 1] = n.children[h + 1 + (j + 1)]
      BY ONLY <3>1, <1>4
    <3> QED
      BY <3>1, <3>2, <3>3 DEF LateFits, L
  <2>3. ASSUME NEW j \in 1..L - h PROVE rc[j] \in 1..last - 1
    <3>1. h + 1 + j \in 1..Len(n.children)
      BY <1>1
    <3> QED
      BY <3>1, <1>4 DEF LateFits
  <2>4. rc[1] \notin edge /\ low[rc[1]] = n.keys[h + 1]
    <3>1. h + 1 \in 3..L /\ 1 \in 1..L - h /\ h + 1 + 1 = (h + 1) + 1
      BY <1>1
    <3>2. rc[1] = n.children[(h + 1) + 1]
      BY <3>1, <1>4
    <3> QED
      BY <3>1, <3>2 DEF LateFits, L
  <2>5. Len(rc) = Len(rk) + 1
    BY <1>1, <1>3, <1>4
  <2>6. \A j \in 1..Len(rc) : rc[j] \in 1..last - 1
    BY ONLY <1>4, <2>3
  <2>7. \A j \in 1..Len(rk) : rc[j + 1] \notin edge /\ low[rc[j + 1]] = rk[j]
    BY ONLY <1>3, <2>2
  <2>8. InternalRight(n).keys = rk /\ InternalRight(n).children = rc /\ InternalRight(n) \in InternalNodes
    BY ONLY <1>2, <2>1 DEF Internal
  <2>9. ChildrenFit(low, edge, last, InternalRight(n))
    BY ONLY <2>5, <2>6, <2>7, <2>8 DEF ChildrenFit
  <2> QED
    BY ONLY <2>4, <2>8, <2>9 DEF InternalFits
<1>8. ASSUME NEW b, NEW left_, InternalFits(low, edge, last, n, b, left_)
      PROVE  InternalFits(low, edge, last, InternalLeft(n), b, left_)
  <2>1. Internal(lk, lc) \in InternalNodes
    BY <1>5, <1>6 DEF Internal, InternalNodes
  <2>2. ChildrenFit(low, edge, last, n)
    BY <1>8 DEF InternalFits
  <2>3. ASSUME NEW j \in 1..h PROVE lc[j + 1] \notin edge /\ low[lc[j + 1]] = lk[j]
    <3>1. j \in 1..L /\ j + 1 \in 1..h + 1
      BY <1>1
    <3>2. lk[j] = n.keys[j] /\ lc[j + 1] = n.children[j + 1]
      BY <3>1, <1>5, <1>6
    <3> QED
      BY <3>1, <3>2, <2>2 DEF ChildrenFit, L
  <2>4. ASSUME NEW j \in 1..h + 1 PROVE lc[j] \in 1..last - 1
    <3>1. j \in 1..Len(n.children)
      BY <1>1
    <3> QED
      BY <3>1, <2>2, <1>6 DEF ChildrenFit
  <2>5. lc[1] = n.children[1] /\ Len(lk) >= 1
    <3>1. 1 \in 1..h + 1 /\ h >= 1
      BY <1>1
    <3> QED
      BY <3>1, <1>5, <1>6
  <2>6. ChildrenFit(low, edge, last, Internal(lk, lc))
    BY <1>5, <1>6, <2>3, <2>4 DEF ChildrenFit, Internal
  <2> QED
    BY <1>2, <1>8, <2>1, <2>5, <2>6 DEF InternalFits, Internal
<1>9. Doomed(n) => Doomed(InternalLeft(n))
  <2>1. Internal(lk, lc) \in InternalNodes
    BY <1>5, <1>6 DEF Internal, InternalNodes
  <2>2. lk[1] = n.keys[1] /\ lk[2] = n.keys[2] /\ Len(lk) >= 2
    <3>1. 1 \in 1..h /\ 2 \in 1..h /\ h >= 2
      BY <1>1
    <3> QED
      BY <3>1, <1>5
  <2> QED
    BY <1>2, <2>1, <2>2 DEF Doomed, Internal
<1> QED
  BY <1>7, <1>8, <1>9 DEF h, L

LEMMA LeafChanged ==
    ASSUME NEW n \in LeafNodes, NEW k, NEW x
    PROVE  /\ [n EXCEPT !.keys = k] = Leaf(k, n.prev, n.next)
           /\ [n EXCEPT !.next = x] = Leaf(n.keys, n.prev, x)
<1>1. [n EXCEPT !.keys = k] = Leaf(k, n.prev, n.next)
  BY DEF LeafNodes, Leaf
<1>2. [n EXCEPT !.next = x] = Leaf(n.keys, n.prev, x)
  BY DEF LeafNodes, Leaf
<1> QED
  BY <1>1, <1>2

LEMMA LeafSplits ==
    ASSUME NEW last \in Nat, NEW n, NEW b, NEW left_, LeafFits(last, n, b, left_),
           Len(n.keys) >= 3, NEW page \in Nat
    PROVE  /\ LeafFits(last, LeafRight(n, page), KeyOf(n, Half(Len(n.keys)) + 1), FALSE)
           /\ LeafFits(last, LeafLeft(n), b, left_)
<1> DEFINE L == Len(n.keys)
           h == Half(L)
           rk == From(n.keys, h + 1)
           lk == UpTo(n.keys, h)
<1>1. /\ n.keys \in Seq([key : Int, page : Nat]) /\ n.type = "leaf" /\ n.next \in Nat /\ n.prev \in Nat
      /\ L \in Nat /\ h \in 2..L - 1
  BY HalfBounds DEF LeafFits, LeafNodes
<1>2. LeafRight(n, page) = Leaf(rk, page, n.next) /\ LeafLeft(n) = Leaf(lk, n.prev, 0)
  BY DEF LeafRight, LeafLeft
<1> HIDE DEF L, h, rk, lk
<1>3. /\ rk \in Seq([key : Int, page : Nat]) /\ Len(rk) = L - h
      /\ \A j \in 1..L - h : rk[j] = n.keys[h + j]
      /\ lk \in Seq([key : Int, page : Nat]) /\ Len(lk) = h
      /\ \A j \in 1..h : lk[j] = n.keys[j]
  <2>1. h \in 0..L /\ h + 1 \in 1..L + 1 /\ L - (h + 1) + 1 = L - h
    BY <1>1
  <2>2. lk \in Seq([key : Int, page : Nat]) /\ Len(lk) = h /\ \A j \in 1..h : lk[j] = n.keys[j]
    BY <1>1, <2>1, Cut DEF lk, L
  <2>3. /\ rk \in Seq([key : Int, page : Nat]) /\ Len(rk) = L - (h + 1) + 1
        /\ \A j \in 1..L - (h + 1) + 1 : rk[j] = n.keys[h + 1 + j - 1]
    BY <1>1, <2>1, CutRest DEF rk, L
  <2>4. \A j \in Int : h + 1 + j - 1 = h + j
    BY <1>1
  <2> QED
    BY <2>1, <2>2, <2>3, <2>4
<1>4. KeyOf(n, h + 1) = n.keys[h + 1].key
  BY <1>1 DEF KeyOf
<1>5. LeafFits(last, Leaf(rk, page, n.next), n.keys[h + 1].key, FALSE)
  <2>1. Leaf(rk, page, n.next) \in LeafNodes
    BY <1>1, <1>3 DEF LeafNodes, Leaf
  <2>2. ASSUME NEW j \in 1..L - h PROVE rk[j].page \in 1..last - 1
    <3>1. h + j \in 1..L
      BY <1>1
    <3> QED
      BY <3>1, <1>3 DEF LeafFits, L
  <2>3. Len(rk) >= 1 /\ rk[1] = n.keys[h + 1]
    BY <1>1, <1>3
  <2> QED
    BY <1>3, <2>1, <2>2, <2>3 DEF LeafFits, Leaf
<1>6. LeafFits(last, Leaf(lk, n.prev, 0), b, left_)
  <2>1. Leaf(lk, n.prev, 0) \in LeafNodes
    BY <1>1, <1>3 DEF LeafNodes, Leaf
  <2>2. ASSUME NEW j \in 1..h PROVE lk[j].page \in 1..last - 1
    <3>1. j \in 1..L
      BY <1>1
    <3> QED
      BY <3>1, <1>3 DEF LeafFits, L
  <2>3. Len(lk) >= 1 /\ lk[1] = n.keys[1]
    <3>1. 1 \in 1..h /\ h >= 1
      BY <1>1
    <3> QED
      BY <3>1, <1>3
  <2> QED
    BY <1>3, <2>1, <2>2, <2>3 DEF LeafFits, Leaf
<1> QED
  BY <1>2, <1>4, <1>5, <1>6 DEF h, L

\* What Place makes of a leaf, and Raise of the parent.
WithKey(n, slot, key, page) ==
    [n EXCEPT !.keys = InsertedAt(@, slot, [key |-> key, page |-> page])]
WithChild(p, slot, sep, new, first, key) ==
    Internal(InsertedAt(IF first THEN [p.keys EXCEPT ![slot] = key] ELSE p.keys, slot, sep),
             InsertedAt(p.children, slot + 1, new))

\* A key new to a leaf gets its place in it: only as the first is it a new minimum.
LEMMA LeafPlaced ==
    ASSUME NEW last \in Nat, NEW n, NEW b, NEW left_, LeafFits(last, n, b, left_),
           Ordered(KeysOf(n)), NEW key \in Int, ~Holds(n, key), NEW page \in 1..last - 1,
           NEW m, m = WithKey(n, Below(n, key) + 1, key, page)
    PROVE  /\ LeafFits(last, m, b, left_) \/ Below(n, key) = 0
           /\ LeafFits(last, m, b, TRUE)
           /\ Below(n, key) = 0 => \A j \in 2..Len(m.keys) : key < KeyOf(m, j)
<1> DEFINE L == Len(n.keys)
           s == Below(n, key) + 1
           e == [key |-> key, page |-> page]
           q == InsertedAt(n.keys, s, e)
<1>1. /\ n \in LeafNodes /\ AnyNode(n) /\ n.type = "leaf" /\ n.prev \in Nat /\ n.next \in Nat
      /\ n.keys \in Seq([key : Int, page : Nat]) /\ L \in Nat
      /\ \A j \in 1..L : n.keys[j].page \in 1..last - 1
      /\ left_ \/ (L >= 1 /\ n.keys[1].key = b)
  BY DEF LeafFits, LeafNodes, AnyNode
<1>2. /\ Below(n, key) \in 0..L
      /\ \A i \in 1..L : KeyOf(n, i) < key <=> i <= Below(n, key)
      /\ \A i \in 1..L : KeyOf(n, i) = n.keys[i].key /\ n.keys[i].key \in Int
  <2>1. \A i \in 1..L : KeyOf(n, i) = n.keys[i].key
    BY <1>1 DEF KeyOf
  <2>2. \A i \in 1..L : KeyOf(n, i) \in Int
    BY <1>1, KeysTyped
  <2>3. /\ Below(n, key) \in 0..L
        /\ \A i \in 1..L : KeyOf(n, i) < key <=> i <= Below(n, key)
    BY <1>1, BelowCuts
  <2> QED
    BY <2>1, <2>2, <2>3
<1>3. \A i \in 1..L : KeyOf(n, i) # key
  BY <1>1, KeysTyped DEF Holds
<1>4. e \in [key : Int, page : Nat] /\ e.key = key /\ e.page = page
  OBVIOUS
<1>5. m = Leaf(q, n.prev, n.next)
  BY <1>1, LeafChanged DEF WithKey
<1> HIDE DEF L, s, e, q
<1>6. s \in 1..L + 1 /\ s = Below(n, key) + 1 /\ L = Len(n.keys) /\ L \in Nat
  <2>1. Below(n, key) \in 0..L /\ L \in Nat
    BY <1>1, <1>2
  <2>2. s = Below(n, key) + 1 /\ L = Len(n.keys)
    BY DEF s, L
  <2> QED
    BY ONLY <2>1, <2>2
<1>7. Insertion([key : Int, page : Nat], q, n.keys, s, e)
  <2>1. /\ n.keys \in Seq([key : Int, page : Nat]) /\ e \in [key : Int, page : Nat]
        /\ s \in 1..Len(n.keys) + 1
    BY <1>1, <1>4, <1>6
  <2> QED
    BY <2>1, Inserted DEF q
<1>8. /\ q \in Seq([key : Int, page : Nat]) /\ Len(q) = L + 1
      /\ \A j \in 1..s - 1 : q[j] = n.keys[j]
  BY <1>6, <1>7 DEF Insertion
<1>9. q[s] = e
  BY <1>7 DEF Insertion
<1>10. \A j \in s..L : q[j + 1] = n.keys[j]
  BY <1>6, <1>7 DEF Insertion
<1>11. m \in LeafNodes /\ m.keys = q /\ m.type = "leaf"
  <2>1. Leaf(q, n.prev, n.next) \in LeafNodes
    BY <1>1, <1>8 DEF Leaf, LeafNodes
  <2> QED
    BY <2>1, <1>5 DEF Leaf
<1>12. ASSUME NEW j \in 1..L + 1 PROVE q[j].page \in 1..last - 1
  <2>1. CASE j \in 1..s - 1
    <3>1. j \in 1..L
      BY <2>1, <1>6
    <3>2. q[j] = n.keys[j]
      BY <2>1, <1>8
    <3> QED
      BY <3>1, <3>2, <1>1
  <2>2. CASE j = s
    BY <2>2, <1>4, <1>9
  <2>3. CASE j > s
    <3>1. j - 1 \in s..L /\ j - 1 \in 1..L /\ (j - 1) + 1 = j
      BY <2>3, <1>6
    <3>2. q[j] = n.keys[j - 1]
      BY <3>1, <1>10
    <3> QED
      BY <3>1, <3>2, <1>1
  <2>4. j \in 1..s - 1 \/ j = s \/ j > s
    BY <1>6
  <2> QED
    BY <2>1, <2>2, <2>3, <2>4
<1>13. LeafFits(last, m, b, TRUE)
  BY <1>8, <1>11, <1>12 DEF LeafFits
<1>14. ASSUME Below(n, key) # 0 PROVE LeafFits(last, m, b, left_)
  <2>1. 1 \in 1..s - 1
    BY <1>14, <1>2, <1>6
  <2>2. q[1] = n.keys[1]
    BY <2>1, <1>8
  <2>3. Len(q) >= 1
    BY <1>6, <1>8
  <2> QED
    BY <2>2, <2>3, <1>1, <1>8, <1>11, <1>12 DEF LeafFits
<1>15. ASSUME Below(n, key) = 0, NEW j \in 2..Len(m.keys) PROVE key < KeyOf(m, j)
  <2>0. s = 1 /\ j \in 2..L + 1
    BY <1>15, <1>6, <1>8, <1>11
  <2>1. j - 1 \in 1..L /\ j - 1 \in s..L /\ (j - 1) + 1 = j /\ ~(j - 1 <= 0)
    BY <2>0, <1>6
  <2>2. q[j] = n.keys[j - 1]
    BY <2>1, <1>10
  <2>3. ~(KeyOf(n, j - 1) < key) /\ KeyOf(n, j - 1) # key /\ KeyOf(n, j - 1) \in Int
    BY <2>1, <1>2, <1>3, <1>15
  <2>4. KeyOf(m, j) = KeyOf(n, j - 1)
    BY <2>1, <2>2, <1>2, <1>11 DEF KeyOf
  <2> QED
    BY <2>3, <2>4
<1> QED
  BY <1>13, <1>14, <1>15

\* The parent takes the new child.  A new minimum in the place of the first separator
\* is below the one put before it.
LEMMA ChildRaised ==
    ASSUME NEW low, NEW edge, NEW last \in Nat, NEW p, NEW b, NEW left_,
           InternalFits(low, edge, last, p, b, left_), NEW slot \in 1..Len(p.keys) + 1,
           NEW sep \in Int, NEW new \in (1..last - 1) \ edge, low[new] = sep,
           NEW key \in Int, NEW first,
           first => slot = 1 /\ Len(p.keys) >= 1 /\ key < sep,
           NEW m, m = WithChild(p, slot, sep, new, first, key)
    PROVE  /\ InternalFits(low, edge, last, m, b, left_) \/ Doomed(m)
           /\ LateFits(low, edge, last, m)
<1> DEFINE L == Len(p.keys)
           keys == IF first THEN [p.keys EXCEPT ![slot] = key] ELSE p.keys
           mk == InsertedAt(keys, slot, sep)
           mc == InsertedAt(p.children, slot + 1, new)
<1>1. /\ p.keys \in Seq(Int) /\ p.children \in Seq(Nat) /\ L \in Nat /\ Len(p.children) = L + 1
      /\ \A j \in 1..L + 1 : p.children[j] \in 1..last - 1
      /\ \A j \in 1..L : p.children[j + 1] \notin edge /\ low[p.children[j + 1]] = p.keys[j]
  BY DEF InternalFits, InternalNodes, ChildrenFit
<1>2. m = Internal(mk, mc)
  BY DEF WithChild
<1>3. L = Len(p.keys) /\ slot \in 1..L + 1 /\ L \in Nat
  BY <1>1
<1> HIDE DEF L, mk, mc
<1>4. ASSUME first
      PROVE  /\ keys \in Seq(Int) /\ Len(keys) = L /\ keys[1] = key
             /\ \A j \in 1..L : j # 1 => keys[j] = p.keys[j]
  <2>1. slot \in 1..Len(p.keys) /\ keys = [p.keys EXCEPT ![slot] = key] /\ slot = 1
    BY <1>3, <1>4
  <2>0. /\ keys \in Seq(Int) /\ Len(keys) = Len(p.keys)
        /\ \A j \in 1..Len(p.keys) : keys[j] = IF j = slot THEN key ELSE p.keys[j]
    <3>1. p.keys \in Seq(Int) /\ key \in Int
      BY <1>1
    <3> QED
      BY ONLY <3>1, <2>1, ExceptSeq
  <2>2. keys \in Seq(Int) /\ Len(keys) = Len(p.keys)
    BY <2>0
  <2>3. \A j \in 1..Len(p.keys) : keys[j] = IF j = slot THEN key ELSE p.keys[j]
    BY <2>0
  <2>4. keys[1] = key
    BY <2>1, <2>3
  <2>5. \A j \in 1..L : j # 1 => keys[j] = p.keys[j]
    BY <2>1, <2>3, <1>3
  <2> QED
    BY <2>2, <2>4, <2>5, <1>3
<1>5. /\ keys \in Seq(Int) /\ Len(keys) = L /\ \A j \in 1..L : j # 1 \/ ~first => keys[j] = p.keys[j]
      /\ first => keys[1] = key
  <2>1. CASE ~first
    BY <2>1, <1>1, <1>3
  <2> QED
    BY <2>1, <1>4
<1> HIDE DEF keys
<1>6. slot \in 1..Len(keys) + 1 /\ slot + 1 \in 1..Len(p.children) + 1 /\ (slot + 1) - 1 = slot /\ new \in Nat
  BY <1>1, <1>3, <1>5
<1>7. Insertion(Int, mk, keys, slot, sep) /\ Insertion(Nat, mc, p.children, slot + 1, new)
  <2>1. Insertion(Int, mk, keys, slot, sep)
    BY <1>5, <1>6, Inserted DEF mk
  <2>2. Insertion(Nat, mc, p.children, slot + 1, new)
    BY <1>1, <1>6, Inserted DEF mc
  <2> QED
    BY <2>1, <2>2
<1>8. mk \in Seq(Int) /\ Len(mk) = L + 1 /\ \A j \in 1..slot - 1 : mk[j] = keys[j]
  BY <1>5, <1>7 DEF Insertion
<1>9. mk[slot] = sep
  BY <1>7 DEF Insertion
<1>10. \A j \in slot..L : mk[j + 1] = keys[j]
  BY <1>5, <1>7 DEF Insertion
<1>11. mc \in Seq(Nat) /\ Len(mc) = (L + 1) + 1
  BY <1>1, <1>7 DEF Insertion
<1>12. \A j \in 1..slot : mc[j] = p.children[j]
  BY <1>6, <1>7 DEF Insertion
<1>13. mc[slot + 1] = new
  BY <1>7 DEF Insertion
<1>14. \A j \in slot + 1..L + 1 : mc[j + 1] = p.children[j]
  BY <1>1, <1>7 DEF Insertion
<1>15. m \in InternalNodes /\ m.keys = mk /\ m.children = mc
  BY <1>2, <1>8, <1>11 DEF Internal, InternalNodes
<1>16. ASSUME NEW j \in 1..(L + 1) + 1 PROVE mc[j] \in 1..last - 1
  <2>1. CASE j \in 1..slot
    <3>1. j \in 1..L + 1
      BY <2>1, <1>3
    <3>2. mc[j] = p.children[j]
      BY <2>1, <1>12
    <3> QED
      BY <3>1, <3>2, <1>1
  <2>2. CASE j = slot + 1
    BY <2>2, <1>13
  <2>3. CASE j > slot + 1
    <3>1. j - 1 \in 1..L + 1 /\ j - 1 \in slot + 1..L + 1 /\ (j - 1) + 1 = j
      BY <2>3, <1>3
    <3>2. mc[j] = p.children[j - 1]
      BY <3>1, <1>14
    <3> QED
      BY <3>1, <3>2, <1>1
  <2>4. j \in 1..slot \/ j = slot + 1 \/ j > slot + 1
    BY <1>3
  <2> QED
    BY <2>1, <2>2, <2>3, <2>4
<1>17. ASSUME NEW j \in 1..L + 1, ~first \/ j >= 3
       PROVE  mc[j + 1] \notin edge /\ low[mc[j + 1]] = mk[j]
  <2>1. CASE j \in 1..slot - 1
    <3>1. j \in 1..L /\ j + 1 \in 1..slot /\ (j # 1 \/ ~first)
      BY <2>1, <1>3, <1>17
    <3>2. mk[j] = p.keys[j]
      BY <2>1, <3>1, <1>5, <1>8
    <3>3. mc[j + 1] = p.children[j + 1]
      BY <3>1, <1>12
    <3> QED
      BY <3>1, <3>2, <3>3, <1>1
  <2>2. CASE j = slot
    BY <2>2, <1>9, <1>13
  <2>3. CASE j > slot
    <3>1. j - 1 \in slot..L /\ j - 1 \in 1..L /\ (j - 1) + 1 = j /\ j \in slot + 1..L + 1
      BY <2>3, <1>3
    <3>2. mk[j] = keys[j - 1]
      BY <3>1, <1>10
    <3>3. j - 1 # 1 \/ ~first
      BY <1>17
    <3>4. mk[j] = p.keys[j - 1]
      BY <3>1, <3>2, <3>3, <1>5
    <3>5. mc[j + 1] = p.children[(j - 1) + 1]
      BY <3>1, <1>14
    <3> QED
      BY <3>1, <3>4, <3>5, <1>1
  <2>4. j \in 1..slot - 1 \/ j = slot \/ j > slot
    BY <1>3
  <2> QED
    BY <2>1, <2>2, <2>3, <2>4
<1>18. /\ Len(m.children) = Len(m.keys) + 1 /\ Len(m.keys) = L + 1
       /\ \A j \in 1..Len(m.children) : m.children[j] \in 1..last - 1
  BY <1>8, <1>11, <1>15, <1>16
<1>19. LateFits(low, edge, last, m)
  <2>1. ASSUME NEW j \in 3..Len(m.keys)
        PROVE  m.children[j + 1] \notin edge /\ low[m.children[j + 1]] = m.keys[j]
    <3>1. j \in 1..L + 1 /\ j >= 3
      BY <1>18
    <3> QED
      BY <3>1, <1>15, <1>17
  <2> QED
    BY <2>1, <1>15, <1>18 DEF LateFits
<1>20. CASE first
  <2>1. slot = 1 /\ 1 \in slot..L /\ L >= 1
    BY <1>20, <1>3
  <2>2. mk[1] = sep /\ mk[1 + 1] = key
    BY <2>1, <1>5, <1>9, <1>10, <1>20
  <2>3. key < sep /\ 1 + 1 = 2
    BY <1>20
  <2>4. mk[1] > mk[2] /\ Len(m.keys) >= 2
    BY <2>1, <2>2, <2>3, <1>3, <1>18
  <2> QED
    BY <2>4, <1>15, <1>19 DEF Doomed
<1>21. CASE ~first
  <2>1. ChildrenFit(low, edge, last, m)
    BY <1>15, <1>17, <1>18, <1>21 DEF ChildrenFit
  <2>2. mc[1] = p.children[1] /\ Len(m.keys) >= 1
    <3>1. 1 \in 1..slot
      BY <1>3
    <3> QED
      BY <3>1, <1>3, <1>12, <1>18
  <2> QED
    BY <2>1, <2>2, <1>15, <1>19 DEF InternalFits
<1> QED
  BY <1>19, <1>20, <1>21

------------------------------------------------------------------------------
(* Steps of one cursor.                                                    *)

\* The other cursors keep still.
Others(c) == DOMAIN cl' = Clients /\ \A d \in Clients : d # c => cl'[d] = cl[d]

LEMMA StepAlone ==
    ASSUME DOMAIN cl = Clients, NEW c \in Clients, NEW fields, Step(c, fields)
    PROVE  Others(c)
BY DEF Step, Others

LEMMA ReturnEnds ==
    ASSUME DOMAIN cl = Clients, NEW c \in Clients, NEW res, Return(c, res),
           NEW low, NEW edge, NEW last, cl[c].key \in Int,
           cl[c].kind = "insert" => res # "panic"
    PROVE  Others(c) /\ Local(low, edge, last, cl'[c])
<1> DEFINE r == [pc |-> "done", res |-> res, root |-> 0, at |-> 0, path |-> <<>>, node |-> Zero,
                 right |-> Zero, sep |-> 0, new |-> 0, first |-> FALSE]
<1>1. Step(c, r)
  BY DEF Return
<1>2. Others(c)
  BY <1>1, StepAlone
<1>3. cl'[c].pc = "done" /\ cl'[c].res = res /\ cl'[c].kind = cl[c].kind /\ cl'[c].key = cl[c].key
  BY <1>1 DEF Step, Idle
<1> QED
  BY <1>2, <1>3 DEF Local

\* A node settled for its page fits there, in one part or two.
LEMMA Settled ==
    ASSUME DOMAIN cl = Clients, NEW c \in Clients, NEW low, NEW edge, NEW last \in Nat,
           cl[c].key \in Int, cl[c].kind = "insert" => cl[c].res # "panic",
           cl[c].root \in edge,
           NEW at \in 1..last - 1, NEW n, NEW path, NEW first,
           Settle(c, at, n, path, first),
           AnyNode(n), PathFits(low, edge, last, path),
           FitsAt(low, edge, last, n, at) \/ (Doomed(n) /\ LateFits(low, edge, last, n)),
           first => FirstChild(path) /\ \A j \in 2..Len(n.keys) : cl[c].key < KeyOf(n, j)
    PROVE  Others(c) /\ Local(low, edge, last, cl'[c])
<1> DEFINE o == cl'[c]
           h == Half(Len(n.keys))
           whole == [pc |-> "write", at |-> at, node |-> n, path |-> path, new |-> 0, first |-> first]
           leaf == [pc |-> "split", at |-> at, node |-> LeafLeft(n), right |-> LeafRight(n, at),
                    sep |-> KeyOf(n, h + 1), path |-> path, first |-> first]
           inner == [pc |-> "split", at |-> at, node |-> InternalLeft(n), right |-> InternalRight(n),
                     sep |-> KeyOf(n, h + 1), path |-> path, first |-> first]
<1>1. \/ Len(n.keys) <= MaxLen /\ Step(c, whole)
      \/ ~(Len(n.keys) <= MaxLen) /\ n.type = "leaf" /\ Step(c, leaf)
      \/ ~(Len(n.keys) <= MaxLen) /\ n.type # "leaf" /\ Step(c, inner)
  BY DEF Settle
<1>2. Others(c)
  BY <1>1, StepAlone
<1>3. CASE Step(c, whole)
  <2>1. /\ o.pc = "write" /\ o.at = at /\ o.node = n /\ o.path = path /\ o.new = 0 /\ o.first = first
        /\ o.key = cl[c].key /\ o.kind = cl[c].kind /\ o.res = cl[c].res /\ o.root = cl[c].root
    BY <1>3 DEF Step, Idle
  <2> QED
    BY <2>1, <1>2 DEF Local
<1>4. ASSUME ~(Len(n.keys) <= MaxLen) PROVE Len(n.keys) >= 3 /\ KeyOf(n, h + 1) \in Int /\ h + 1 \in 3..Len(n.keys)
  <2>1. Len(n.keys) \in Nat /\ Len(n.keys) >= 3
    BY <1>4, KeysTyped, LenAssumption
  <2>2. h \in 2..Len(n.keys) - 1
    BY <2>1, HalfBounds
  <2>3. h + 1 \in 3..Len(n.keys) /\ h + 1 \in 1..Len(n.keys)
    BY <2>1, <2>2
  <2> QED
    BY <2>1, <2>3, KeysTyped
<1>5. CASE ~(Len(n.keys) <= MaxLen) /\ n.type = "leaf" /\ Step(c, leaf)
  <2> DEFINE lo == LeafLeft(n)
             hi == LeafRight(n, at)
             sep == KeyOf(n, h + 1)
  <2>1. LeafFits(last, n, low[at], at \in edge) /\ (at \in edge => at = 1)
    BY <1>5 DEF FitsAt, Fits, InternalFits, InternalNodes, Doomed
  <2>2. LeafFits(last, hi, sep, FALSE) /\ LeafFits(last, lo, low[at], at \in edge)
    <3>1. Len(n.keys) >= 3 /\ at \in Nat
      BY <1>4, <1>5
    <3> QED
      BY <2>1, <3>1, LeafSplits
  <2>3. first => cl[c].key < sep
    <3>1. h + 1 \in 2..Len(n.keys)
      BY <1>4, <1>5
    <3> QED
      BY <3>1
  <2>4. sep \in Int
    BY <1>4, <1>5
  <2> HIDE DEF lo, hi, sep, h
  <2>5. /\ o.pc = "split" /\ o.at = at /\ o.node = lo /\ o.right = hi /\ o.sep = sep /\ o.path = path
        /\ o.first = first
        /\ o.key = cl[c].key /\ o.kind = cl[c].kind /\ o.res = cl[c].res /\ o.root = cl[c].root
    BY <1>5 DEF Step, Idle, lo, hi, sep
  <2>6. FitsAt(low, edge, last, lo, at) /\ RightFits(low, edge, last, hi, sep)
    BY <2>1, <2>2 DEF FitsAt, Fits, RightFits
  <2> QED
    BY <2>3, <2>4, <2>5, <2>6, <1>2 DEF Local
<1>6. CASE ~(Len(n.keys) <= MaxLen) /\ n.type # "leaf" /\ Step(c, inner)
  <2> DEFINE lo == InternalLeft(n)
             hi == InternalRight(n)
             sep == KeyOf(n, h + 1)
  <2>1. LateFits(low, edge, last, n) /\ (InternalFits(low, edge, last, n, low[at], at \in edge) \/ Doomed(n))
    <3>1. CASE FitsAt(low, edge, last, n, at)
      <4>1. InternalFits(low, edge, last, n, low[at], at \in edge)
        BY <1>6, <3>1 DEF FitsAt, Fits, LeafFits, LeafNodes
      <4>2. \A j \in 3..Len(n.keys) : j \in 1..Len(n.keys)
        OBVIOUS
      <4> QED
        BY <4>1, <4>2 DEF InternalFits, ChildrenFit, LateFits
    <3>2. CASE Doomed(n) /\ LateFits(low, edge, last, n)
      BY <3>2
    <3> QED
      BY <3>1, <3>2
  <2>2. /\ InternalFits(low, edge, last, hi, n.keys[h + 1], FALSE)
        /\ InternalFits(low, edge, last, lo, low[at], at \in edge) \/ Doomed(lo)
    BY <2>1, <1>4, <1>6, InternalSplits
  <2>3. sep = n.keys[h + 1]
    BY <1>6 DEF KeyOf
  <2>4. first => cl[c].key < sep
    <3>1. h + 1 \in 2..Len(n.keys)
      BY <1>4, <1>6
    <3> QED
      BY <3>1
  <2>5. sep \in Int
    BY <1>4, <1>6
  <2> HIDE DEF lo, hi, sep, h
  <2>6. /\ o.pc = "split" /\ o.at = at /\ o.node = lo /\ o.right = hi /\ o.sep = sep /\ o.path = path
        /\ o.first = first
        /\ o.key = cl[c].key /\ o.kind = cl[c].kind /\ o.res = cl[c].res /\ o.root = cl[c].root
    BY <1>6 DEF Step, Idle, lo, hi, sep
  <2>7. (FitsAt(low, edge, last, lo, at) \/ Doomed(lo)) /\ RightFits(low, edge, last, hi, sep)
    BY <2>2, <2>3 DEF FitsAt, Fits, InternalFits, InternalNodes, RightFits
  <2> QED
    BY <2>4, <2>5, <2>6, <2>7, <1>2 DEF Local
<1> QED
  BY <1>1, <1>3, <1>5, <1>6

------------------------------------------------------------------------------
(* Every step keeps the shape, or mangles a node.                          *)

LEMMA MaxPagesNat == MaxPages \in Nat
BY BoundAssumption DEF MaxPages

LEMMA SameGrown ==
    ASSUME NEW low, NEW edge, NEW last \in Nat
    PROVE  Grown(low, edge, last, low, edge, last)
BY DEF Grown

\* One cursor moves, the others and the pages still fit.
LEMMA OneMoves ==
    ASSUME NEW low, NEW edge, Shaped(low, edge), NEW low2, NEW edge2,
           Grown(low, edge, last_index, low2, edge2, last_index'),
           PagesFit(low2, edge2)', NEW c \in Clients, Others(c),
           Local(low2, edge2, last_index', cl'[c])
    PROVE  Shaped(low2, edge2)' /\ DOMAIN cl' = Clients
<1>1. ASSUME NEW d \in Clients PROVE Local(low2, edge2, last_index', cl'[d])
  <2>1. CASE d = c
    BY <2>1
  <2>2. CASE d # c
    <3>1. cl'[d] = cl[d]
      BY <2>2 DEF Others
    <3>2. Local(low, edge, last_index, cl[d]) /\ edge \subseteq 1..last_index - 1
      BY DEF Shaped, PagesFit
    <3> QED
      BY <3>1, <3>2, LocalGrown
  <2> QED
    BY <2>1, <2>2
<1> QED
  BY <1>1 DEF Shaped, Others

\* A step that leaves the pages alone.
LEMMA PagesSame ==
    ASSUME Framed, NEW low, NEW edge, Shaped(low, edge),
           UNCHANGED <<pages, last_index>>, NEW c \in Clients, Others(c),
           Local(low, edge, last_index, cl'[c])
    PROVE  Framed' /\ Shaped(low, edge)'
<1>1. last_index \in Nat
  BY MaxPagesNat DEF Framed
<1>2. Grown(low, edge, last_index, low, edge, last_index')
  BY <1>1, SameGrown
<1>3. PagesFit(low, edge)'
  BY DEF Shaped, PagesFit
<1>4. Shaped(low, edge)' /\ DOMAIN cl' = Clients
  BY <1>2, <1>3, OneMoves
<1> QED
  BY <1>4 DEF Framed

\* A step that writes a page, its own or the next one.
LEMMA PageWritten ==
    ASSUME Framed, NEW low, NEW edge, PagesFit(low, edge), NEW low2 \in [Indexes -> Int], NEW edge2,
           Grown(low, edge, last_index, low2, edge2, last_index'),
           edge2 \subseteq 1..last_index' - 1,
           NEW i, NEW n, pages' = [pages EXCEPT ![i] = n],
           \/ last_index' = last_index /\ i \in 1..last_index - 1
           \/ last_index' = last_index + 1 /\ i = last_index /\ last_index < MaxPages,
           n.type \in {"leaf", "internal"} =>
              FitsAt(low2, edge2, last_index', n, i) /\ Ordered(KeysOf(n))
    PROVE  /\ PagesFit(low2, edge2)'
           /\ DOMAIN pages' = Indexes /\ last_index' \in 0..MaxPages
<1>1. /\ MaxPages \in Nat /\ last_index \in 0..MaxPages /\ 1 \in 1..last_index - 1
      /\ Indexes = 0..MaxPages /\ HEADER_INDEX = 0 /\ DOMAIN pages = Indexes
  BY MaxPagesNat DEF Framed, PagesFit, Indexes, HEADER_INDEX
<1>2. i \in 1..last_index' - 1 /\ i \in Indexes /\ i # 0
  BY <1>1
<1>3. pages'[i] = n /\ DOMAIN pages' = Indexes /\ \A k \in Indexes : k # i => pages'[k] = pages[k]
  BY <1>1, <1>2
<1>4. 1 \in edge2 /\ DecodeRoot(pages'[HEADER_INDEX]) \in edge2
  <2>1. HEADER_INDEX \in Indexes /\ HEADER_INDEX # i
    BY <1>1, <1>2
  <2>2. pages'[HEADER_INDEX] = pages[HEADER_INDEX]
    BY <1>3, <2>1
  <2> QED
    BY <2>2 DEF PagesFit, Grown
<1>5. ASSUME NEW k \in 1..last_index' - 1, pages'[k].type \in {"leaf", "internal"}
      PROVE  FitsAt(low2, edge2, last_index', pages'[k], k) /\ Ordered(KeysOf(pages'[k]))
  <2>1. CASE k = i
    BY <1>3, <1>5, <2>1
  <2>2. CASE k # i
    <3>1. k \in 1..last_index - 1 /\ k \in Indexes
      BY <1>1, <2>2
    <3>2. pages'[k] = pages[k]
      BY <1>3, <2>2, <3>1
    <3>3. FitsAt(low, edge, last_index, pages[k], k) /\ Ordered(KeysOf(pages[k]))
      BY <1>5, <3>1, <3>2 DEF PagesFit
    <3> QED
      BY <3>1, <3>2, <3>3, FitsAtGrown
  <2> QED
    BY <2>1, <2>2
<1>6. last_index' \in 0..MaxPages
  BY <1>1
<1> QED
  BY <1>3, <1>4, <1>5, <1>6 DEF PagesFit

\* What a cursor sees on its way down.
LEMMA NodeRead ==
    ASSUME NEW low, NEW edge, Shaped(low, edge), NEW c \in Clients, cl[c].pc = "down",
           NEW n, n = pages[cl[c].at], n.type \in {"leaf", "internal"}
    PROVE  /\ FitsAt(low, edge, last_index, n, cl[c].at) /\ Ordered(KeysOf(n)) /\ AnyNode(n)
           /\ n.type = "leaf" => LeafFits(last_index, n, low[cl[c].at], cl[c].at \in edge)
           /\ n.type = "internal" => InternalFits(low, edge, last_index, n, low[cl[c].at], cl[c].at \in edge)
<1>1. cl[c].at \in 1..last_index - 1
  BY DEF Shaped, Local
<1>2. FitsAt(low, edge, last_index, n, cl[c].at) /\ Ordered(KeysOf(n))
  BY <1>1 DEF Shaped, PagesFit
<1> QED
  BY <1>2 DEF FitsAt, Fits, LeafFits, InternalFits, LeafNodes, InternalNodes, AnyNode

LEMMA BeginKeeps ==
    ASSUME Framed, NEW low, NEW edge, Shaped(low, edge), NEW c \in Clients,
           NEW kind, NEW k \in Keys, Begin(c, kind, k)
    PROVE  Framed' /\ Shaped(low, edge)'
<1> DEFINE r == [Idle EXCEPT !.pc = "header", !.kind = kind, !.key = k,
                             !.val = IF kind = "insert" THEN MaxOps + 1 - left.ops ELSE 0,
                             !.seen = ref[k]]
<1>1. cl' = [cl EXCEPT ![c] = r] /\ UNCHANGED <<pages, last_index>> /\ DOMAIN cl = Clients
  BY DEF Begin, Framed
<1>2. Others(c) /\ cl'[c] = r
  BY <1>1 DEF Others
<1>3. r.pc = "header" /\ r.key = k /\ r.kind = kind /\ r.res = "none" /\ r.path = <<>>
  BY DEF Idle
<1>4. k \in Int
  BY KeysAssumption
<1> HIDE DEF r
<1>5. Local(low, edge, last_index, cl'[c])
  BY <1>2, <1>3, <1>4 DEF Local
<1> QED
  BY <1>1, <1>2, <1>5, PagesSame

LEMMA EndKeeps ==
    ASSUME Framed, NEW low, NEW edge, Shaped(low, edge), NEW c \in Clients, End(c)
    PROVE  Framed' /\ Shaped(low, edge)'
<1>1. cl' = [cl EXCEPT ![c] = Idle] /\ UNCHANGED <<pages, last_index>> /\ DOMAIN cl = Clients
  BY DEF End, Framed
<1>2. Others(c) /\ cl'[c] = Idle
  BY <1>1 DEF Others
<1>3. Idle.pc = "idle" /\ Idle.key = 0 /\ Idle.kind = "none"
  BY DEF Idle
<1>4. Local(low, edge, last_index, cl'[c])
  BY <1>2, <1>3 DEF Local
<1> QED
  BY <1>1, <1>2, <1>4, PagesSame

LEMMA FetchKeeps ==
    ASSUME Framed, NEW low, NEW edge, Shaped(low, edge), NEW c \in Clients, Fetch(c)
    PROVE  Framed' /\ Shaped(low, edge)'
<1> DEFINE o == cl[c]
           r == [Idle EXCEPT !.pc = "done", !.kind = "get", !.key = o.key, !.seen = o.seen, !.res = "ok",
                    !.val = IF pages[o.at].type = "value" THEN pages[o.at].val ELSE 0]
<1>1. cl' = [cl EXCEPT ![c] = r] /\ UNCHANGED <<pages, last_index>> /\ DOMAIN cl = Clients
  BY DEF Fetch, Framed
<1>2. Others(c) /\ cl'[c] = r
  BY <1>1 DEF Others
<1>3. r.pc = "done" /\ r.key = o.key /\ r.kind = "get"
  BY DEF Idle
<1>4. o.key \in Int
  BY DEF Shaped, Local
<1> HIDE DEF r
<1>5. Local(low, edge, last_index, cl'[c])
  BY <1>2, <1>3, <1>4 DEF Local
<1> QED
  BY <1>1, <1>2, <1>5, PagesSame

LEMMA ReadHeaderKeeps ==
    ASSUME Framed, NEW low, NEW edge, Shaped(low, edge), NEW c \in Clients, ReadHeader(c)
    PROVE  Framed' /\ Shaped(low, edge)'
<1> DEFINE r == DecodeRoot(pages[HEADER_INDEX])
           o == cl'[c]
<1>1. Step(c, [pc |-> "down", root |-> r, at |-> r]) /\ UNCHANGED <<pages, last_index>> /\ cl[c].pc = "header"
  BY DEF ReadHeader
<1>2. Others(c)
  BY <1>1, StepAlone DEF Framed
<1> HIDE DEF r
<1>3. /\ o.pc = "down" /\ o.root = r /\ o.at = r /\ o.path = cl[c].path
      /\ o.key = cl[c].key /\ o.kind = cl[c].kind /\ o.res = cl[c].res
  BY <1>1 DEF Step, Idle, Framed
<1>4. /\ r \in edge /\ edge \subseteq 1..last_index - 1
      /\ cl[c].path = <<>> /\ cl[c].key \in Int /\ (cl[c].kind = "insert" => cl[c].res # "panic")
  BY <1>1 DEF Shaped, PagesFit, Local, r
<1>5. PathFits(low, edge, last_index, <<>>)
  <2>1. Len(<<>>) = 0
    OBVIOUS
  <2> QED
    BY <2>1 DEF PathFits
<1>6. Local(low, edge, last_index, o)
  BY <1>3, <1>4, <1>5 DEF Local, FirstChild
<1> QED
  BY <1>1, <1>2, <1>6, PagesSame

\* A call that ends without a write.
LEMMA ReturnKeeps ==
    ASSUME Framed, NEW low, NEW edge, Shaped(low, edge), NEW c \in Clients, NEW res, Return(c, res),
           UNCHANGED <<pages, last_index>>, cl[c].kind = "insert" => res # "panic"
    PROVE  Framed' /\ Shaped(low, edge)'
<1>1. cl[c].key \in Int /\ DOMAIN cl = Clients
  BY DEF Shaped, Local, Framed
<1>2. Others(c) /\ Local(low, edge, last_index, cl'[c])
  BY <1>1, ReturnEnds
<1> QED
  BY <1>2, PagesSame

LEMMA DescendKeeps ==
    ASSUME Framed, NEW low, NEW edge, Shaped(low, edge), NEW c \in Clients, Descend(c)
    PROVE  Framed' /\ Shaped(low, edge)'
<1> DEFINE o == cl[c]
           n == pages[o.at]
           child == n.children[ChildPos(n, o.key)]
           entry == [page |-> o.at, node |-> n, slot |-> Below(n, o.key) + 1]
           new == Append(o.path, entry)
           u == cl'[c]
<1>1. /\ o.pc = "down" /\ n.type = "internal" /\ UNCHANGED <<pages, last_index>>
      /\ Step(c, [at |-> child, path |-> new])
  BY DEF Descend
<1>2. Others(c)
  BY <1>1, StepAlone DEF Framed
<1>3. /\ o.key \in Int /\ (o.kind = "insert" => o.res # "panic") /\ o.at \in 1..last_index - 1
      /\ o.root \in edge /\ PathFits(low, edge, last_index, o.path) /\ (o.at \in edge \/ low[o.at] <= o.key)
      /\ 1 \in edge /\ edge \subseteq 1..last_index - 1
  BY <1>1 DEF Shaped, Local, PagesFit
<1>4. /\ FitsAt(low, edge, last_index, n, o.at) /\ Ordered(KeysOf(n)) /\ AnyNode(n)
      /\ InternalFits(low, edge, last_index, n, low[o.at], o.at \in edge)
  BY <1>1, NodeRead
<1>5. n \in InternalNodes /\ ChildrenFit(low, edge, last_index, n)
  BY <1>4 DEF InternalFits
<1>6. Below(n, o.key) \in 0..Len(n.keys) /\ Len(n.keys) \in Nat /\ Len(n.children) = Len(n.keys) + 1
  BY <1>3, <1>4, <1>5, BelowCuts, KeysTyped DEF ChildrenFit
<1>7. \/ ChildPos(n, o.key) = 1 /\ Below(n, o.key) = 0
      \/ \E j \in 1..Len(n.keys) : ChildPos(n, o.key) = j + 1 /\ n.keys[j] <= o.key
  BY <1>3, <1>4, <1>5, ChildCuts
<1>8. PathFits(low, edge, last_index, new)
  <2>1. entry \in [page : Nat, node : InternalNodes, slot : Nat]
    BY <1>3, <1>5, <1>6
  <2>2. o.path \in Seq([page : Nat, node : InternalNodes, slot : Nat])
    BY <1>3 DEF PathFits
  <2> HIDE DEF entry
  <2>3. /\ new \in Seq([page : Nat, node : InternalNodes, slot : Nat]) /\ Len(new) = Len(o.path) + 1
        /\ new[Len(o.path) + 1] = entry /\ \A k \in 1..Len(o.path) : new[k] = o.path[k]
    BY <2>1, <2>2, AppendProperties
  <2>4. entry.page = o.at /\ entry.node = n /\ entry.slot = Below(n, o.key) + 1
    BY DEF entry
  <2>5. entry.slot \in 1..Len(n.keys) + 1
    BY <1>6, <2>4
  <2>6. ASSUME NEW k \in 1..Len(new)
        PROVE  /\ new[k].page \in 1..last_index - 1
               /\ FitsAt(low, edge, last_index, new[k].node, new[k].page)
               /\ new[k].slot \in 1..Len(new[k].node.keys) + 1
    <3>1. CASE k \in 1..Len(o.path)
      BY <3>1, <1>3, <2>3 DEF PathFits
    <3>2. CASE k = Len(o.path) + 1
      BY <3>2, <1>3, <1>4, <2>3, <2>4, <2>5
    <3>3. k \in 1..Len(o.path) \/ k = Len(o.path) + 1
      <4>1. Len(o.path) \in Nat /\ Len(new) = Len(o.path) + 1
        BY <2>2, <2>3
      <4> QED
        BY ONLY <4>1, k \in 1..Len(new)
    <3> QED
      BY ONLY <3>1, <3>2, <3>3
  <2> QED
    BY <2>3, <2>6 DEF PathFits
<1>9. FirstChild(new) <=> Below(n, o.key) + 1 = 1 /\ Len(n.keys) >= 1
  <2>1. o.path \in Seq([page : Nat, node : InternalNodes, slot : Nat]) /\ entry \in [page : Nat, node : InternalNodes, slot : Nat]
    BY <1>3, <1>5, <1>6 DEF PathFits
  <2>2. entry.node = n /\ entry.slot = Below(n, o.key) + 1
    OBVIOUS
  <2> HIDE DEF entry
  <2>3. Len(new) = Len(o.path) + 1 /\ new[Len(o.path) + 1] = entry
    BY <2>1, AppendProperties
  <2>4. Len(o.path) \in Nat /\ Len(<<>>) = 0
    BY <2>1
  <2> HIDE DEF new
  <2>5. new # <<>>
    BY <2>3, <2>4
  <2> QED
    BY <2>2, <2>3, <2>5 DEF FirstChild
<1>10. /\ child \in 1..last_index - 1 /\ (child \in edge \/ low[child] <= o.key)
       /\ child = 1 => FirstChild(new)
  <2>1. CASE ChildPos(n, o.key) = 1 /\ Below(n, o.key) = 0
    <3>1. child = n.children[1] /\ 1 \in 1..Len(n.children)
      BY <2>1, <1>6
    <3>2. child \in 1..last_index - 1
      BY <3>1, <1>5 DEF ChildrenFit
    <3>3. CASE o.at \in edge
      <4>1. child \in edge /\ Len(n.keys) >= 1
        BY <3>1, <3>3, <1>4 DEF InternalFits
      <4> QED
        BY <4>1, <3>2, <2>1, <1>9
    <3>4. CASE o.at \notin edge
      <4>1. child \notin edge /\ low[child] = low[o.at]
        BY <3>1, <3>4, <1>4 DEF InternalFits
      <4> QED
        BY <4>1, <3>2, <3>4, <1>3
    <3> QED
      BY <3>3, <3>4
  <2>2. CASE \E j \in 1..Len(n.keys) : ChildPos(n, o.key) = j + 1 /\ n.keys[j] <= o.key
    <3>1. PICK j \in 1..Len(n.keys) : ChildPos(n, o.key) = j + 1 /\ n.keys[j] <= o.key
      BY <2>2
    <3>2. child = n.children[j + 1] /\ j + 1 \in 1..Len(n.children)
      BY <3>1, <1>6
    <3>3. child \in 1..last_index - 1 /\ child \notin edge /\ low[child] = n.keys[j]
      BY <3>1, <3>2, <1>5 DEF ChildrenFit
    <3> QED
      BY <3>1, <3>3, <1>3
  <2> QED
    BY <2>1, <2>2, <1>7
<1> HIDE DEF n, child, new
<1>11. /\ u.pc = "down" /\ u.at = child /\ u.path = new /\ u.root = o.root
       /\ u.key = o.key /\ u.kind = o.kind /\ u.res = o.res
  BY <1>1 DEF Step, Idle, Framed
<1>12. Local(low, edge, last_index, u)
  BY <1>3, <1>8, <1>10, <1>11 DEF Local
<1> QED
  BY <1>1, <1>2, <1>12, PagesSame

LEMMA ReadLeafKeeps ==
    ASSUME Framed, NEW low, NEW edge, Shaped(low, edge), NEW c \in Clients, ReadLeaf(c)
    PROVE  Framed' /\ Shaped(low, edge)'
<1> DEFINE o == cl[c]
           n == pages[o.at]
           page == n.keys[Below(n, o.key) + 1].page
           u == cl'[c]
<1>1. /\ o.pc = "down" /\ n.type = "leaf" /\ UNCHANGED <<pages, last_index>>
      /\ \/ Holds(n, o.key) /\ Step(c, [pc |-> "value", node |-> n, at |-> page])
         \/ ~Holds(n, o.key) /\ Step(c, [pc |-> "place", node |-> n])
         \/ o.kind # "insert" /\ Return(c, "not_found")
         \/ o.kind # "insert" /\ Return(c, "panic")
  BY DEF ReadLeaf
<1>2. /\ o.key \in Int /\ (o.kind = "insert" => o.res # "panic") /\ o.at \in 1..last_index - 1
      /\ o.root \in edge /\ PathFits(low, edge, last_index, o.path) /\ (o.at \in edge \/ low[o.at] <= o.key)
      /\ (o.at = 1 => FirstChild(o.path)) /\ low \in [Indexes -> Int]
  BY <1>1 DEF Shaped, Local, PagesFit
<1>3. /\ FitsAt(low, edge, last_index, n, o.at) /\ Ordered(KeysOf(n)) /\ AnyNode(n)
      /\ LeafFits(last_index, n, low[o.at], o.at \in edge)
  BY <1>1, NodeRead
<1>4. /\ Below(n, o.key) \in 0..Len(n.keys)
      /\ \A i \in 1..Len(n.keys) : KeyOf(n, i) < o.key <=> i <= Below(n, o.key)
      /\ DOMAIN n.keys = 1..Len(n.keys) /\ Len(n.keys) \in Nat
      /\ \A i \in 1..Len(n.keys) : KeyOf(n, i) \in Int
  BY <1>2, <1>3, BelowCuts, KeysTyped
<1> HIDE DEF n, page
<1>5. CASE Holds(n, o.key) /\ Step(c, [pc |-> "value", node |-> n, at |-> page])
  <2>1. PICK i \in 1..Len(n.keys) : KeyOf(n, i) = o.key
    BY <1>4, <1>5 DEF Holds
  <2>2. i > Below(n, o.key)
    BY <2>1, <1>2, <1>4
  <2>3. Below(n, o.key) + 1 \in 1..Len(n.keys)
    BY <2>1, <2>2, <1>4
  <2>4. page \in 1..last_index - 1
    BY <2>3, <1>3 DEF LeafFits, page
  <2>5. u.pc = "value" /\ u.at = page /\ u.key = o.key /\ u.kind = o.kind /\ u.res = o.res
    BY <1>5 DEF Step, Idle, Framed
  <2>6. Local(low, edge, last_index, u)
    BY <2>4, <2>5, <1>2 DEF Local
  <2>7. Others(c)
    BY <1>5, StepAlone DEF Framed
  <2> QED
    BY <2>6, <2>7, <1>1, PagesSame
<1>6. CASE ~Holds(n, o.key) /\ Step(c, [pc |-> "place", node |-> n])
  <2>1. ASSUME Below(n, o.key) = 0 PROVE o.at = 1
    <3>1. CASE o.at \in edge
      BY <3>1, <1>1, <1>3 DEF FitsAt
    <3>2. CASE o.at \notin edge
      <4>1. Len(n.keys) >= 1 /\ n.keys[1].key = low[o.at]
        BY <3>2, <1>3 DEF LeafFits
      <4>2. KeyOf(n, 1) = low[o.at] /\ 1 \in 1..Len(n.keys)
        <5>1. n.type = "leaf"
          BY <1>1
        <5> QED
          BY <5>1, <4>1, <1>4 DEF KeyOf
      <4>3. KeyOf(n, 1) # o.key
        BY <4>2, <1>4, <1>6 DEF Holds
      <4>4. KeyOf(n, 1) < o.key
        BY <4>2, <4>3, <1>2, <1>4, <3>2
      <4> QED
        BY <4>2, <4>4, <2>1, <1>4
    <3> QED
      BY <3>1, <3>2
  <2>2. /\ u.pc = "place" /\ u.node = n /\ u.at = o.at /\ u.path = o.path /\ u.root = o.root
        /\ u.key = o.key /\ u.kind = o.kind /\ u.res = o.res
    BY <1>6 DEF Step, Idle, Framed
  <2>3. n \in LeafNodes
    BY <1>3 DEF LeafFits
  <2>4. Local(low, edge, last_index, u)
    BY <2>1, <2>2, <2>3, <1>2, <1>3, <1>6 DEF Local
  <2>5. Others(c)
    BY <1>6, StepAlone DEF Framed
  <2> QED
    BY <2>4, <2>5, <1>1, PagesSame
<1>7. CASE o.kind # "insert" /\ (Return(c, "not_found") \/ Return(c, "panic"))
  BY <1>1, <1>7, ReturnKeeps
<1> QED
  BY <1>1, <1>5, <1>6, <1>7

LEMMA OverwriteKeeps ==
    ASSUME Framed, NEW low, NEW edge, Shaped(low, edge), NEW c \in Clients, Overwrite(c)
    PROVE  Framed' /\ Shaped(low, edge)'
<1> DEFINE o == cl[c]
<1>1. /\ o.pc = "value" /\ pages' = [pages EXCEPT ![o.at] = Value(o.val)] /\ last_index' = last_index
      /\ Return(c, "ok")
  BY DEF Overwrite, Written
<1>2. o.at \in 1..last_index - 1 /\ o.key \in Int /\ low \in [Indexes -> Int] /\ edge \subseteq 1..last_index - 1
  BY <1>1 DEF Shaped, Local, PagesFit
<1>3. last_index \in Nat
  BY MaxPagesNat DEF Framed
<1>4. Grown(low, edge, last_index, low, edge, last_index')
  BY <1>1, <1>3, SameGrown
<1>5. Value(o.val).type = "value"
  BY DEF Value
<1>6. PagesFit(low, edge)' /\ DOMAIN pages' = Indexes /\ last_index' \in 0..MaxPages
  BY <1>1, <1>2, <1>4, <1>5, PageWritten DEF Shaped
<1>7. Others(c) /\ Local(low, edge, last_index', cl'[c])
  BY <1>1, <1>2, ReturnEnds DEF Framed
<1> QED
  BY <1>4, <1>6, <1>7, OneMoves DEF Framed

LEMMA PlaceKeeps ==
    ASSUME Framed, NEW low, NEW edge, Shaped(low, edge), NEW c \in Clients, Place(c)
    PROVE  Framed' /\ Shaped(low, edge)'
<1> DEFINE o == cl[c]
           m == WithKey(o.node, Below(o.node, o.key) + 1, o.key, last_index)
           first == Below(o.node, o.key) + 1 = 1
           next == last_index'
<1>1. /\ o.pc = "place" /\ pages' = [pages EXCEPT ![last_index] = Value(o.val)]
      /\ last_index < MaxPages /\ last_index' = last_index + 1
      /\ Settle(c, o.at, m, o.path, first)
  BY DEF Place, Written, Acquire, WithKey
<1>2. /\ o.key \in Int /\ (o.kind = "insert" => o.res # "panic")
      /\ o.at \in 1..last_index - 1 /\ o.root \in edge /\ PathFits(low, edge, last_index, o.path)
      /\ o.node \in LeafNodes /\ FitsAt(low, edge, last_index, o.node, o.at)
      /\ Ordered(KeysOf(o.node)) /\ ~Holds(o.node, o.key)
      /\ (Below(o.node, o.key) = 0 => o.at = 1) /\ (o.at = 1 => FirstChild(o.path))
      /\ low \in [Indexes -> Int] /\ edge \subseteq 1..last_index - 1 /\ 1 \in edge
  BY <1>1 DEF Shaped, Local, PagesFit
<1>3. last_index \in Nat /\ MaxPages \in Nat /\ 1 \in 1..last_index - 1
  BY <1>2, MaxPagesNat DEF Framed
<1>4. next \in Nat /\ last_index \in 1..next - 1 /\ o.at \in 1..next - 1
  BY <1>1, <1>2, <1>3
<1>5. Grown(low, edge, last_index, low, edge, next)
  BY <1>1, <1>3 DEF Grown
<1>6. edge \subseteq 1..next - 1
  BY <1>1, <1>2, <1>3
<1>7. PagesFit(low, edge)' /\ DOMAIN pages' = Indexes /\ last_index' \in 0..MaxPages
  <2>1. Value(o.val).type = "value"
    BY DEF Value
  <2> QED
    BY <1>1, <1>2, <1>5, <1>6, <2>1, PageWritten DEF Shaped
<1>8. PathFits(low, edge, next, o.path) /\ FitsAt(low, edge, next, o.node, o.at)
  BY <1>2, <1>5, PathGrown, FitsAtGrown
<1>9. LeafFits(next, o.node, low[o.at], o.at \in edge) /\ (o.at \in edge => o.at = 1)
  BY <1>2, <1>8 DEF FitsAt, Fits, InternalFits, InternalNodes, LeafNodes
<1>10. /\ LeafFits(next, m, low[o.at], o.at \in edge) \/ Below(o.node, o.key) = 0
       /\ LeafFits(next, m, low[o.at], TRUE)
       /\ Below(o.node, o.key) = 0 => \A j \in 2..Len(m.keys) : o.key < KeyOf(m, j)
  BY <1>2, <1>4, <1>9, LeafPlaced
<1>11. Below(o.node, o.key) \in Nat
  <2>1. AnyNode(o.node)
    BY <1>2 DEF AnyNode
  <2>2. Len(o.node.keys) \in Nat /\ Below(o.node, o.key) \in 0..Len(o.node.keys)
    BY <1>2, <2>1, BelowCuts, KeysTyped
  <2> QED
    BY <2>2
<1> HIDE DEF m
<1>12. AnyNode(m) /\ FitsAt(low, edge, next, m, o.at)
  <2>1. AnyNode(m)
    BY <1>10 DEF AnyNode, LeafFits
  <2>2. LeafFits(next, m, low[o.at], o.at \in edge)
    <3>1. CASE Below(o.node, o.key) = 0
      <4>1. o.at \in edge
        BY <3>1, <1>2
      <4> QED
        BY <4>1, <1>10
    <3>2. CASE Below(o.node, o.key) # 0
      BY <3>2, <1>10
    <3> QED
      BY <3>1, <3>2
  <2> QED
    BY <2>1, <2>2, <1>9 DEF FitsAt, Fits
<1>13. first => FirstChild(o.path) /\ \A j \in 2..Len(m.keys) : o.key < KeyOf(m, j)
  <2>1. first => Below(o.node, o.key) = 0
    BY <1>11
  <2> QED
    BY <2>1, <1>2, <1>10
<1> HIDE DEF first
<1>14. DOMAIN cl = Clients
  BY DEF Framed
<1>15. Others(c) /\ Local(low, edge, next, cl'[c])
  BY <1>1, <1>2, <1>4, <1>8, <1>12, <1>13, <1>14, Settled
<1> QED
  BY <1>5, <1>7, <1>15, OneMoves DEF Framed

\* A node in order is not doomed.
LEMMA OrderedFits ==
    ASSUME NEW n, Ordered(KeysOf(n)) PROVE ~Doomed(n)
<1>1. SUFFICES ASSUME Doomed(n) PROVE FALSE
  OBVIOUS
<1>2. AnyNode(n) /\ n.type = "internal" /\ Len(n.keys) >= 2 /\ n.keys[1] > n.keys[2]
  BY <1>1 DEF Doomed, InternalNodes, AnyNode
<1>3. /\ DOMAIN KeysOf(n) = 1..Len(n.keys) /\ Len(n.keys) \in Nat
      /\ KeysOf(n)[1] = n.keys[1] /\ KeysOf(n)[2] = n.keys[2]
      /\ n.keys[1] \in Int /\ n.keys[2] \in Int
  <2>1. Len(n.keys) \in Nat
    BY <1>2, KeysTyped
  <2>2. 1 \in 1..Len(n.keys) /\ 2 \in 1..Len(n.keys)
    BY <2>1, <1>2
  <2>3. KeyOf(n, 1) = n.keys[1] /\ KeyOf(n, 2) = n.keys[2]
    BY <1>2 DEF KeyOf
  <2> QED
    BY <2>1, <2>2, <2>3, <1>2, KeysTyped
<1>4. 1 \in DOMAIN KeysOf(n) /\ 2 \in DOMAIN KeysOf(n) /\ 1 < 2
  BY <1>2, <1>3
<1>5. KeysOf(n)[1] < KeysOf(n)[2]
  BY <1>4 DEF Ordered
<1> QED
  BY <1>2, <1>3, <1>5

LEMMA SplitKeeps ==
    ASSUME Framed, NEW low, NEW edge, Shaped(low, edge), NEW c \in Clients, Split(c), ~mangled'
    PROVE  Framed' /\ \E low2 : Shaped(low2, edge)'
<1> DEFINE o == cl[c]
           u == cl'[c]
           next == last_index'
           m == IF o.node.type = "leaf" THEN [o.node EXCEPT !.next = last_index] ELSE o.node
<1>1. /\ o.pc = "split" /\ pages' = [pages EXCEPT ![last_index] = o.right]
      /\ last_index < MaxPages /\ last_index' = last_index + 1
      /\ Step(c, [pc |-> "write", new |-> last_index, node |-> m])
      /\ Ordered(KeysOf(o.right))
  BY DEF Split, Written, Acquire
<1>2. /\ o.key \in Int /\ (o.kind = "insert" => o.res # "panic")
      /\ o.at \in 1..last_index - 1 /\ o.root \in edge /\ PathFits(low, edge, last_index, o.path)
      /\ (FitsAt(low, edge, last_index, o.node, o.at) \/ Doomed(o.node))
      /\ (o.first => FirstChild(o.path))
      /\ o.sep \in Int /\ (o.first => o.key < o.sep) /\ RightFits(low, edge, last_index, o.right, o.sep)
  <2>1. Local(low, edge, last_index, o)
    BY DEF Shaped
  <2>2. o.pc = "split"
    BY <1>1
  <2>3. /\ o.key \in Int /\ (o.kind = "insert" => o.res # "panic")
        /\ o.at \in 1..last_index - 1 /\ o.root \in edge /\ PathFits(low, edge, last_index, o.path)
    BY <2>1, <2>2, Zenon DEF Local
  <2>4. /\ (FitsAt(low, edge, last_index, o.node, o.at) \/ Doomed(o.node))
        /\ (o.first => FirstChild(o.path))
    BY <2>1, <2>2, Zenon DEF Local
  <2>5. o.sep \in Int /\ (o.first => o.key < o.sep) /\ RightFits(low, edge, last_index, o.right, o.sep)
    BY <2>1, <2>2, Zenon DEF Local
  <2> QED
    BY <2>3, <2>4, <2>5
<1>3. low \in [Indexes -> Int] /\ edge \subseteq 1..last_index - 1 /\ 1 \in edge
  BY DEF Shaped, PagesFit
<1>4. last_index \in Nat /\ MaxPages \in Nat /\ 1 \in 1..last_index - 1 /\ last_index \in Indexes
  BY <1>3, MaxPagesNat DEF Framed, Indexes
<1>5. /\ next \in Nat /\ last_index \in (1..next - 1) \ edge /\ o.at \in 1..next - 1 /\ last_index # 0
      /\ edge \subseteq 1..next - 1
  BY <1>1, <1>2, <1>3, <1>4
<1>0. PICK low2 : low2 = [low EXCEPT ![last_index] = o.sep]
  OBVIOUS
<1>6. low2 \in [Indexes -> Int] /\ low2[last_index] = o.sep /\ \A i \in 1..last_index - 1 : low2[i] = low[i]
  BY <1>0, <1>2, <1>3, <1>4
<1>7. Grown(low, edge, last_index, low2, edge, next)
  BY <1>1, <1>4, <1>5, <1>6 DEF Grown
<1>8. /\ PathFits(low2, edge, next, o.path) /\ RightFits(low2, edge, next, o.right, o.sep)
      /\ FitsAt(low2, edge, next, o.node, o.at) \/ Doomed(o.node)
  <2>1. PathFits(low2, edge, next, o.path)
    BY <1>2, <1>7, PathGrown
  <2>2. RightFits(low2, edge, next, o.right, o.sep)
    BY <1>2, <1>7, RightGrown
  <2>3. FitsAt(low2, edge, next, o.node, o.at) \/ Doomed(o.node)
    BY <1>2, <1>7, FitsAtGrown
  <2> QED
    BY <2>1, <2>2, <2>3
<1>9. FitsAt(low2, edge, next, o.right, last_index)
  <2>1. (last_index \in edge) = FALSE
    BY <1>5
  <2> QED
    BY <2>1, <1>6, <1>8 DEF FitsAt, RightFits
<1>10. PagesFit(low2, edge)' /\ DOMAIN pages' = Indexes /\ last_index' \in 0..MaxPages
  BY <1>1, <1>5, <1>6, <1>7, <1>9, PageWritten DEF Shaped
<1>11. FitsAt(low2, edge, next, m, o.at) \/ Doomed(m)
  <2>1. CASE o.node.type = "leaf"
    <3>1. LeafFits(next, o.node, low2[o.at], o.at \in edge) /\ (o.at \in edge => o.at = 1)
      BY <2>1, <1>8 DEF FitsAt, Fits, InternalFits, InternalNodes, Doomed
    <3>2. o.node \in LeafNodes /\ m = [o.node EXCEPT !.next = last_index]
      BY <2>1, <3>1 DEF LeafFits
    <3>3. m = Leaf(o.node.keys, o.node.prev, last_index)
      BY <3>2, LeafChanged
    <3>4. m \in LeafNodes /\ m.keys = o.node.keys
      BY <3>2, <3>3, <1>4 DEF Leaf, LeafNodes
    <3>5. LeafFits(next, m, low2[o.at], o.at \in edge)
      BY <3>1, <3>4 DEF LeafFits
    <3> QED
      BY <3>1, <3>5 DEF FitsAt, Fits
  <2>2. CASE o.node.type # "leaf"
    BY <2>2, <1>8
  <2> QED
    BY <2>1, <2>2
<1> HIDE DEF m
<1>12. /\ u.pc = "write" /\ u.new = last_index /\ u.node = m /\ u.at = o.at /\ u.path = o.path
       /\ u.root = o.root /\ u.key = o.key /\ u.kind = o.kind /\ u.res = o.res /\ u.sep = o.sep
       /\ u.first = o.first
  BY <1>1 DEF Step, Idle, Framed
<1>13. Others(c)
  BY <1>1, StepAlone DEF Framed
<1>14. NewPage(low2, edge, next, u)
  BY <1>2, <1>5, <1>6, <1>12 DEF NewPage
<1>15. Local(low2, edge, next, u)
  BY <1>2, <1>5, <1>8, <1>11, <1>12, <1>14 DEF Local
<1>16. Shaped(low2, edge)' /\ DOMAIN cl' = Clients
  BY <1>7, <1>10, <1>13, <1>15, OneMoves
<1> QED
  BY <1>10, <1>16 DEF Framed

\* What the callers index by fk is there.
LEMMA WithinSeparators ==
    ASSUME NEW low, NEW edge, NEW last, NEW o, Local(low, edge, last, o), o.pc = "write"
    PROVE  ~PastSeparators(o)
<1> SUFFICES ASSUME o.first, o.path # <<>>
             PROVE  ~(o.path[Len(o.path)].slot > Len(o.path[Len(o.path)].node.keys))
  BY DEF PastSeparators
<1> DEFINE p == o.path[Len(o.path)]
<1>1. PathFits(low, edge, last, o.path) /\ FirstChild(o.path)
  BY DEF Local
<1>2. o.path \in Seq([page : Nat, node : InternalNodes, slot : Nat])
  BY <1>1 DEF PathFits
<1>3. Len(o.path) \in 1..Len(o.path)
  <2>1. Len(o.path) \in Nat /\ Len(o.path) # 0
    BY <1>2, EmptySeq
  <2> QED
    BY <2>1
<1>4. p \in [page : Nat, node : InternalNodes, slot : Nat]
  BY <1>2, <1>3, ElementOfSeq
<1>5. Len(p.node.keys) \in Nat
  BY <1>4 DEF InternalNodes
<1>6. p.slot = 1 /\ Len(p.node.keys) >= 1
  BY <1>1 DEF FirstChild
<1> QED
  BY <1>5, <1>6

LEMMA WriteKeeps ==
    ASSUME Framed, NEW low, NEW edge, Shaped(low, edge), NEW c \in Clients, Write(c), ~mangled'
    PROVE  Framed' /\ Shaped(low, edge)'
<1> DEFINE o == cl[c]
           u == cl'[c]
           p == o.path[Len(o.path)]
           m == WithChild(p.node, p.slot, o.sep, o.new, o.first, o.key)
<1>1. /\ o.pc = "write" /\ pages' = [pages EXCEPT ![o.at] = o.node] /\ last_index' = last_index
      /\ Ordered(KeysOf(o.node))
      /\ \/ Return(c, "ok")
         \/ o.new # 0 /\ o.path # <<>> /\ Raise(c)
         \/ o.new # 0 /\ Step(c, [pc |-> "root"])
  <2>1. o.pc = "write" /\ Local(low, edge, last_index, o)
    BY DEF Write, Shaped
  <2>2. ~PastSeparators(o)
    BY <2>1, WithinSeparators
  <2> QED
    BY <2>2 DEF Write, Written
<1>2. /\ o.key \in Int /\ (o.kind = "insert" => o.res # "panic")
      /\ o.at \in 1..last_index - 1 /\ o.root \in edge /\ PathFits(low, edge, last_index, o.path)
      /\ FitsAt(low, edge, last_index, o.node, o.at)
      /\ (o.first => FirstChild(o.path))
      /\ (o.new # 0 => NewPage(low, edge, last_index, o) /\ (o.first => o.key < o.sep))
      /\ low \in [Indexes -> Int] /\ edge \subseteq 1..last_index - 1
  BY <1>1, OrderedFits DEF Shaped, Local, PagesFit
<1>3. last_index \in Nat /\ DOMAIN cl = Clients
  BY MaxPagesNat DEF Framed
<1>4. Grown(low, edge, last_index, low, edge, last_index')
  BY <1>1, <1>3, SameGrown
<1>5. PagesFit(low, edge)' /\ DOMAIN pages' = Indexes /\ last_index' \in 0..MaxPages
  BY <1>1, <1>2, <1>4, PageWritten DEF Shaped
<1>6. CASE Return(c, "ok")
  BY <1>2, <1>3, <1>4, <1>5, <1>6, ReturnEnds, OneMoves DEF Framed
<1>7. CASE o.new # 0 /\ Step(c, [pc |-> "root"])
  <2>1. /\ u.pc = "root" /\ u.root = o.root /\ u.new = o.new /\ u.sep = o.sep
        /\ u.key = o.key /\ u.kind = o.kind /\ u.res = o.res
    BY <1>3, <1>7 DEF Step, Idle
  <2>2. NewPage(low, edge, last_index, u)
    BY <2>1, <1>2, <1>7 DEF NewPage
  <2>3. Local(low, edge, last_index', u)
    BY <2>1, <2>2, <1>1, <1>2 DEF Local
  <2>4. Others(c)
    BY <1>3, <1>7, StepAlone
  <2> QED
    BY <2>3, <2>4, <1>4, <1>5, OneMoves DEF Framed
<1>8. CASE o.new # 0 /\ o.path # <<>> /\ Raise(c)
  <2>1. /\ Len(o.path) \in 1..Len(o.path) /\ Len(o.path) \in Nat
        /\ o.path \in Seq([page : Nat, node : InternalNodes, slot : Nat])
    <3>1. o.path \in Seq([page : Nat, node : InternalNodes, slot : Nat])
      BY <1>2 DEF PathFits
    <3>2. Len(o.path) \in Nat /\ Len(o.path) # 0
      BY <3>1, <1>8, EmptySeq
    <3> QED
      BY <3>1, <3>2
  <2>2. /\ p.page \in 1..last_index - 1 /\ FitsAt(low, edge, last_index, p.node, p.page)
        /\ p.slot \in 1..Len(p.node.keys) + 1 /\ p.node \in InternalNodes
    <3>1. p \in [page : Nat, node : InternalNodes, slot : Nat]
      BY <2>1, ElementOfSeq
    <3> QED
      BY <3>1, <2>1, <1>2 DEF PathFits
  <2>3. InternalFits(low, edge, last_index, p.node, low[p.page], p.page \in edge)
    BY <2>2 DEF FitsAt, Fits, LeafFits, LeafNodes, InternalNodes
  <2>4. /\ o.sep \in Int /\ o.new \in (1..last_index - 1) \ edge /\ low[o.new] = o.sep
        /\ (o.first => p.slot = 1 /\ Len(p.node.keys) >= 1 /\ o.key < o.sep)
    BY <1>2, <1>8 DEF NewPage, FirstChild
  <2>5. UpTo(o.path, Len(o.path) - 1) = SubSeq(o.path, 1, Len(o.path) - 1)
    BY DEF UpTo
  <2>6. Settle(c, p.page, m, UpTo(o.path, Len(o.path) - 1), FALSE)
    BY <1>8 DEF Raise, WithChild
  <2>7. /\ InternalFits(low, edge, last_index, m, low[p.page], p.page \in edge) \/ Doomed(m)
        /\ LateFits(low, edge, last_index, m)
    BY <1>2, <1>3, <2>2, <2>3, <2>4, ChildRaised
  <2>8. PathFits(low, edge, last_index, UpTo(o.path, Len(o.path) - 1))
    <3> DEFINE q == UpTo(o.path, Len(o.path) - 1)
    <3>1. Len(o.path) - 1 \in 0..Len(o.path)
      BY <2>1
    <3>2. /\ q \in Seq([page : Nat, node : InternalNodes, slot : Nat]) /\ Len(q) = Len(o.path) - 1
          /\ \A k \in 1..Len(o.path) - 1 : q[k] = o.path[k]
      BY <2>1, <3>1, Cut
    <3>3. \A k \in 1..Len(o.path) - 1 : k \in 1..Len(o.path)
      BY <2>1
    <3> HIDE DEF q
    <3>4. PathFits(low, edge, last_index, q)
      BY <1>2, <3>2, <3>3 DEF PathFits
    <3> QED
      BY <3>4 DEF q
  <2> DEFINE q == UpTo(o.path, Len(o.path) - 1)
             at == p.page
  <2> HIDE DEF m, q
  <2>9. AnyNode(m) /\ (FitsAt(low, edge, last_index, m, at) \/ (Doomed(m) /\ LateFits(low, edge, last_index, m)))
    BY <2>7 DEF AnyNode, FitsAt, Fits, InternalFits, InternalNodes, LateFits
  <2>10. Settle(c, at, m, q, FALSE) /\ PathFits(low, edge, last_index, q) /\ at \in 1..last_index - 1
    BY <2>2, <2>6, <2>8 DEF q
  <2> HIDE DEF at
  <2>11. Others(c) /\ Local(low, edge, last_index, cl'[c])
    BY <1>2, <1>3, <2>9, <2>10, Settled
  <2> QED
    BY <2>11, <1>1, <1>4, <1>5, OneMoves DEF Framed
<1> QED
  BY <1>1, <1>6, <1>7, <1>8

LEMMA NewRootKeeps ==
    ASSUME Framed, NEW low, NEW edge, Shaped(low, edge), NEW c \in Clients, NewRoot(c)
    PROVE  Framed' /\ \E edge2 : Shaped(low, edge2)'
<1> DEFINE o == cl[c]
           u == cl'[c]
           next == last_index'
           m == Internal(<<o.sep>>, <<o.root, o.new>>)
<1>1. /\ o.pc = "root" /\ pages' = [pages EXCEPT ![last_index] = m]
      /\ last_index < MaxPages /\ last_index' = last_index + 1
      /\ Step(c, [pc |-> "set_root", new |-> last_index])
  BY DEF NewRoot, Written, Acquire
<1>2. /\ o.key \in Int /\ (o.kind = "insert" => o.res # "panic") /\ o.root \in edge
      /\ o.new \in (1..last_index - 1) \ edge /\ o.sep \in Int /\ low[o.new] = o.sep
  BY <1>1 DEF Shaped, Local, NewPage
<1>3. low \in [Indexes -> Int] /\ edge \subseteq 1..last_index - 1 /\ 1 \in edge
  BY DEF Shaped, PagesFit
<1>4. last_index \in Nat /\ MaxPages \in Nat /\ 1 \in 1..last_index - 1
  BY <1>3, MaxPagesNat DEF Framed
<1>0. PICK edge2 : edge2 = edge \cup {last_index}
  OBVIOUS
<1>5. /\ next \in Nat /\ last_index \in 1..next - 1 /\ edge2 \subseteq 1..next - 1
      /\ last_index \notin 1..last_index - 1 /\ o.root \in 1..next - 1 /\ o.new \in (1..next - 1) \ edge2
  <2>1. next \in Nat /\ last_index \in 1..next - 1 /\ \A x \in 1..last_index - 1 : x \in 1..next - 1 /\ x # last_index
    BY <1>1, <1>4
  <2> QED
    BY <2>1, <1>0, <1>2, <1>3
<1>6. Grown(low, edge, last_index, low, edge2, next)
  BY <1>0, <1>1, <1>4, <1>5 DEF Grown
<1>7. m \in InternalNodes /\ Len(m.keys) = 1 /\ Len(m.children) = 2
      /\ m.keys[1] = o.sep /\ m.children[1] = o.root /\ m.children[2] = o.new
  <2>1. o.root \in Nat /\ o.new \in Nat
    BY <1>5
  <2> QED
    BY <2>1, <1>2 DEF Internal, InternalNodes
<1> HIDE DEF m
<1>8. FitsAt(low, edge2, next, m, last_index)
  <2>1. last_index \in edge2 /\ o.root \in edge2
    BY <1>0, <1>2
  <2>2. ChildrenFit(low, edge2, next, m)
    <3>1. ASSUME NEW j \in 1..Len(m.children) PROVE m.children[j] \in 1..next - 1
      <4>1. j = 1 \/ j = 2
        BY <1>7
      <4> QED
        BY <4>1, <1>5, <1>7
    <3>2. ASSUME NEW j \in 1..Len(m.keys)
          PROVE  m.children[j + 1] \notin edge2 /\ low[m.children[j + 1]] = m.keys[j]
      <4>1. j = 1 /\ j + 1 = 2
        BY <1>7
      <4> QED
        BY <4>1, <1>2, <1>5, <1>7
    <3> QED
      BY <3>1, <3>2, <1>7 DEF ChildrenFit
  <2>3. InternalFits(low, edge2, next, m, low[last_index], last_index \in edge2)
    BY <2>1, <2>2, <1>7 DEF InternalFits
  <2> QED
    BY <2>3, <1>7 DEF FitsAt, Fits, InternalNodes
<1>9. Ordered(KeysOf(m))
  <2>1. DOMAIN KeysOf(m) = 1..1
    BY <1>7, KeysTyped DEF AnyNode
  <2> QED
    BY <2>1 DEF Ordered
<1>10. PagesFit(low, edge2)' /\ DOMAIN pages' = Indexes /\ last_index' \in 0..MaxPages
  BY <1>1, <1>3, <1>5, <1>6, <1>8, <1>9, PageWritten DEF Shaped
<1>11. u.pc = "set_root" /\ u.new = last_index /\ u.key = o.key /\ u.kind = o.kind /\ u.res = o.res
  BY <1>1 DEF Step, Idle, Framed
<1>12. Local(low, edge2, next, u)
  BY <1>0, <1>2, <1>11 DEF Local
<1>13. Others(c)
  BY <1>1, StepAlone DEF Framed
<1>14. Shaped(low, edge2)' /\ DOMAIN cl' = Clients
  BY <1>6, <1>10, <1>12, <1>13, OneMoves
<1> QED
  BY <1>10, <1>14 DEF Framed

LEMMA SetRootKeeps ==
    ASSUME Framed, NEW low, NEW edge, Shaped(low, edge), NEW c \in Clients, SetRoot(c)
    PROVE  Framed' /\ Shaped(low, edge)'
<1> DEFINE o == cl[c]
<1>1. /\ o.pc = "set_root" /\ pages' = [pages EXCEPT ![HEADER_INDEX] = Header(o.new)]
      /\ last_index' = last_index /\ Return(c, "ok")
  BY DEF SetRoot, Written
<1>2. o.new \in edge /\ o.key \in Int
  BY <1>1 DEF Shaped, Local
<1>3. last_index \in 0..MaxPages /\ MaxPages \in Nat /\ DOMAIN pages = Indexes /\ DOMAIN cl = Clients
  BY MaxPagesNat DEF Framed
<1>4. DecodeRoot(Header(o.new)) = o.new
  BY DEF DecodeRoot, Header
<1>5. /\ pages'[HEADER_INDEX] = Header(o.new) /\ DOMAIN pages' = Indexes
      /\ \A i \in 1..last_index - 1 : pages'[i] = pages[i]
  BY <1>1, <1>3 DEF Indexes, HEADER_INDEX
<1>6. PagesFit(low, edge)'
  BY <1>1, <1>2, <1>4, <1>5 DEF Shaped, PagesFit
<1>7. Others(c) /\ Local(low, edge, last_index', cl'[c])
  BY <1>1, <1>2, <1>3, ReturnEnds
<1>8. Grown(low, edge, last_index, low, edge, last_index')
  BY <1>1, <1>3, SameGrown
<1>9. Shaped(low, edge)' /\ DOMAIN cl' = Clients
  BY <1>6, <1>7, <1>8, OneMoves
<1> QED
  BY <1>1, <1>3, <1>5, <1>9 DEF Framed

------------------------------------------------------------------------------
(* An empty file stays empty: it holds no root, and nothing makes one.        *)

LEMMA RootlessMoves ==
    ASSUME Framed, Blank, NEW c \in Clients, Others(c), Rootless(cl'[c]),
           UNCHANGED <<pages, last_index>>
    PROVE  Framed' /\ Blank'
<1>1. ASSUME NEW d \in Clients PROVE Rootless(cl'[d])
  BY DEF Others, Blank
<1> QED
  BY <1>1 DEF Framed, Blank, Others

LEMMA RootlessReturns ==
    ASSUME Framed, Blank, NEW c \in Clients, NEW res, Return(c, res), res # "panic",
           UNCHANGED <<pages, last_index>>
    PROVE  Framed' /\ Blank'
<1> DEFINE r == [pc |-> "done", res |-> res, root |-> 0, at |-> 0, path |-> <<>>, node |-> Zero,
                 right |-> Zero, sep |-> 0, new |-> 0, first |-> FALSE]
<1>1. Step(c, r) /\ DOMAIN cl = Clients
  BY DEF Return, Framed
<1>2. Others(c)
  BY <1>1, StepAlone
<1>3. cl'[c].pc = "done" /\ cl'[c].res = res
  BY <1>1 DEF Step, Idle
<1> QED
  BY <1>2, <1>3, RootlessMoves DEF Rootless

LEMMA BlankCursor ==
    ASSUME Framed, Blank, NEW c \in Clients, Cursor(c)
    PROVE  Framed' /\ Blank'
<1> DEFINE o == cl[c]
<1>1. /\ o.pc \in {"idle", "header", "down", "done"} /\ (o.pc = "down" => o.at = 0)
      /\ (o.kind = "insert" => o.res # "panic")
      /\ DOMAIN cl = Clients
  BY DEF Blank, Rootless, Framed
<1>2. pages[0] = Zero /\ pages[0].type = "zero" /\ DecodeRoot(pages[HEADER_INDEX]) = 0
  BY MaxPagesNat DEF Blank, Indexes, Zero, DecodeRoot, HEADER_INDEX
<1>3. ASSUME NEW kind, NEW k, Begin(c, kind, k)
      PROVE  Framed' /\ Blank'
  <2> DEFINE r == [Idle EXCEPT !.pc = "header", !.kind = kind, !.key = k,
                               !.val = IF kind = "insert" THEN MaxOps + 1 - left.ops ELSE 0,
                               !.seen = ref[k]]
  <2>1. cl' = [cl EXCEPT ![c] = r] /\ UNCHANGED <<pages, last_index>>
    BY <1>3 DEF Begin
  <2>2. Others(c) /\ cl'[c] = r
    BY <1>1, <2>1 DEF Others
  <2>3. r.pc = "header" /\ r.res = "none"
    BY DEF Idle
  <2> QED
    BY <2>1, <2>2, <2>3, RootlessMoves DEF Rootless
<1>4. CASE ReadHeader(c)
  <2>1. Step(c, [pc |-> "down", root |-> 0, at |-> 0]) /\ UNCHANGED <<pages, last_index>>
    BY <1>2, <1>4 DEF ReadHeader
  <2>2. Others(c)
    BY <1>1, <2>1, StepAlone
  <2>3. cl'[c].pc = "down" /\ cl'[c].at = 0 /\ cl'[c].kind = o.kind /\ cl'[c].res = o.res
    BY <1>1, <2>1 DEF Step, Idle
  <2> QED
    BY <1>1, <2>1, <2>2, <2>3, RootlessMoves DEF Rootless
<1>5. CASE Invalid(c)
  BY <1>5, RootlessReturns DEF Invalid
<1>6. CASE Descend(c) \/ FamilyUnderflow(c) \/ ReadLeaf(c)
  <2>1. o.pc = "down" /\ pages[o.at].type \in {"internal", "leaf"}
    BY <1>6 DEF Descend, FamilyUnderflow, ReadLeaf
  <2> QED
    BY <2>1, <1>1, <1>2
<1>7. CASE Fetch(c) \/ Overwrite(c) \/ Place(c) \/ Split(c) \/ Write(c) \/ NewRoot(c) \/ SetRoot(c)
  <2>1. o.pc \in {"value", "place", "split", "write", "root", "set_root"}
    BY <1>7 DEF Fetch, Overwrite, Place, Split, Write, NewRoot, SetRoot
  <2> QED
    BY <2>1, <1>1
<1>8. CASE End(c)
  <2>1. cl' = [cl EXCEPT ![c] = Idle] /\ UNCHANGED <<pages, last_index>>
    BY <1>8 DEF End
  <2>2. Others(c) /\ cl'[c] = Idle
    BY <1>1, <2>1 DEF Others
  <2>3. Idle.pc = "idle" /\ Idle.kind = "none"
    BY DEF Idle
  <2> QED
    BY <2>1, <2>2, <2>3, RootlessMoves DEF Rootless
<1> QED
  BY <1>3, <1>4, <1>5, <1>6, <1>7, <1>8 DEF Cursor

------------------------------------------------------------------------------
(* The invariant, from the first state and over every step.                   *)

LEMMA InitInv == Init => TreeInv
<1> SUFFICES ASSUME Init PROVE TreeInv
  OBVIOUS
<1>1. MaxPages \in Nat /\ MaxPages >= 4 /\ 0 \in Indexes /\ 1 \in Indexes
  BY BoundAssumption DEF MaxPages, Indexes
<1>2. DOMAIN pages = Indexes /\ cl = [c \in Clients |-> Idle] /\ last_index \in {0, 2}
  BY DEF Init
<1>3. Framed
  BY <1>1, <1>2 DEF Framed
<1>4. /\ Idle.pc = "idle" /\ Idle.kind = "none" /\ Idle.key = 0
  BY DEF Idle
<1>5. CASE pages = [i \in Indexes |-> Zero]
  BY <1>2, <1>3, <1>4, <1>5 DEF TreeInv, Blank, Rootless
<1>6. CASE /\ last_index = 2
           /\ pages = [i \in Indexes |-> CASE i = HEADER_INDEX -> Header(1)
                                          [] i = 1 -> Leaf(<<>>, 0, 0)
                                          [] OTHER -> Zero]
  <2>0. PICK low, edge : low = [i \in Indexes |-> 0] /\ edge = {1}
    OBVIOUS
  <2>1. DecodeRoot(pages[HEADER_INDEX]) = 1 /\ pages[1] = Leaf(<<>>, 0, 0)
    BY <1>1, <1>6 DEF HEADER_INDEX, DecodeRoot, Header
  <2> DEFINE n == Leaf(<<>>, 0, 0)
  <2>2. /\ n \in LeafNodes /\ n.type = "leaf" /\ n.keys = <<>>
    BY DEF Leaf, LeafNodes
  <2>3. Len(n.keys) = 0 /\ DOMAIN KeysOf(n) = {}
    BY <2>2 DEF KeysOf
  <2> HIDE DEF n
  <2>4. Ordered(KeysOf(n))
    BY <2>3 DEF Ordered
  <2>5. FitsAt(low, edge, 2, n, 1)
    BY <2>0, <2>2, <2>3 DEF FitsAt, Fits, LeafFits
  <2>6. PagesFit(low, edge)
    BY <1>6, <2>0, <2>1, <2>4, <2>5 DEF PagesFit, n
  <2>7. \A c \in Clients : Local(low, edge, last_index, cl[c])
    BY <1>2, <1>4 DEF Local
  <2> QED
    BY <1>3, <2>6, <2>7 DEF TreeInv, Shaped
<1> QED
  BY <1>5, <1>6 DEF Init

LEMMA ShapedCursor ==
    ASSUME Framed, NEW low, NEW edge, Shaped(low, edge), NEW c \in Clients, Cursor(c), ~mangled'
    PROVE  Framed' /\ \E low2, edge2 : Shaped(low2, edge2)'
<1>1. CASE \E kind \in Kinds, k \in Keys : Begin(c, kind, k)
  BY <1>1, BeginKeeps
<1>2. CASE ReadHeader(c)
  BY <1>2, ReadHeaderKeeps
<1>3. CASE Invalid(c)
  BY <1>3, ReturnKeeps DEF Invalid
<1>4. CASE Descend(c)
  BY <1>4, DescendKeeps
<1>5. CASE FamilyUnderflow(c)
  <2>1. Return(c, "panic") /\ UNCHANGED <<pages, last_index>> /\ cl[c].kind = "delete"
    BY <1>5 DEF FamilyUnderflow
  <2> QED
    BY <2>1, ReturnKeeps
<1>6. CASE ReadLeaf(c)
  BY <1>6, ReadLeafKeeps
<1>7. CASE Fetch(c)
  BY <1>7, FetchKeeps
<1>8. CASE Overwrite(c)
  BY <1>8, OverwriteKeeps
<1>9. CASE Place(c)
  BY <1>9, PlaceKeeps
<1>10. CASE Split(c)
  BY <1>10, SplitKeeps
<1>11. CASE Write(c)
  BY <1>11, WriteKeeps
<1>12. CASE NewRoot(c)
  BY <1>12, NewRootKeeps
<1>13. CASE SetRoot(c)
  BY <1>13, SetRootKeeps
<1>14. CASE End(c)
  BY <1>14, EndKeeps
<1> QED
  BY <1>1, <1>2, <1>3, <1>4, <1>5, <1>6, <1>7, <1>8, <1>9, <1>10, <1>11, <1>12, <1>13, <1>14 DEF Cursor

\* A mangled node is never forgotten.
LEMMA MangledStays == mangled /\ [Next]_vars => mangled'
<1> SUFFICES ASSUME mangled, [Next]_vars PROVE mangled'
  OBVIOUS
<1>1. ASSUME NEW c \in Clients, Cursor(c) PROVE mangled'
  BY <1>1 DEF Cursor, Begin, ReadHeader, Invalid, Descend, FamilyUnderflow, ReadLeaf, Fetch,
              Overwrite, Place, Split, Write, NewRoot, SetRoot, End
<1>2. CASE Initialize \/ Done \/ UNCHANGED vars
  BY <1>2 DEF Initialize, Done, vars
<1> QED
  BY <1>1, <1>2 DEF Next

LEMMA StepInv == TreeInv /\ [Next]_vars => TreeInv'
<1> SUFFICES ASSUME TreeInv, [Next]_vars, ~mangled'
             PROVE  Framed' /\ (Blank' \/ \E low, edge : Shaped(low, edge)')
  BY DEF TreeInv
<1>1. Framed /\ (Blank \/ \E low, edge : Shaped(low, edge))
  BY MangledStays DEF TreeInv
<1>2. CASE \E c \in Clients : Cursor(c)
  <2>1. CASE Blank
    BY <1>1, <1>2, <2>1, BlankCursor
  <2>2. CASE \E low, edge : Shaped(low, edge)
    BY <1>1, <1>2, <2>2, ShapedCursor
  <2> QED
    BY <1>1, <2>1, <2>2
<1>3. CASE Initialize \/ Done \/ UNCHANGED vars
  <2>1. UNCHANGED <<pages, last_index, cl>>
    <3>1. CASE Initialize
      <4>1. DecodeRoot(pages[HEADER_INDEX]) # NotFound
        <5>1. CASE Blank
          BY <5>1, MaxPagesNat DEF Blank, Indexes, Zero, DecodeRoot, HEADER_INDEX, NotFound
        <5>2. CASE \E low, edge : Shaped(low, edge)
          <6>1. PICK low, edge : Shaped(low, edge)
            BY <5>2
          <6>2. DecodeRoot(pages[HEADER_INDEX]) \in 1..last_index - 1
            BY <6>1 DEF Shaped, PagesFit
          <6> QED
            BY <6>2 DEF NotFound
        <5> QED
          BY <1>1, <5>1, <5>2
      <4> QED
        BY <3>1, <4>1 DEF Initialize
    <3>2. CASE Done \/ UNCHANGED vars
      BY <3>2 DEF Done, vars
    <3> QED
      BY <1>3, <3>1, <3>2
  <2>2. Framed'
    BY <1>1, <2>1 DEF Framed
  <2>3. CASE Blank
    BY <2>1, <2>2, <2>3 DEF Blank
  <2>4. ASSUME NEW low, NEW edge, Shaped(low, edge) PROVE Shaped(low, edge)'
    BY <2>1, <2>4 DEF Shaped, PagesFit
  <2> QED
    BY <1>1, <2>2, <2>3, <2>4
<1> QED
  BY <1>2, <1>3 DEF Next

(* As long as no node is mangled, whatever cursors overwrite of each other,  *)
(* every copy of a node, in its page, on a path or under change, has the     *)
(* keys, children and separators its page was made for.                      *)
THEOREM TreeInvariant == Spec => []TreeInv
<1>1. Init => TreeInv
  BY InitInv
<1>2. TreeInv /\ [Next]_vars => TreeInv'
  BY StepInv
<1> QED
  BY <1>1, <1>2, PTL DEF Spec

(* No insertion indexes past the separators of a node, after a split or      *)
(* without one, with any number of cursors under way, unless a node is       *)
(* mangled (cursor.rs, node.keys[i] = k).                                    *)
THEOREM NoInsertPanics == Spec => []InsertNeverPanics
<1>1. TreeInv => InsertNeverPanics
  <2> SUFFICES ASSUME TreeInv, ~mangled, NEW c \in Clients, cl[c].kind = "insert"
               PROVE  cl[c].res # "panic"
    BY DEF InsertNeverPanics
  <2>1. CASE Blank
    BY <2>1 DEF Blank, Rootless
  <2>2. CASE \E low, edge : Shaped(low, edge)
    <3>1. PICK low, edge : Local(low, edge, last_index, cl[c])
      BY <2>2 DEF Shaped
    <3> QED
      BY <3>1 DEF Local
  <2> QED
    BY <2>1, <2>2 DEF TreeInv
<1> QED
  BY <1>1, TreeInvariant, PTL

------------------------------------------------------------------------------
(* The tree as a map.  First what splits and insertions do to a sound node.   *)

Entries(n) == {n.keys[j] : j \in 1..Len(n.keys)}
SoundLeaf(n) == n \in LeafNodes /\ Ordered(KeysOf(n))
SoundInternal(n) ==
    /\ n \in InternalNodes /\ Ordered(KeysOf(n)) /\ Len(n.children) = Len(n.keys) + 1
    /\ \A i, j \in 1..Len(n.children) : n.children[i] = n.children[j] => i = j

LEMMA LeafFacts ==
    ASSUME NEW n, SoundLeaf(n)
    PROVE  /\ AnyNode(n) /\ n.type = "leaf" /\ n.prev \in Nat /\ n.next \in Nat
           /\ n.keys \in Seq([key : Int, page : Nat]) /\ Len(n.keys) \in Nat
           /\ \A i \in 1..Len(n.keys) : /\ n.keys[i] \in [key : Int, page : Nat]
                                        /\ KeyOf(n, i) = n.keys[i].key
           /\ \A i, j \in 1..Len(n.keys) : i < j => n.keys[i].key < n.keys[j].key
           /\ \A k : Holds(n, k) <=> \E e \in Entries(n) : e.key = k
<1>1. /\ AnyNode(n) /\ n.type = "leaf" /\ n.prev \in Nat /\ n.next \in Nat
      /\ n.keys \in Seq([key : Int, page : Nat]) /\ Len(n.keys) \in Nat
  BY DEF SoundLeaf, LeafNodes, AnyNode
<1>2. \A i \in 1..Len(n.keys) : n.keys[i] \in [key : Int, page : Nat]
  BY <1>1, ElementOfSeq
<1>3. \A i \in 1..Len(n.keys) : KeyOf(n, i) = n.keys[i].key
  BY <1>1 DEF KeyOf
<1>4. \A i, j \in 1..Len(n.keys) : i < j => n.keys[i].key < n.keys[j].key
  <2>1. DOMAIN KeysOf(n) = 1..Len(n.keys) /\ \A i \in 1..Len(n.keys) : KeysOf(n)[i] = KeyOf(n, i)
    BY <1>1, KeysTyped
  <2>2. \A i, j \in DOMAIN KeysOf(n) : i < j => KeysOf(n)[i] < KeysOf(n)[j]
    BY DEF SoundLeaf, Ordered
  <2> QED
    BY ONLY <2>1, <2>2, <1>3
<1>5. \A k : Holds(n, k) <=> \E e \in Entries(n) : e.key = k
  BY <1>1, <1>3, KeysTyped DEF Holds, Entries
<1> QED
  BY <1>1, <1>2, <1>3, <1>4, <1>5

LEMMA NodeFacts ==
    ASSUME NEW n, SoundInternal(n)
    PROVE  /\ AnyNode(n) /\ n \in InternalNodes /\ n.type = "internal"
           /\ n.keys \in Seq(Int) /\ Len(n.keys) \in Nat
           /\ n.children \in Seq(Nat) /\ Len(n.children) = Len(n.keys) + 1
           /\ \A i \in 1..Len(n.keys) : n.keys[i] \in Int /\ KeyOf(n, i) = n.keys[i]
           /\ \A i, j \in 1..Len(n.keys) : i < j => n.keys[i] < n.keys[j]
           /\ \A i, j \in 1..Len(n.children) : n.children[i] = n.children[j] => i = j
           /\ \A k : Holds(n, k) <=> k \in Entries(n)
<1>1. /\ AnyNode(n) /\ n.type = "internal" /\ n.keys \in Seq(Int) /\ n.children \in Seq(Nat)
      /\ Len(n.keys) \in Nat /\ n \in InternalNodes
  BY DEF SoundInternal, InternalNodes, AnyNode
<1>2. \A i \in 1..Len(n.keys) : KeyOf(n, i) = n.keys[i]
  BY <1>1 DEF KeyOf
<1>3. \A i, j \in 1..Len(n.keys) : i < j => n.keys[i] < n.keys[j]
  BY <1>1, <1>2, KeysTyped DEF SoundInternal, Ordered
<1>4. \A k : Holds(n, k) <=> k \in Entries(n)
  BY <1>1, <1>2, KeysTyped DEF Holds, Entries
<1>5. \A i \in 1..Len(n.keys) : n.keys[i] \in Int
  BY <1>1
<1> QED
  BY <1>1, <1>2, <1>3, <1>4, <1>5 DEF SoundInternal

\* The converses: a leaf and an internal node from their parts.
LEMMA LeafSound ==
    ASSUME NEW s \in Seq([key : Int, page : Nat]), NEW prev \in Nat, NEW next \in Nat,
           \A i, j \in 1..Len(s) : i < j => s[i].key < s[j].key
    PROVE  /\ SoundLeaf(Leaf(s, prev, next)) /\ Leaf(s, prev, next).keys = s
           /\ Leaf(s, prev, next).next = next
<1> DEFINE n == Leaf(s, prev, next)
<1>1. n \in LeafNodes /\ AnyNode(n) /\ n.keys = s /\ n.type = "leaf" /\ n.next = next
  BY DEF Leaf, LeafNodes, AnyNode
<1> HIDE DEF n
<1>2. \A i \in 1..Len(s) : KeyOf(n, i) = s[i].key
  BY <1>1 DEF KeyOf
<1>3. Ordered(KeysOf(n))
  <2>1. DOMAIN KeysOf(n) = 1..Len(s) /\ \A i \in 1..Len(s) : KeysOf(n)[i] = s[i].key
    BY <1>1, <1>2, KeysTyped
  <2> QED
    BY <2>1 DEF Ordered
<1> QED
  BY <1>1, <1>3 DEF SoundLeaf, n

LEMMA NodeSound ==
    ASSUME NEW s \in Seq(Int), NEW ch \in Seq(Nat), Len(ch) = Len(s) + 1,
           \A i, j \in 1..Len(s) : i < j => s[i] < s[j],
           \A i, j \in 1..Len(ch) : ch[i] = ch[j] => i = j
    PROVE  SoundInternal(Internal(s, ch)) /\ Internal(s, ch).keys = s /\ Internal(s, ch).children = ch
<1> DEFINE n == Internal(s, ch)
<1>1. n \in InternalNodes /\ AnyNode(n) /\ n.keys = s /\ n.children = ch /\ n.type = "internal"
  BY DEF Internal, InternalNodes, AnyNode
<1> HIDE DEF n
<1>2. \A i \in 1..Len(s) : KeyOf(n, i) = s[i]
  BY <1>1 DEF KeyOf
<1>3. Ordered(KeysOf(n))
  <2>1. DOMAIN KeysOf(n) = 1..Len(s) /\ \A i \in 1..Len(s) : KeysOf(n)[i] = s[i]
    BY <1>1, <1>2, KeysTyped
  <2> QED
    BY <2>1 DEF Ordered
<1> QED
  BY <1>1, <1>3 DEF SoundInternal, n

\* The child a key belongs to: the separators before it are those up to the key.
IsChildOf(n, k, c) ==
    c \in 1..Len(n.keys) + 1 /\ \A i \in 1..Len(n.keys) : n.keys[i] <= k <=> i < c

LEMMA ChildPosIs ==
    ASSUME NEW n, SoundInternal(n), NEW k \in Int
    PROVE  /\ IsChildOf(n, k, ChildPos(n, k))
           /\ ~Holds(n, k) => ChildPos(n, k) = Below(n, k) + 1
<1> DEFINE L == Len(n.keys)
           m == Below(n, k)
<1>1. /\ L \in Nat /\ AnyNode(n) /\ Ordered(KeysOf(n))
      /\ \A i \in 1..L : n.keys[i] \in Int /\ KeyOf(n, i) = n.keys[i]
      /\ \A i, j \in 1..L : i < j => n.keys[i] < n.keys[j]
  BY NodeFacts DEF SoundInternal
<1>2. m \in 0..L /\ \A i \in 1..L : n.keys[i] < k <=> i <= m
  BY <1>1, BelowCuts
<1>3. Holds(n, k) <=> \E i \in 1..L : n.keys[i] = k
  BY <1>1, KeysTyped DEF Holds
<1> HIDE DEF L, m
<1>4. CASE Holds(n, k)
  <2>1. PICK i \in 1..L : n.keys[i] = k
    BY <1>3, <1>4
  <2>2. ~(i <= m)
    BY <2>1, <1>1, <1>2
  <2>3. ~(m + 1 < i)
    <3>1. SUFFICES ASSUME m + 1 < i PROVE FALSE
      OBVIOUS
    <3>2. m + 1 \in 1..L /\ ~(m + 1 <= m)
      BY <3>1, <2>1, <1>1, <1>2
    <3>3. n.keys[m + 1] < n.keys[i] /\ ~(n.keys[m + 1] < k)
      BY <3>1, <3>2, <2>1, <1>1, <1>2
    <3> QED
      BY <3>3, <2>1
  <2>4. i = m + 1
    BY <2>2, <2>3, <1>1, <1>2
  <2>5. ChildPos(n, k) = m + 2
    BY <1>4, <1>2 DEF ChildPos, m
  <2>6. ASSUME NEW j \in 1..L PROVE n.keys[j] <= k <=> j < m + 2
    <3>1. CASE j <= m
      <4>1. n.keys[j] < k
        BY <3>1, <1>2
      <4> QED
        BY <4>1, <3>1, <1>1, <1>2
    <3>2. CASE j = m + 1
      BY <3>2, <2>1, <2>4, <1>1, <1>2
    <3>3. CASE j > m + 1
      <4>1. n.keys[i] < n.keys[j]
        BY <3>3, <2>4, <1>1
      <4> QED
        BY <4>1, <3>3, <2>1, <1>1, <1>2
    <3> QED
      BY <3>1, <3>2, <3>3, <1>2
  <2>7. m + 2 \in 1..L + 1
    BY <2>1, <2>4, <1>1, <1>2
  <2> QED
    BY <1>4, <2>5, <2>6, <2>7 DEF IsChildOf, L
<1>5. CASE ~Holds(n, k)
  <2>1. ChildPos(n, k) = m + 1
    BY <1>5, <1>2 DEF ChildPos, m
  <2>2. ASSUME NEW j \in 1..L PROVE n.keys[j] <= k <=> j < m + 1
    <3>1. n.keys[j] # k /\ n.keys[j] \in Int /\ (n.keys[j] < k <=> j <= m)
      BY <1>1, <1>2, <1>3, <1>5
    <3> QED
      BY <3>1, <1>2
  <2>3. m + 1 \in 1..L + 1
    BY <1>1, <1>2
  <2> QED
    BY <1>5, <2>1, <2>2, <2>3 DEF IsChildOf, L, m
<1> QED
  BY <1>4, <1>5

LEMMA ChildPosOnly ==
    ASSUME NEW n, SoundInternal(n), NEW k \in Int, NEW c, IsChildOf(n, k, c)
    PROVE  ChildPos(n, k) = c
<1> DEFINE L == Len(n.keys)
           d == ChildPos(n, k)
<1>1. L \in Nat /\ IsChildOf(n, k, d)
  BY NodeFacts, ChildPosIs
<1> HIDE DEF d, L
<1>2. c \in 1..L + 1 /\ d \in 1..L + 1 /\ \A i \in 1..L : i < c <=> i < d
  BY <1>1 DEF IsChildOf, L
<1>3. c = d
  <2>1. CASE c < d
    BY <2>1, <1>1, <1>2
  <2>2. CASE d < c
    BY <2>2, <1>1, <1>2
  <2> QED
    BY <2>1, <2>2, <1>1, <1>2
<1> QED
  BY <1>3 DEF d

LeftOf(m, new) == IF m.type = "leaf" THEN [LeafLeft(m) EXCEPT !.next = new] ELSE InternalLeft(m)
RightOf(m, at) == IF m.type = "leaf" THEN LeafRight(m, at) ELSE InternalRight(m)
SepOf(m) == KeyOf(m, Half(Len(m.keys)) + 1)

\* A key new to a leaf, in its place.
LEMMA LeafGrows ==
    ASSUME NEW n, SoundLeaf(n), NEW key \in Int, ~Holds(n, key), NEW page \in Nat,
           NEW m, m = WithKey(n, Below(n, key) + 1, key, page)
    PROVE  /\ SoundLeaf(m) /\ Entries(m) = Entries(n) \cup {[key |-> key, page |-> page]}
           /\ Len(m.keys) = Len(n.keys) + 1 /\ m.next = n.next
<1> DEFINE L == Len(n.keys)
           s == Below(n, key) + 1
           e == [key |-> key, page |-> page]
           q == InsertedAt(n.keys, s, e)
           X == [key : Int, page : Nat]
<1>1. /\ n.keys \in Seq(X) /\ L \in Nat /\ n.prev \in Nat /\ n.next \in Nat /\ n \in LeafNodes
      /\ \A i \in 1..L : n.keys[i].key \in Int /\ KeyOf(n, i) = n.keys[i].key
      /\ \A i, j \in 1..L : i < j => n.keys[i].key < n.keys[j].key
      /\ \A k : Holds(n, k) <=> \E x \in Entries(n) : x.key = k
  BY LeafFacts DEF SoundLeaf
<1>2. /\ Below(n, key) \in 0..L
      /\ \A i \in 1..L : KeyOf(n, i) < key <=> i <= Below(n, key)
  BY LeafFacts, BelowCuts DEF SoundLeaf
<1>3. \A i \in 1..L : n.keys[i].key # key
  BY <1>1 DEF Entries
<1>4. m = Leaf(q, n.prev, n.next)
  BY <1>1, LeafChanged DEF WithKey
<1>5. e \in X /\ e.key = key
  OBVIOUS
<1> HIDE DEF e
<1>6. s \in 1..L + 1 /\ \A i \in 1..L : n.keys[i].key < key <=> i < s
  <2>1. s \in 1..L + 1 /\ \A i \in 1..L : i < s <=> i <= Below(n, key)
    BY <1>1, <1>2
  <2>2. \A i \in 1..L : n.keys[i].key < key <=> i <= Below(n, key)
    BY <1>1, <1>2
  <2> QED
    BY <2>1, <2>2
<1>7. Insertion(X, q, n.keys, s, e)
  BY <1>1, <1>5, <1>6, Inserted
<1> HIDE DEF L, s, q, X
<1>8. /\ q \in Seq(X) /\ Len(q) = L + 1 /\ \A j \in 1..s - 1 : q[j] = n.keys[j]
      /\ q[s] = e /\ \A j \in s..L : q[j + 1] = n.keys[j]
  BY <1>7 DEF Insertion, L
<1>9. \A j \in 1..L + 1 : \/ j \in 1..s - 1 /\ j \in 1..L /\ q[j] = n.keys[j]
                          \/ j = s /\ q[j] = e
                          \/ j > s /\ j - 1 \in s..L /\ j - 1 \in 1..L /\ q[j] = n.keys[j - 1]
  <2>1. ASSUME NEW j \in 1..L + 1, j > s
        PROVE  j - 1 \in s..L /\ j - 1 \in 1..L /\ (j - 1) + 1 = j
    BY <2>1, <1>6, <1>1 DEF L
  <2>2. \A j \in 1..L + 1 : j > s => q[j] = n.keys[j - 1]
    <3>1. ASSUME NEW j \in 1..L + 1, j > s PROVE q[j] = n.keys[j - 1]
      <4>1. q[(j - 1) + 1] = n.keys[j - 1]
        BY <3>1, <2>1, <1>8
      <4> QED
        BY <4>1, <3>1, <2>1
    <3> QED
      BY <3>1
  <2>3. \A j \in 1..L + 1 : j \in 1..s - 1 \/ j = s \/ j > s
    BY <1>6, <1>1 DEF L
  <2>4. \A j \in 1..s - 1 : j \in 1..L
    BY <1>6, <1>1 DEF L
  <2> QED
    BY <2>1, <2>2, <2>3, <2>4, <1>8
<1>10. ASSUME NEW i \in 1..L + 1, NEW j \in 1..L + 1, i < j PROVE q[i].key < q[j].key
  <2>1. CASE i \in 1..s - 1 /\ q[i] = n.keys[i] /\ i \in 1..L
    <3>1. CASE j \in 1..s - 1 /\ q[j] = n.keys[j] /\ j \in 1..L
      BY <2>1, <3>1, <1>10, <1>1 DEF L
    <3>2. CASE j = s /\ q[j] = e
      BY <2>1, <3>2, <1>6, <1>5
    <3>3. CASE j > s /\ j - 1 \in 1..L /\ q[j] = n.keys[j - 1]
      <4>1. i < j - 1
        BY <2>1, <3>3, <1>6
      <4> QED
        BY <4>1, <2>1, <3>3, <1>1 DEF L
    <3> QED
      BY <3>1, <3>2, <3>3, <1>9
  <2>2. CASE i = s /\ q[i] = e
    <3>1. j > s /\ j - 1 \in s..L /\ j - 1 \in 1..L /\ q[j] = n.keys[j - 1]
      <4>1. j > s /\ ~(j \in 1..s - 1)
        BY <2>2, <1>10, <1>6
      <4> QED
        BY <4>1, <1>9, <1>6
    <3>2. ~(n.keys[j - 1].key < key)
      BY <3>1, <1>6
    <3>3. n.keys[j - 1].key \in Int /\ n.keys[j - 1].key # key
      BY <3>1, <1>1, <1>3 DEF L
    <3> QED
      BY <3>1, <3>2, <3>3, <2>2, <1>5
  <2>3. CASE i > s /\ i - 1 \in 1..L /\ q[i] = n.keys[i - 1]
    <3>1. j > s /\ j - 1 \in 1..L /\ q[j] = n.keys[j - 1]
      <4>1. j > s /\ ~(j \in 1..s - 1)
        BY <2>3, <1>10, <1>6
      <4> QED
        BY <4>1, <1>9, <1>6
    <3>2. i - 1 < j - 1
      BY <1>10
    <3> QED
      BY <3>1, <3>2, <2>3, <1>1 DEF L
  <2> QED
    BY <2>1, <2>2, <2>3, <1>9
<1>11. SoundLeaf(m) /\ m.keys = q /\ m.next = n.next
  <2>1. q \in Seq([key : Int, page : Nat]) /\ \A i, j \in 1..Len(q) : i < j => q[i].key < q[j].key
    BY <1>8, <1>10 DEF X
  <2> QED
    BY <2>1, <1>1, <1>4, LeafSound
<1>12. {q[j] : j \in 1..L + 1} = {n.keys[j] : j \in 1..L} \cup {e}
  <2>1. \A j \in 1..L + 1 : q[j] \in {n.keys[i] : i \in 1..L} \cup {e}
    BY <1>9
  <2>2. e \in {q[j] : j \in 1..L + 1}
    BY <1>6, <1>8
  <2>3. ASSUME NEW j \in 1..L PROVE n.keys[j] \in {q[i] : i \in 1..L + 1}
    <3>1. CASE j \in 1..s - 1
      <4>1. j \in 1..L + 1
        BY <1>1 DEF L
      <4> QED
        BY <4>1, <3>1, <1>8
    <3>2. CASE j \in s..L
      <4>1. j + 1 \in 1..L + 1
        BY <1>1 DEF L
      <4> QED
        BY <4>1, <3>2, <1>8
    <3>3. j \in 1..s - 1 \/ j \in s..L
      BY <1>6, <1>1 DEF L
    <3> QED
      BY <3>1, <3>2, <3>3
  <2> QED
    BY <2>1, <2>2, <2>3
<1> QED
  BY <1>8, <1>11, <1>12 DEF Entries, L, e

\* The halves of an ordered sequence, at a cut that leaves an element on each side.
LEMMA LeafHalves ==
    ASSUME NEW m, SoundLeaf(m), Len(m.keys) >= 3, NEW new \in Nat, NEW at \in Nat,
           NEW p, p = LeftOf(m, new), NEW r, r = RightOf(m, at), NEW s, s = SepOf(m)
    PROVE  /\ s \in Int /\ (\E e \in Entries(m) : e.key = s) /\ (\E e \in Entries(m) : e.key < s)
           /\ SoundLeaf(p) /\ Entries(p) = {e \in Entries(m) : e.key < s} /\ p.next = new
           /\ SoundLeaf(r) /\ Entries(r) = {e \in Entries(m) : s <= e.key} /\ r.next = m.next
           /\ Len(p.keys) = Half(Len(m.keys)) /\ Len(r.keys) = Len(m.keys) - Half(Len(m.keys))
<1> DEFINE L == Len(m.keys)
           h == Half(L)
           X == [key : Int, page : Nat]
           pk == UpTo(m.keys, h)
           rk == From(m.keys, h + 1)
<1>1. /\ m.keys \in Seq(X) /\ L \in Nat /\ m.prev \in Nat /\ m.next \in Nat /\ m.type = "leaf"
      /\ \A i \in 1..L : m.keys[i] \in X /\ m.keys[i].key \in Int /\ KeyOf(m, i) = m.keys[i].key
      /\ \A i, j \in 1..L : i < j => m.keys[i].key < m.keys[j].key
  BY LeafFacts
<1>2. h \in 2..L - 1
  BY <1>1, HalfBounds
<1>3. LeafLeft(m) = Leaf(pk, m.prev, 0) /\ LeafRight(m, at) = Leaf(rk, at, m.next)
  BY DEF LeafLeft, LeafRight
<1> HIDE DEF h
<1>4. /\ pk \in Seq(X) /\ Len(pk) = h /\ \A j \in 1..h : pk[j] = m.keys[j]
  <2>1. h \in 0..Len(m.keys)
    BY <1>1, <1>2
  <2> QED
    BY <1>1, <2>1, Cut
<1>5. /\ rk \in Seq(X) /\ Len(rk) = L - h /\ \A j \in 1..L - h : rk[j] = m.keys[h + j]
  <2>1. h + 1 \in 1..Len(m.keys) + 1 /\ L - (h + 1) + 1 = L - h
    BY <1>1, <1>2
  <2>2. rk \in Seq(X) /\ Len(rk) = L - (h + 1) + 1 /\ \A j \in 1..L - (h + 1) + 1 : rk[j] = m.keys[h + 1 + j - 1]
    <3>1. m.keys \in Seq(X)
      BY <1>1
    <3>2. /\ rk \in Seq(X) /\ Len(rk) = Len(m.keys) - (h + 1) + 1
          /\ \A j \in 1..Len(m.keys) - (h + 1) + 1 : rk[j] = m.keys[h + 1 + j - 1]
      BY ONLY <2>1, <3>1, CutRest
    <3> QED
      BY ONLY <3>2
  <2>3. ASSUME NEW j \in 1..L - h PROVE rk[j] = m.keys[h + j]
    <3>1. j \in 1..L - (h + 1) + 1 /\ h + 1 + j - 1 = h + j
      BY <1>1, <1>2
    <3> QED
      BY <2>2, <3>1
  <2> QED
    BY <2>1, <2>2, <2>3
<1> HIDE DEF L, X, pk, rk
<1>6. s = m.keys[h + 1].key /\ s \in Int
  <2>1. h + 1 \in 1..L
    BY <1>1, <1>2
  <2> QED
    BY <2>1, <1>1 DEF SepOf, h, L
<1>7. p = Leaf(pk, m.prev, new) /\ r = Leaf(rk, at, m.next)
  <2>1. LeftOf(m, new) = [Leaf(pk, m.prev, 0) EXCEPT !.next = new]
    BY <1>1, <1>3 DEF LeftOf
  <2>2. [Leaf(pk, m.prev, 0) EXCEPT !.next = new] = Leaf(pk, m.prev, new)
    BY DEF Leaf
  <2>3. RightOf(m, at) = Leaf(rk, at, m.next)
    BY <1>1, <1>3 DEF RightOf
  <2> QED
    BY <2>1, <2>2, <2>3
<1>8. \A i, j \in 1..Len(pk) : i < j => pk[i].key < pk[j].key
  <2>1. \A i \in 1..h : i \in 1..L
    BY <1>1, <1>2
  <2> QED
    BY <2>1, <1>1, <1>4
<1>9. ASSUME NEW i \in 1..L - h, NEW j \in 1..L - h, i < j PROVE rk[i].key < rk[j].key
  <2>1. h + i \in 1..L /\ h + j \in 1..L /\ h + i < h + j
    BY <1>9, <1>1, <1>2
  <2> QED
    BY <2>1, <1>1, <1>5
<1>10. SoundLeaf(p) /\ p.keys = pk /\ p.next = new
  <2>1. pk \in Seq([key : Int, page : Nat])
    BY <1>4 DEF X
  <2> QED
    BY <2>1, <1>1, <1>7, <1>8, LeafSound
<1>11. SoundLeaf(r) /\ r.keys = rk /\ r.next = m.next
  <2>1. rk \in Seq([key : Int, page : Nat]) /\ \A i, j \in 1..Len(rk) : i < j => rk[i].key < rk[j].key
    BY <1>5, <1>9 DEF X
  <2> QED
    BY <2>1, <1>1, <1>7, LeafSound
<1>12. \A i \in 1..L : m.keys[i].key < s <=> i <= h
  <2>1. ASSUME NEW i \in 1..L, i <= h PROVE m.keys[i].key < s
    <3>1. i < h + 1 /\ h + 1 \in 1..L
      BY <2>1, <1>1, <1>2
    <3> QED
      BY <3>1, <1>1, <1>6
  <2>2. ASSUME NEW i \in 1..L, ~(i <= h) PROVE ~(m.keys[i].key < s)
    <3>1. h + 1 \in 1..L /\ (i = h + 1 \/ h + 1 < i)
      BY <2>2, <1>1, <1>2
    <3>2. CASE h + 1 < i
      <4>1. s < m.keys[i].key /\ m.keys[i].key \in Int
        BY <3>1, <3>2, <1>1, <1>6
      <4> QED
        BY <4>1, <1>6
    <3> QED
      BY <3>1, <3>2, <1>6
  <2> QED
    BY <2>1, <2>2
<1>13. Entries(p) = {e \in Entries(m) : e.key < s}
  <2>1. \A j \in 1..h : j \in 1..L /\ pk[j] = m.keys[j] /\ j <= h
    BY <1>1, <1>2, <1>4
  <2>2. \A j \in 1..L : j <= h => j \in 1..h
    BY <1>2
  <2> QED
    BY <2>1, <2>2, <1>4, <1>10, <1>12 DEF Entries, L
<1>14. Entries(r) = {e \in Entries(m) : s <= e.key}
  <2>1. \A j \in 1..L : s <= m.keys[j].key <=> ~(j <= h)
    BY <1>1, <1>6, <1>12
  <2>2. \A j \in 1..L - h : h + j \in 1..L /\ rk[j] = m.keys[h + j] /\ ~(h + j <= h)
    BY <1>1, <1>2, <1>5
  <2>3. ASSUME NEW j \in 1..L, ~(j <= h) PROVE \E i \in 1..L - h : rk[i] = m.keys[j]
    <3>1. j - h \in 1..L - h /\ h + (j - h) = j
      BY <2>3, <1>1, <1>2
    <3> QED
      BY <3>1, <1>5
  <2>4. Entries(r) = {rk[j] : j \in 1..L - h} /\ Entries(m) = {m.keys[j] : j \in 1..L}
    BY <1>5, <1>11 DEF Entries, L
  <2>5. ASSUME NEW e \in Entries(r) PROVE e \in Entries(m) /\ s <= e.key
    <3>1. PICK j \in 1..L - h : e = rk[j]
      BY <2>4
    <3> QED
      BY <3>1, <2>1, <2>2, <2>4
  <2>6. ASSUME NEW e \in Entries(m), s <= e.key PROVE e \in Entries(r)
    <3>1. PICK j \in 1..L : e = m.keys[j]
      BY <2>4
    <3> QED
      BY <3>1, <2>1, <2>3, <2>4, <2>6
  <2> QED
    BY <2>5, <2>6
<1>15. (\E e \in Entries(m) : e.key = s) /\ (\E e \in Entries(m) : e.key < s)
  <2>1. h + 1 \in 1..L /\ 1 \in 1..L /\ 1 <= h
    BY <1>1, <1>2
  <2> QED
    BY <2>1, <1>6, <1>12 DEF Entries, L
<1> QED
  BY <1>4, <1>5, <1>6, <1>10, <1>11, <1>13, <1>14, <1>15 DEF h, L

\* What a node becomes when the child at a position splits at s.
GrownBy(n, m, pos, s, new) ==
    /\ SoundInternal(m) /\ Entries(m) = Entries(n) \cup {s} /\ Len(m.keys) = Len(n.keys) + 1
    /\ pos \in 1..Len(n.keys) + 1
    /\ \A q \in Int :
         /\ ChildPos(n, q) < pos => ChildPos(m, q) = ChildPos(n, q)
         /\ ChildPos(n, q) = pos => ChildPos(m, q) = IF s <= q THEN pos + 1 ELSE pos
         /\ ChildPos(n, q) > pos => ChildPos(m, q) = ChildPos(n, q) + 1
         /\ m.children[ChildPos(m, q)] =
               IF ChildPos(n, q) = pos /\ s <= q THEN new ELSE n.children[ChildPos(n, q)]

\* A new child, to the right of the one that was split.
LEMMA NodeGrows ==
    ASSUME NEW n, SoundInternal(n), NEW s \in Int, NEW a \in Int, a < s,
           NEW pos, pos = ChildPos(n, s), pos = ChildPos(n, a), ~Holds(n, s),
           NEW new \in Nat, \A j \in 1..Len(n.children) : n.children[j] # new,
           NEW key, NEW m, m = WithChild(n, pos, s, new, FALSE, key)
    PROVE  GrownBy(n, m, pos, s, new)
<1> DEFINE L == Len(n.keys)
           mk == InsertedAt(n.keys, pos, s)
           mc == InsertedAt(n.children, pos + 1, new)
<1>1. /\ n.keys \in Seq(Int) /\ L \in Nat /\ n.children \in Seq(Nat) /\ Len(n.children) = L + 1
      /\ \A i \in 1..L : n.keys[i] \in Int
      /\ \A i, j \in 1..L : i < j => n.keys[i] < n.keys[j]
      /\ \A i, j \in 1..L + 1 : n.children[i] = n.children[j] => i = j
  BY NodeFacts
<1>2. m = Internal(mk, mc)
  BY DEF WithChild
<1>3. IsChildOf(n, s, pos) /\ IsChildOf(n, a, pos)
  BY ChildPosIs
<1>4. /\ pos \in 1..L + 1
      /\ \A i \in 1..L : n.keys[i] <= s <=> i < pos
      /\ \A i \in 1..L : n.keys[i] <= a <=> i < pos
  BY ONLY <1>1, <1>3 DEF IsChildOf
<1>5. \A i \in 1..L : IF i < pos THEN n.keys[i] < s ELSE s < n.keys[i]
  BY <1>1, <1>4
<1>6. Insertion(Int, mk, n.keys, pos, s)
  <2>1. pos \in 1..Len(n.keys) + 1
    BY <1>4
  <2> QED
    BY <1>1, <2>1, Inserted
<1>7. Insertion(Nat, mc, n.children, pos + 1, new)
  <2>1. pos + 1 \in 1..Len(n.children) + 1
    BY <1>1, <1>4
  <2> QED
    BY <1>1, <2>1, Inserted
<1>0. mk \in Seq(Int) /\ Len(mk) = L + 1 /\ mc \in Seq(Nat) /\ Len(mc) = L + 1 + 1
  BY <1>1, <1>6, <1>7 DEF Insertion
<1>8. /\ \A j \in 1..pos - 1 : mk[j] = n.keys[j]
      /\ mk[pos] = s
      /\ \A j \in pos..L : mk[j + 1] = n.keys[j]
  BY <1>6 DEF Insertion
<1> HIDE DEF L, mk, mc
<1>9. /\ \A j \in 1..pos : mc[j] = n.children[j]
      /\ mc[pos + 1] = new
      /\ \A j \in pos + 1..L + 1 : mc[j + 1] = n.children[j]
  <2>1. pos + 1 - 1 = pos
    BY <1>4
  <2>2. \A j \in 1..pos : mc[j] = n.children[j]
    BY <2>1, <1>4, <1>7 DEF Insertion
  <2>3. mc[pos + 1] = new
    BY <1>7 DEF Insertion
  <2>4. \A j \in pos + 1..L + 1 : mc[j + 1] = n.children[j]
    BY <1>1, <1>7 DEF Insertion, L
  <2> QED
    BY <2>1, <2>2, <2>3, <2>4
<1>10. L = Len(n.keys) /\ L \in Nat
  BY <1>1 DEF L
<1>11. \A j \in 1..L + 1 : \/ j \in 1..L /\ j < pos /\ mk[j] = n.keys[j]
                           \/ j = pos /\ mk[j] = s
                           \/ j > pos /\ j - 1 \in 1..L /\ ~(j - 1 < pos) /\ mk[j] = n.keys[j - 1]
  <2>1. ASSUME NEW j \in 1..L + 1, j > pos
        PROVE  j - 1 \in 1..L /\ ~(j - 1 < pos) /\ mk[j] = n.keys[j - 1]
    <3>1. j - 1 \in pos..L /\ j - 1 \in 1..L /\ (j - 1) + 1 = j /\ ~(j - 1 < pos)
      BY <2>1, <1>4, <1>10
    <3>2. mk[(j - 1) + 1] = n.keys[j - 1]
      BY <3>1, <1>8
    <3> QED
      BY <3>1, <3>2
  <2>2. ASSUME NEW j \in 1..L + 1, j < pos PROVE j \in 1..L /\ mk[j] = n.keys[j]
    <3>1. j \in 1..pos - 1 /\ j \in 1..L
      BY <2>2, <1>4, <1>10
    <3> QED
      BY <3>1, <1>8
  <2>3. \A j \in 1..L + 1 : j < pos \/ j = pos \/ j > pos
    BY <1>4
  <2> QED
    BY <2>1, <2>2, <2>3, <1>8
<1>12. \A j \in 1..L + 2 : \/ j \in 1..L + 1 /\ j <= pos /\ mc[j] = n.children[j]
                           \/ j = pos + 1 /\ mc[j] = new
                           \/ j > pos + 1 /\ j - 1 \in 1..L + 1 /\ mc[j] = n.children[j - 1]
  <2>1. ASSUME NEW j \in 1..L + 2, j > pos + 1
        PROVE  j - 1 \in 1..L + 1 /\ mc[j] = n.children[j - 1]
    <3>1. j - 1 \in pos + 1..L + 1 /\ j - 1 \in 1..L + 1 /\ (j - 1) + 1 = j
      BY <2>1, <1>4, <1>10
    <3>2. mc[(j - 1) + 1] = n.children[j - 1]
      BY <3>1, <1>9
    <3> QED
      BY <3>1, <3>2
  <2>2. ASSUME NEW j \in 1..L + 2, j <= pos PROVE j \in 1..L + 1 /\ mc[j] = n.children[j]
    <3>1. j \in 1..pos /\ j \in 1..L + 1
      BY <2>2, <1>4, <1>10
    <3> QED
      BY <3>1, <1>9
  <2>3. \A j \in 1..L + 2 : j <= pos \/ j = pos + 1 \/ j > pos + 1
    BY <1>4
  <2> QED
    BY <2>1, <2>2, <2>3, <1>9
<1>13. ASSUME NEW i \in 1..L + 1, NEW j \in 1..L + 1, i < j PROVE mk[i] < mk[j]
  <2>1. CASE i < pos /\ i \in 1..L /\ mk[i] = n.keys[i]
    <3>1. CASE j \in 1..L /\ mk[j] = n.keys[j]
      BY <2>1, <3>1, <1>13, <1>1 DEF L
    <3>2. CASE j = pos /\ mk[j] = s
      BY <2>1, <3>2, <1>5
    <3>3. CASE j > pos /\ j - 1 \in 1..L /\ mk[j] = n.keys[j - 1]
      <4>1. i < j - 1
        BY <2>1, <3>3, <1>4
      <4> QED
        BY <4>1, <2>1, <3>3, <1>1 DEF L
    <3> QED
      BY <3>1, <3>2, <3>3, <1>11
  <2>2. CASE i = pos /\ mk[i] = s
    <3>1. j > pos /\ j - 1 \in 1..L /\ ~(j - 1 < pos) /\ mk[j] = n.keys[j - 1]
      BY <2>2, <1>13, <1>11, <1>4
    <3> QED
      BY <3>1, <2>2, <1>5
  <2>3. CASE i > pos /\ i - 1 \in 1..L /\ mk[i] = n.keys[i - 1]
    <3>1. j > pos /\ j - 1 \in 1..L /\ mk[j] = n.keys[j - 1]
      <4>1. ~(j < pos) /\ j # pos
        BY <2>3, <1>13, <1>4
      <4> QED
        BY <4>1, <1>11
    <3>2. i - 1 < j - 1
      BY <1>13
    <3> QED
      BY <3>1, <3>2, <2>3, <1>1 DEF L
  <2> QED
    BY <2>1, <2>2, <2>3, <1>11
<1>14. ASSUME NEW i \in 1..L + 2, NEW j \in 1..L + 2, mc[i] = mc[j] PROVE i = j
  <2>0. \A k \in 1..L + 1 : n.children[k] # new
    BY <1>1 DEF L
  <2>1. CASE i \in 1..L + 1 /\ i <= pos /\ mc[i] = n.children[i]
    <3>1. CASE j \in 1..L + 1 /\ j <= pos /\ mc[j] = n.children[j]
      BY <2>1, <3>1, <1>14, <1>1 DEF L
    <3>2. CASE j = pos + 1 /\ mc[j] = new
      BY <2>0, <2>1, <3>2, <1>14
    <3>3. CASE j > pos + 1 /\ j - 1 \in 1..L + 1 /\ mc[j] = n.children[j - 1]
      <4>1. i = j - 1
        BY <2>1, <3>3, <1>14, <1>1 DEF L
      <4> QED
        BY <4>1, <2>1, <3>3, <1>4
    <3> QED
      BY <3>1, <3>2, <3>3, <1>12
  <2>2. CASE i = pos + 1 /\ mc[i] = new
    BY <2>0, <2>2, <1>12, <1>14
  <2>3. CASE i > pos + 1 /\ i - 1 \in 1..L + 1 /\ mc[i] = n.children[i - 1]
    <3>1. CASE j \in 1..L + 1 /\ j <= pos /\ mc[j] = n.children[j]
      <4>1. i - 1 = j
        BY <2>3, <3>1, <1>14, <1>1 DEF L
      <4> QED
        BY <4>1, <2>3, <3>1, <1>4
    <3>2. CASE j = pos + 1 /\ mc[j] = new
      BY <2>0, <2>3, <3>2, <1>14
    <3>3. CASE j > pos + 1 /\ j - 1 \in 1..L + 1 /\ mc[j] = n.children[j - 1]
      <4>1. i - 1 = j - 1
        BY <2>3, <3>3, <1>14, <1>1 DEF L
      <4> QED
        BY <4>1
    <3> QED
      BY <3>1, <3>2, <3>3, <1>12
  <2> QED
    BY <2>1, <2>2, <2>3, <1>12
<1>15. SoundInternal(m) /\ m.keys = mk /\ m.children = mc
  <2>1. L + 1 + 1 = L + 2 /\ Len(mc) = Len(mk) + 1
    BY <1>0, <1>10
  <2>2. /\ \A i, j \in 1..Len(mk) : i < j => mk[i] < mk[j]
        /\ \A i, j \in 1..Len(mc) : mc[i] = mc[j] => i = j
    BY <1>0, <1>13, <1>14, <2>1
  <2>3. SoundInternal(Internal(mk, mc)) /\ Internal(mk, mc).keys = mk /\ Internal(mk, mc).children = mc
    BY <2>1, <2>2, <1>0, NodeSound
  <2> QED
    BY <2>3, <1>2
<1>16. Entries(m) = Entries(n) \cup {s}
  <2>1. Entries(m) = {mk[j] : j \in 1..L + 1} /\ Entries(n) = {n.keys[j] : j \in 1..L}
    BY <1>0, <1>15 DEF Entries, L
  <2>2. \A j \in 1..L + 1 : mk[j] \in Entries(n) \cup {s}
    BY <1>11, <2>1
  <2>3. s \in Entries(m)
    BY <1>4, <1>8, <2>1
  <2>4. ASSUME NEW j \in 1..L PROVE n.keys[j] \in Entries(m)
    <3>1. CASE j \in 1..pos - 1
      <4>1. j \in 1..L + 1
        BY <1>10
      <4> QED
        BY <4>1, <3>1, <1>8, <2>1
    <3>2. CASE j \in pos..L
      <4>1. j + 1 \in 1..L + 1
        BY <1>10
      <4> QED
        BY <4>1, <3>2, <1>8, <2>1
    <3>3. j \in 1..pos - 1 \/ j \in pos..L
      BY <1>4, <1>10
    <3> QED
      BY <3>1, <3>2, <3>3
  <2> QED
    BY <2>1, <2>2, <2>3, <2>4
<1>17. ASSUME NEW q \in Int, NEW d, d \in 1..L + 2,
              \A i \in 1..L + 1 : mk[i] <= q <=> i < d
       PROVE  ChildPos(m, q) = d
  <2>1. IsChildOf(m, q, d)
    <3>1. Len(m.keys) = L + 1
      BY <1>0, <1>15
    <3>2. L + 1 + 1 = L + 2
      BY <1>10
    <3> QED
      BY <3>1, <3>2, <1>15, <1>17 DEF IsChildOf
  <2> QED
    BY <2>1, <1>15, ChildPosOnly
<1>18. ASSUME NEW q \in Int
       PROVE  /\ ChildPos(n, q) < pos => ChildPos(m, q) = ChildPos(n, q)
              /\ ChildPos(n, q) = pos => ChildPos(m, q) = IF s <= q THEN pos + 1 ELSE pos
              /\ ChildPos(n, q) > pos => ChildPos(m, q) = ChildPos(n, q) + 1
              /\ m.children[ChildPos(m, q)] =
                    IF ChildPos(n, q) = pos /\ s <= q THEN new ELSE n.children[ChildPos(n, q)]
  <2> DEFINE e == ChildPos(n, q)
  <2>1. e \in 1..L + 1 /\ \A i \in 1..L : n.keys[i] <= q <=> i < e
    BY ChildPosIs DEF IsChildOf, L
  <2> HIDE DEF e
  <2>2. \A i \in 1..L : n.keys[i] \in Int
    BY <1>1 DEF L
  <2>3. ASSUME e < pos PROVE ~(s <= q) /\ ChildPos(m, q) = e /\ m.children[e] = n.children[e]
    <3>1. ~(s <= q)
      <4>1. e \in 1..L /\ ~(n.keys[e] <= q) /\ n.keys[e] < s
        BY <2>1, <2>3, <1>4, <1>5, <1>10
      <4> QED
        BY <4>1, <2>2
    <3>2. ASSUME NEW i \in 1..L + 1 PROVE mk[i] <= q <=> i < e
      <4>1. CASE i \in 1..L /\ i < pos /\ mk[i] = n.keys[i]
        BY <4>1, <2>1
      <4>2. CASE i = pos /\ mk[i] = s
        BY <4>2, <3>1, <2>1, <2>3
      <4>3. CASE i > pos /\ i - 1 \in 1..L /\ ~(i - 1 < pos) /\ mk[i] = n.keys[i - 1]
        <5>1. n.keys[i - 1] <= q <=> i - 1 < e
          BY <4>3, <2>1
        <5>2. ~(i - 1 < e) /\ ~(i < e)
          BY <4>3, <2>1, <2>3, <1>4
        <5> QED
          BY <4>3, <5>1, <5>2
      <4> QED
        BY <4>1, <4>2, <4>3, <1>11
    <3>3. e \in 1..L + 2
      BY <2>1, <1>10
    <3>4. ChildPos(m, q) = e
      BY <1>17, <3>2, <3>3
    <3>5. mc[e] = n.children[e]
      <4>1. e \in 1..pos
        BY <2>1, <2>3, <1>4
      <4> QED
        BY <4>1, <1>9
    <3> QED
      BY <3>1, <3>4, <3>5, <1>15
  <2>4. ASSUME e = pos /\ s <= q PROVE ChildPos(m, q) = pos + 1 /\ m.children[pos + 1] = new
    <3>2. ASSUME NEW i \in 1..L + 1 PROVE mk[i] <= q <=> i < pos + 1
      <4>1. CASE i \in 1..L /\ i < pos /\ mk[i] = n.keys[i]
        BY <4>1, <2>1, <2>4, <1>4
      <4>2. CASE i = pos /\ mk[i] = s
        BY <4>2, <2>4, <1>4
      <4>3. CASE i > pos /\ i - 1 \in 1..L /\ ~(i - 1 < pos) /\ mk[i] = n.keys[i - 1]
        <5>1. n.keys[i - 1] <= q <=> i - 1 < e
          BY <4>3, <2>1
        <5>2. ~(i - 1 < e) /\ ~(i < pos + 1)
          BY <4>3, <2>4, <1>4
        <5> QED
          BY <4>3, <5>1, <5>2
      <4> QED
        BY <4>1, <4>2, <4>3, <1>11
    <3>3. pos + 1 \in 1..L + 2
      BY <1>4, <1>10
    <3>4. ChildPos(m, q) = pos + 1
      BY <1>17, <3>2, <3>3
    <3> QED
      BY <3>4, <1>9, <1>15
  <2>5. ASSUME e = pos /\ ~(s <= q) PROVE ChildPos(m, q) = pos /\ m.children[pos] = n.children[pos]
    <3>2. ASSUME NEW i \in 1..L + 1 PROVE mk[i] <= q <=> i < pos
      <4>1. CASE i \in 1..L /\ i < pos /\ mk[i] = n.keys[i]
        BY <4>1, <2>1, <2>5, <1>4
      <4>2. CASE i = pos /\ mk[i] = s
        BY <4>2, <2>5, <1>4
      <4>3. CASE i > pos /\ i - 1 \in 1..L /\ ~(i - 1 < pos) /\ mk[i] = n.keys[i - 1]
        <5>1. n.keys[i - 1] <= q <=> i - 1 < e
          BY <4>3, <2>1
        <5>2. ~(i - 1 < e) /\ ~(i < pos)
          BY <4>3, <2>5, <1>4
        <5> QED
          BY <4>3, <5>1, <5>2
      <4> QED
        BY <4>1, <4>2, <4>3, <1>11
    <3>3. pos \in 1..L + 2
      BY <1>4, <1>10
    <3>4. ChildPos(m, q) = pos
      BY <1>17, <3>2, <3>3
    <3>5. mc[pos] = n.children[pos]
      <4>1. pos \in 1..pos
        BY <1>4
      <4> QED
        BY <4>1, <1>9
    <3> QED
      BY <3>4, <3>5, <1>15
  <2>6. ASSUME e > pos PROVE ChildPos(m, q) = e + 1 /\ m.children[e + 1] = n.children[e]
    <3>1. s <= q
      <4>1. pos \in 1..L /\ n.keys[pos] <= q /\ s < n.keys[pos]
        BY <2>1, <2>6, <1>4, <1>5, <1>10
      <4> QED
        BY <4>1, <2>2
    <3>2. ASSUME NEW i \in 1..L + 1 PROVE mk[i] <= q <=> i < e + 1
      <4>1. CASE i \in 1..L /\ i < pos /\ mk[i] = n.keys[i]
        <5>1. i < e /\ i < e + 1
          BY <4>1, <2>1, <2>6, <1>4
        <5> QED
          BY <4>1, <5>1, <2>1
      <4>2. CASE i = pos /\ mk[i] = s
        BY <4>2, <3>1, <2>1, <2>6
      <4>3. CASE i > pos /\ i - 1 \in 1..L /\ ~(i - 1 < pos) /\ mk[i] = n.keys[i - 1]
        <5>1. n.keys[i - 1] <= q <=> i - 1 < e
          BY <4>3, <2>1
        <5>2. i - 1 < e <=> i < e + 1
          BY <2>1
        <5> QED
          BY <4>3, <5>1, <5>2
      <4> QED
        BY <4>1, <4>2, <4>3, <1>11
    <3>3. e + 1 \in 1..L + 2
      BY <2>1, <1>10
    <3>4. ChildPos(m, q) = e + 1
      BY <1>17, <3>2, <3>3
    <3>5. mc[e + 1] = n.children[e]
      <4>1. e \in pos + 1..L + 1
        BY <2>1, <2>6, <1>4
      <4> QED
        BY <4>1, <1>9
    <3> QED
      BY <3>4, <3>5, <1>15
  <2>7. e < pos \/ e = pos \/ e > pos
    BY <2>1, <1>4
  <2>8. /\ e < pos => ChildPos(m, q) = e
        /\ e = pos => ChildPos(m, q) = IF s <= q THEN pos + 1 ELSE pos
        /\ e > pos => ChildPos(m, q) = e + 1
        /\ m.children[ChildPos(m, q)] = IF e = pos /\ s <= q THEN new ELSE n.children[e]
    <3>0. e \in Int /\ pos \in Int
      BY <2>1, <1>4
    <3>1. CASE e < pos
      <4>1. ~(e > pos) /\ e # pos
        BY <3>0, <3>1
      <4> QED
        BY <4>1, <3>1, <2>3, Zenon
    <3>2. CASE e = pos /\ s <= q
      <4>1. ~(e > pos) /\ ~(e < pos)
        BY <3>0, <3>2
      <4> QED
        BY <4>1, <3>2, <2>4, Zenon
    <3>3. CASE e = pos /\ ~(s <= q)
      <4>1. ~(e > pos) /\ ~(e < pos)
        BY <3>0, <3>3
      <4> QED
        BY <4>1, <3>3, <2>5, Zenon
    <3>4. CASE e > pos
      <4>1. ~(e < pos) /\ e # pos
        BY <3>0, <3>4
      <4> QED
        BY <4>1, <3>4, <2>6, Zenon
    <3> QED
      BY <3>1, <3>2, <3>3, <3>4, <2>7
  <2> QED
    BY <2>8 DEF e
<1> QED
  BY <1>0, <1>4, <1>15, <1>16, <1>18 DEF L, GrownBy

\* The halves of an internal node: the key between them goes to neither.
LEMMA NodeHalves ==
    ASSUME NEW m, SoundInternal(m), Len(m.keys) >= 3,
           NEW p, p = InternalLeft(m), NEW r, r = InternalRight(m), NEW s, s = SepOf(m),
           NEW h, h = Half(Len(m.keys))
    PROVE  /\ s \in Int /\ s \in Entries(m) /\ (\E a \in Entries(m) : a < s)
           /\ SoundInternal(p) /\ Entries(p) = {e \in Entries(m) : e < s}
           /\ SoundInternal(r) /\ Entries(r) = {e \in Entries(m) : s < e}
           /\ Len(p.keys) = h /\ Len(r.keys) = Len(m.keys) - h - 1
           /\ \A q \in Int : s <= q <=> ChildPos(m, q) > h + 1
           /\ \A q \in Int : q < s => /\ ChildPos(p, q) = ChildPos(m, q)
                                      /\ p.children[ChildPos(p, q)] = m.children[ChildPos(m, q)]
           /\ \A q \in Int : s <= q => /\ ChildPos(r, q) = ChildPos(m, q) - (h + 1)
                                       /\ r.children[ChildPos(r, q)] = m.children[ChildPos(m, q)]
<1> DEFINE L == Len(m.keys)
           pk == UpTo(m.keys, h)
           pc == UpTo(m.children, h + 1)
           rk == From(m.keys, h + 2)
           rc == From(m.children, h + 2)
<1>1. /\ m.keys \in Seq(Int) /\ L \in Nat /\ m.children \in Seq(Nat) /\ Len(m.children) = L + 1
      /\ m.type = "internal"
      /\ \A i \in 1..L : m.keys[i] \in Int /\ KeyOf(m, i) = m.keys[i]
      /\ \A i, j \in 1..L : i < j => m.keys[i] < m.keys[j]
      /\ \A i, j \in 1..L + 1 : m.children[i] = m.children[j] => i = j
  BY NodeFacts
<1>2. h \in 2..L - 1
  BY <1>1, HalfBounds
<1>3. p = Internal(pk, pc) /\ r = Internal(rk, rc)
  BY DEF InternalLeft, InternalRight
<1> HIDE DEF L, pk, pc, rk, rc
<1>9. L = Len(m.keys) /\ L \in Nat /\ h \in Nat /\ h >= 2 /\ h < L /\ Len(m.children) = L + 1
  <2>1. L \in Nat /\ L = Len(m.keys) /\ Len(m.children) = L + 1
    BY <1>1 DEF L
  <2> QED
    BY <2>1, <1>2
<1>4. /\ pk \in Seq(Int) /\ Len(pk) = h /\ \A j \in 1..h : pk[j] = m.keys[j]
  <2>1. h \in 0..Len(m.keys)
    BY ONLY <1>9
  <2>2. pk = UpTo(m.keys, h)
    BY DEF pk
  <2>3. m.keys \in Seq(Int)
    BY <1>1
  <2> QED
    BY ONLY <2>1, <2>2, <2>3, Cut
<1>5. /\ pc \in Seq(Nat) /\ Len(pc) = h + 1 /\ \A j \in 1..h + 1 : pc[j] = m.children[j]
  <2>1. h + 1 \in 0..Len(m.children)
    BY ONLY <1>9
  <2>2. pc = UpTo(m.children, h + 1)
    BY DEF pc
  <2>3. m.children \in Seq(Nat)
    BY <1>1
  <2> QED
    BY ONLY <2>1, <2>2, <2>3, Cut
<1>6. /\ rk \in Seq(Int) /\ Len(rk) = L - h - 1 /\ \A j \in 1..L - h - 1 : rk[j] = m.keys[h + 1 + j]
  <2>1. h + 2 \in 1..Len(m.keys) + 1 /\ L - (h + 2) + 1 = L - h - 1
    BY ONLY <1>9
  <2>4. /\ rk \in Seq(Int) /\ Len(rk) = Len(m.keys) - (h + 2) + 1
        /\ \A j \in 1..Len(m.keys) - (h + 2) + 1 : rk[j] = m.keys[h + 2 + j - 1]
    <3>1. rk = From(m.keys, h + 2)
      BY DEF rk
    <3>2. m.keys \in Seq(Int) /\ h + 2 \in 1..Len(m.keys) + 1
      BY <1>1, <2>1
    <3> QED
      BY ONLY <3>1, <3>2, CutRest
  <2>2. rk \in Seq(Int) /\ Len(rk) = L - (h + 2) + 1 /\ \A j \in 1..L - (h + 2) + 1 : rk[j] = m.keys[h + 2 + j - 1]
    BY <1>9, <2>4
  <2>3. ASSUME NEW j \in 1..L - h - 1 PROVE rk[j] = m.keys[h + 1 + j]
    <3>1. j \in 1..L - (h + 2) + 1 /\ h + 2 + j - 1 = h + 1 + j
      BY <1>9
    <3> QED
      BY <2>2, <3>1
  <2> QED
    BY <2>1, <2>2, <2>3
<1>7. /\ rc \in Seq(Nat) /\ Len(rc) = L - h /\ \A j \in 1..L - h : rc[j] = m.children[h + 1 + j]
  <2>1. h + 2 \in 1..Len(m.children) + 1 /\ Len(m.children) - (h + 2) + 1 = L - h
    <3>1. h + 2 \in 1..(L + 1) + 1 /\ (L + 1) - (h + 2) + 1 = L - h
      <4>1. L \in Nat /\ h \in Nat /\ h < L
        BY <1>9
      <4> QED
        BY <4>1
    <3> QED
      BY ONLY <3>1, <1>9
  <2>2. /\ rc \in Seq(Nat) /\ Len(rc) = Len(m.children) - (h + 2) + 1
        /\ \A j \in 1..Len(m.children) - (h + 2) + 1 : rc[j] = m.children[h + 2 + j - 1]
    <3>1. rc = From(m.children, h + 2)
      BY DEF rc
    <3>2. m.children \in Seq(Nat) /\ h + 2 \in 1..Len(m.children) + 1
      BY <1>1, <2>1
    <3> QED
      BY ONLY <3>1, <3>2, CutRest
  <2>3. ASSUME NEW j \in 1..L - h PROVE rc[j] = m.children[h + 1 + j]
    <3>1. j \in 1..Len(m.children) - (h + 2) + 1 /\ h + 2 + j - 1 = h + 1 + j
      BY ONLY <1>9, j \in 1..L - h
    <3> QED
      BY <2>2, <3>1
  <2> QED
    BY <2>1, <2>2, <2>3
<1>8. s = m.keys[h + 1]
  <2>1. s = KeyOf(m, h + 1)
    BY DEF SepOf
  <2>2. h + 1 \in 1..L
    BY ONLY <1>9
  <2>3. KeyOf(m, h + 1) = m.keys[h + 1]
    BY <1>1, <2>2 DEF L
  <2> QED
    BY ONLY <2>1, <2>3
<1>10. s \in Int /\ h + 1 \in 1..L /\ s \in Entries(m) /\ \E a \in Entries(m) : a < s
  <2>1. h + 1 \in 1..L /\ 1 \in 1..L /\ 1 < h + 1
    BY <1>9
  <2>2. m.keys[h + 1] \in Int /\ m.keys[1] < m.keys[h + 1] /\ m.keys[1] \in Entries(m) /\ m.keys[h + 1] \in Entries(m)
    BY <2>1, <1>1 DEF Entries, L
  <2> QED
    BY ONLY <2>1, <2>2, <1>8
<1>11. \A i \in 1..L : /\ m.keys[i] < s <=> i <= h
                       /\ s < m.keys[i] <=> i > h + 1
  <2>1. ASSUME NEW i \in 1..L, i <= h PROVE m.keys[i] < s
    <3>1. i < h + 1
      BY <2>1, <1>9
    <3> QED
      BY <3>1, <1>1, <1>8, <1>10 DEF L
  <2>2. ASSUME NEW i \in 1..L, i > h + 1 PROVE s < m.keys[i]
    BY <2>2, <1>1, <1>8, <1>10 DEF L
  <2>3. \A i \in 1..L : m.keys[i] \in Int
    BY <1>1 DEF L
  <2>4. \A i \in 1..L : i <= h \/ i = h + 1 \/ i > h + 1
    BY <1>9
  <2>5. ASSUME NEW i \in 1..L PROVE /\ m.keys[i] < s <=> i <= h
                                    /\ s < m.keys[i] <=> i > h + 1
    <3>1. CASE i <= h
      <4>1. m.keys[i] < s /\ m.keys[i] \in Int /\ ~(i > h + 1)
        BY <3>1, <2>1, <2>3, <1>9
      <4> QED
        BY <4>1, <3>1, <1>10
    <3>2. CASE i = h + 1
      <4>1. m.keys[i] = s /\ ~(i > h + 1) /\ ~(i <= h)
        BY <3>2, <1>8, <1>9
      <4> QED
        BY <4>1, <1>10
    <3>3. CASE i > h + 1
      <4>1. s < m.keys[i] /\ m.keys[i] \in Int /\ ~(i <= h)
        BY <3>3, <2>2, <2>3, <1>9
      <4> QED
        BY <4>1, <3>3, <1>10
    <3> QED
      BY <3>1, <3>2, <3>3, <2>4
  <2> QED
    BY <2>5
<1>12. SoundInternal(p) /\ p.keys = pk /\ p.children = pc
  <2>1. \A i \in 1..h : i \in 1..L
    BY <1>9
  <2>2. \A i \in 1..h + 1 : i \in 1..L + 1
    BY <1>9
  <2>3. \A i, j \in 1..Len(pk) : i < j => pk[i] < pk[j]
    BY <2>1, <1>1, <1>4 DEF L
  <2>4. \A i, j \in 1..Len(pc) : pc[i] = pc[j] => i = j
    BY <2>2, <1>1, <1>5 DEF L
  <2>6. Len(pc) = Len(pk) + 1
    BY <1>4, <1>5
  <2>5. SoundInternal(Internal(pk, pc)) /\ Internal(pk, pc).keys = pk /\ Internal(pk, pc).children = pc
    BY <2>3, <2>4, <2>6, <1>4, <1>5, NodeSound
  <2> QED
    BY <2>5, <1>3
<1>13. SoundInternal(r) /\ r.keys = rk /\ r.children = rc
  <2>1. ASSUME NEW i \in 1..L - h - 1, NEW j \in 1..L - h - 1, i < j PROVE rk[i] < rk[j]
    <3>1. h + 1 + i \in 1..L /\ h + 1 + j \in 1..L /\ h + 1 + i < h + 1 + j
      BY ONLY <2>1, <1>9, i \in 1..L - h - 1, j \in 1..L - h - 1
    <3>2. m.keys[h + 1 + i] < m.keys[h + 1 + j]
      BY <3>1, <1>1 DEF L
    <3> QED
      BY <3>2, <1>6
  <2>2. ASSUME NEW i \in 1..L - h, NEW j \in 1..L - h, rc[i] = rc[j] PROVE i = j
    <3>1. h + 1 + i \in 1..L + 1 /\ h + 1 + j \in 1..L + 1
      BY ONLY <1>9, i \in 1..L - h, j \in 1..L - h
    <3>2. m.children[h + 1 + i] = m.children[h + 1 + j]
      BY <2>2, <1>7
    <3>3. h + 1 + i = h + 1 + j
      BY <3>1, <3>2, <1>1 DEF L
    <3> QED
      BY <3>3, <1>9
  <2>3. Len(rc) = Len(rk) + 1
    BY <1>6, <1>7, <1>9
  <2>4. /\ \A i, j \in 1..Len(rk) : i < j => rk[i] < rk[j]
        /\ \A i, j \in 1..Len(rc) : rc[i] = rc[j] => i = j
    BY <2>1, <2>2, <1>6, <1>7
  <2>5. SoundInternal(Internal(rk, rc)) /\ Internal(rk, rc).keys = rk /\ Internal(rk, rc).children = rc
    BY <2>3, <2>4, <1>6, <1>7, NodeSound
  <2> QED
    BY <2>5, <1>3
<1>14. Entries(p) = {e \in Entries(m) : e < s}
  <2>1. \A j \in 1..h : j \in 1..L /\ pk[j] = m.keys[j] /\ j <= h
    BY <1>9, <1>4
  <2>2. \A j \in 1..L : j <= h => j \in 1..h
    BY <1>9
  <2>3. Entries(p) = {pk[j] : j \in 1..h} /\ Entries(m) = {m.keys[j] : j \in 1..L}
    BY <1>4, <1>12 DEF Entries, L
  <2> QED
    BY <2>1, <2>2, <2>3, <1>11
<1>15. Entries(r) = {e \in Entries(m) : s < e}
  <2>1. \A j \in 1..L - h - 1 : h + 1 + j \in 1..L /\ rk[j] = m.keys[h + 1 + j] /\ h + 1 + j > h + 1
    <3>1. \A j \in 1..L - h - 1 : h + 1 + j \in 1..L /\ h + 1 + j > h + 1
      BY <1>9
    <3> QED
      BY <3>1, <1>6
  <2>2. ASSUME NEW j \in 1..L, j > h + 1 PROVE \E i \in 1..L - h - 1 : rk[i] = m.keys[j]
    <3>1. j - (h + 1) \in 1..L - h - 1 /\ h + 1 + (j - (h + 1)) = j
      BY <2>2, <1>9
    <3> QED
      BY <3>1, <1>6
  <2>3. Entries(r) = {rk[j] : j \in 1..L - h - 1} /\ Entries(m) = {m.keys[j] : j \in 1..L}
    BY <1>6, <1>13 DEF Entries, L
  <2>4. ASSUME NEW e \in Entries(r) PROVE e \in Entries(m) /\ s < e
    <3>1. PICK j \in 1..L - h - 1 : e = rk[j]
      BY <2>3
    <3> QED
      BY <3>1, <2>1, <2>3, <1>11
  <2>5. ASSUME NEW e \in Entries(m), s < e PROVE e \in Entries(r)
    <3>1. PICK j \in 1..L : e = m.keys[j]
      BY <2>3
    <3> QED
      BY <3>1, <2>2, <2>3, <2>5, <1>11
  <2> QED
    BY <2>4, <2>5
<1>16. ASSUME NEW q \in Int
       PROVE  /\ s <= q <=> ChildPos(m, q) > h + 1
              /\ q < s => /\ ChildPos(p, q) = ChildPos(m, q)
                          /\ p.children[ChildPos(p, q)] = m.children[ChildPos(m, q)]
              /\ s <= q => /\ ChildPos(r, q) = ChildPos(m, q) - (h + 1)
                           /\ r.children[ChildPos(r, q)] = m.children[ChildPos(m, q)]
  <2> DEFINE e == ChildPos(m, q)
  <2>1. e \in 1..L + 1 /\ \A i \in 1..L : m.keys[i] <= q <=> i < e
    BY ChildPosIs DEF IsChildOf, L
  <2> HIDE DEF e
  <2>2. s <= q <=> e > h + 1
    <3>1. s <= q <=> h + 1 < e
      BY <2>1, <1>8, <1>10
    <3> QED
      BY <3>1, <2>1, <1>9
  <2>3. ASSUME q < s PROVE ChildPos(p, q) = e /\ p.children[e] = m.children[e]
    <3>1. e \in 1..h + 1
      <4>1. e \in 1..L + 1 /\ ~(e > h + 1)
        BY <2>1, <2>2, <2>3, <1>10
      <4> QED
        BY ONLY <4>1, <1>9
    <3>2. ASSUME NEW i \in 1..h PROVE pk[i] <= q <=> i < e
      <4>1. i \in 1..L
        BY ONLY <1>9, i \in 1..h
      <4> QED
        BY <4>1, <2>1, <1>4
    <3>3. IsChildOf(p, q, e)
      BY <3>1, <3>2, <1>4, <1>12 DEF IsChildOf
    <3>4. ChildPos(p, q) = e
      BY <3>3, <1>12, ChildPosOnly
    <3> QED
      BY <3>1, <3>4, <1>5, <1>12
  <2>4. ASSUME s <= q PROVE ChildPos(r, q) = e - (h + 1) /\ r.children[e - (h + 1)] = m.children[e]
    <3>1. e - (h + 1) \in 1..L - h /\ h + 1 + (e - (h + 1)) = e /\ L - h - 1 + 1 = L - h
      <4>1. e \in 1..L + 1 /\ e > h + 1
        BY <2>1, <2>2, <2>4
      <4> QED
        BY ONLY <4>1, <1>9
    <3>2. ASSUME NEW i \in 1..L - h - 1 PROVE rk[i] <= q <=> i < e - (h + 1)
      <4>1. h + 1 + i \in 1..L /\ (h + 1 + i < e <=> i < e - (h + 1))
        <5>1. e \in 1..L + 1
          BY <2>1
        <5> QED
          BY ONLY <5>1, <1>9, i \in 1..L - h - 1
      <4> QED
        BY <4>1, <2>1, <1>6
    <3>3. IsChildOf(r, q, e - (h + 1))
      BY <3>1, <3>2, <1>6, <1>13 DEF IsChildOf
    <3>4. ChildPos(r, q) = e - (h + 1)
      BY <3>3, <1>13, ChildPosOnly
    <3>5. rc[e - (h + 1)] = m.children[h + 1 + (e - (h + 1))]
      BY <3>1, <1>7
    <3> QED
      BY <3>1, <3>4, <3>5, <1>13
  <2>5. /\ s <= q <=> e > h + 1
        /\ q < s => ChildPos(p, q) = e /\ p.children[ChildPos(p, q)] = m.children[e]
        /\ s <= q => ChildPos(r, q) = e - (h + 1) /\ r.children[ChildPos(r, q)] = m.children[e]
    BY <2>2, <2>3, <2>4, Zenon
  <2> QED
    BY <2>5 DEF e
<1> QED
  BY <1>4, <1>6, <1>10, <1>12, <1>13, <1>14, <1>15, <1>16 DEF L

------------------------------------------------------------------------------
(* The tree that the operations which have returned left behind.  `t.page`    *)
(* is the store without the writes of operations under way; `t.route[l][k]`   *)
(* the node on level l, counted from the leaves, on the way of key k;         *)
(* `t.own` the key of a value page; `t.live` the pages in use.                *)

Present(rf) == {k \in Keys : rf[k] # 0}
Node(t, l, k) == t.page[t.route[l][k]]

Rooted(t, rf) ==
    /\ t.height \in Nat /\ t.height <= Cardinality(Present(rf))
    /\ t.live \subseteq Indexes \ {0}
    /\ t.route \in [0..t.height -> [Keys -> t.live]]
    /\ \A k \in Keys : t.route[t.height][k] = DecodeRoot(t.page[HEADER_INDEX])

\* The leaf of a key holds it if it is present, and no key of another leaf.
LeafHolds(t, rf, k) ==
    LET n == Node(t, 0, k) IN
    /\ SoundLeaf(n)
    /\ Holds(n, k) <=> rf[k] # 0
    /\ \A e \in Entries(n) :
          /\ e.key \in Keys /\ t.route[0][e.key] = t.route[0][k]
          /\ e.page \in t.live /\ t.own[e.page] = e.key
          /\ t.page[e.page] = Value(rf[e.key])

\* A node leads each key to its child, its separators are present keys of its own, and
\* some key goes to each child.
NodeLinks(t, rf, l, k) ==
    LET n == Node(t, l, k) IN
    /\ SoundInternal(n)
    /\ t.route[l - 1][k] = n.children[ChildPos(n, k)]
    /\ \A s \in Entries(n) : s \in Keys /\ t.route[l][s] = t.route[l][k] /\ rf[s] # 0
    /\ \A j \in 1..Len(n.children) :
          \E q \in Keys : t.route[l][q] = t.route[l][k] /\ ChildPos(n, q) = j

\* Keys that part on one level never meet again below.
Nested(t) == \A l \in 1..t.height, k1, k2 \in Keys :
    t.route[l - 1][k1] = t.route[l - 1][k2] => t.route[l][k1] = t.route[l][k2]
Leveled(t) == \A l1, l2 \in 0..t.height, k1, k2 \in Keys :
    t.route[l1][k1] = t.route[l2][k2] => l1 = l2

LeavesHold(t, rf) == \A k \in Keys : LeafHolds(t, rf, k)
NodesLink(t, rf) == \A l \in 1..t.height, k \in Keys : NodeLinks(t, rf, l, k)

\* No node is too long, and all but the root are long enough.
LeastLen(l) == IF l = 0 THEN MaxLen + 1 - Half(MaxLen + 1) ELSE MaxLen - Half(MaxLen + 1)
Filled(t) == \A l \in 0..t.height, k \in Keys :
    /\ Len(Node(t, l, k).keys) <= MaxLen
    /\ l < t.height => Len(Node(t, l, k).keys) >= LeastLen(l)
\* The keys of a leaf have none of another leaf between them.
Convex(t) == \A a, b, c \in Keys :
    a < b /\ b < c /\ t.route[0][a] = t.route[0][c] => t.route[0][b] = t.route[0][a]
\* The keys of page 1, which is always in use, come before those of any other leaf.
Fronted(t) == 1 \in t.live /\ \A a, b \in Keys :
    a < b /\ t.route[0][b] = 1 => t.route[0][a] = 1
\* The next leaf holds the next keys.
LinksOn(t, k) ==
    LET n == Node(t, 0, k) IN
    \/ n.next = 0 /\ \A q \in Keys : k < q => t.route[0][q] = t.route[0][k]
    \/ \E q \in Keys : /\ k < q /\ t.route[0][q] = n.next /\ n.next # t.route[0][k]
                       /\ \A r \in Keys : k < r /\ r < q => t.route[0][r] = t.route[0][k]
Chained(t) == \A k \in Keys : LinksOn(t, k)
\* Every page in use is a node or holds the value of an entry.
IsNode(t, i) == \E l \in 0..t.height, k \in Keys : i = t.route[l][k]
IsValue(t, i) == \E k \in Keys : \E e \in Entries(Node(t, 0, k)) : e.page = i
Owned(t) == \A i \in t.live : IsNode(t, i) \/ IsValue(t, i)

Mapped(t, rf) ==
    /\ Rooted(t, rf) /\ LeavesHold(t, rf) /\ NodesLink(t, rf) /\ Nested(t) /\ Leveled(t)
    /\ Filled(t) /\ Convex(t) /\ Fronted(t) /\ Chained(t) /\ Owned(t)

\* The node of level l on the way of a key under insertion, with what came up from below.
\* `ch.page` is the value page; `ch.sep[i]` and `ch.new[i]` the separator and the right
\* half of the node that was split on level i.
Raised(t, key, ch, l) ==
    LET n == Node(t, l, key) IN
    IF l = 0 THEN WithKey(n, Below(n, key) + 1, key, ch.page)
    ELSE WithChild(n, Below(n, key) + 1, ch.sep[l - 1], ch.new[l - 1], FALSE, key)

\* A separator is a key of the node it splits, and not the least.
SepHome(t, rf, key, s, l) ==
    /\ s \in Keys /\ t.route[l][s] = t.route[l][key] /\ (s = key \/ rf[s] # 0)
    /\ \E a \in Keys : a < s /\ t.route[l][a] = t.route[l][key]

LEMMA RouteTyped ==
    ASSUME NEW t, NEW rf, Rooted(t, rf), NEW l \in 0..t.height, NEW k \in Keys
    PROVE  t.route[l][k] \in t.live /\ t.route[l][k] \in Indexes \ {0}
BY DEF Rooted

LEMMA KeysInt == \A k \in Keys : k \in Int
BY KeysAssumption

\* The leaf with the new key.
LEMMA RaisedLeaf ==
    ASSUME NEW t, NEW rf, Mapped(t, rf), NEW key \in Keys, rf[key] = 0,
           NEW ch, ch.page \in Nat, NEW m, m = Raised(t, key, ch, 0),
           NEW n, n = Node(t, 0, key)
    PROVE  /\ SoundLeaf(n) /\ SoundLeaf(m)
           /\ Entries(m) = Entries(n) \cup {[key |-> key, page |-> ch.page]}
           /\ Len(m.keys) = Len(n.keys) + 1 /\ m.next = n.next
           /\ \A e \in Entries(m) : /\ e.key \in Keys /\ t.route[0][e.key] = t.route[0][key]
                                    /\ e.key = key \/ rf[e.key] # 0
<1>1. LeafHolds(t, rf, key)
  BY DEF Mapped, LeavesHold
<1>2. SoundLeaf(n) /\ ~Holds(n, key)
  BY <1>1 DEF LeafHolds
<1>3. m = WithKey(n, Below(n, key) + 1, key, ch.page)
  BY DEF Raised
<1>4. /\ SoundLeaf(m) /\ Entries(m) = Entries(n) \cup {[key |-> key, page |-> ch.page]}
      /\ Len(m.keys) = Len(n.keys) + 1 /\ m.next = n.next
  BY <1>2, <1>3, KeysInt, LeafGrows
<1>5. ASSUME NEW e \in Entries(n)
      PROVE  e.key \in Keys /\ t.route[0][e.key] = t.route[0][key] /\ rf[e.key] # 0
  <2>1. e.key \in Keys /\ t.route[0][e.key] = t.route[0][key]
    BY <1>1 DEF LeafHolds
  <2>2. Holds(n, e.key)
    BY <1>2, LeafFacts
  <2>3. Node(t, 0, e.key) = n
    BY <2>1 DEF Node
  <2>4. LeafHolds(t, rf, e.key)
    BY <2>1 DEF Mapped, LeavesHold
  <2> QED
    BY <2>1, <2>2, <2>3, <2>4 DEF LeafHolds
<1>6. ASSUME NEW e \in Entries(m)
      PROVE  /\ e.key \in Keys /\ t.route[0][e.key] = t.route[0][key]
             /\ e.key = key \/ rf[e.key] # 0
  <2>1. e \in Entries(n) \/ e = [key |-> key, page |-> ch.page]
    BY <1>4
  <2> QED
    BY <2>1, <1>5
<1> QED
  BY <1>2, <1>4, <1>6

\* The parent with the new child.
LEMMA RaisedNode ==
    ASSUME NEW t, NEW rf, Mapped(t, rf), NEW key \in Keys, rf[key] = 0, NEW l \in 1..t.height,
           NEW ch, NEW s, s = ch.sep[l - 1], NEW new \in Nat, new = ch.new[l - 1], new \notin t.live,
           SepHome(t, rf, key, s, l - 1), NEW m, m = Raised(t, key, ch, l),
           NEW n, n = Node(t, l, key)
    PROVE  /\ SoundInternal(n) /\ SoundInternal(m) /\ Len(m.keys) = Len(n.keys) + 1
           /\ Entries(m) = Entries(n) \cup {s}
           /\ \A e \in Entries(m) : /\ e \in Keys /\ t.route[l][e] = t.route[l][key]
                                    /\ e = key \/ rf[e] # 0
           /\ \A k \in Keys : t.route[l][k] = t.route[l][key] =>
                 m.children[ChildPos(m, k)] =
                    IF t.route[l - 1][k] = t.route[l - 1][key] /\ s <= k THEN new ELSE t.route[l - 1][k]
           /\ \A j \in 1..Len(m.children) :
                 \E q \in Keys : t.route[l][q] = t.route[l][key] /\ ChildPos(m, q) = j
<1>1. \A k \in Keys : NodeLinks(t, rf, l, k)
  BY DEF Mapped, NodesLink
<1>2. SoundInternal(n)
  BY <1>1 DEF NodeLinks
<1>3. \A k \in Keys : t.route[l][k] = t.route[l][key] => t.route[l - 1][k] = n.children[ChildPos(n, k)]
  BY <1>1 DEF NodeLinks, Node
<1>4. \A e \in Entries(n) : e \in Keys /\ t.route[l][e] = t.route[l][key] /\ rf[e] # 0
  BY <1>1 DEF NodeLinks
<1>5. \A j \in 1..Len(n.children) :
         \E q \in Keys : t.route[l][q] = t.route[l][key] /\ ChildPos(n, q) = j
  BY <1>1 DEF NodeLinks
<1>6. \A k \in Keys : ChildPos(n, k) \in 1..Len(n.children)
  BY <1>2, KeysInt, ChildPosIs, NodeFacts DEF IsChildOf
<1>7. ~Holds(n, key)
  BY <1>2, <1>4, NodeFacts
<1> DEFINE pos == ChildPos(n, key)
<1>8. pos = Below(n, key) + 1
  BY <1>2, <1>7, KeysInt, ChildPosIs
<1>9. m = WithChild(n, pos, s, new, FALSE, key)
  <2>1. l # 0
    BY DEF Mapped, Rooted
  <2> QED
    BY <2>1, <1>8 DEF Raised
<1>10. PICK a \in Keys : a < s /\ t.route[l - 1][a] = t.route[l - 1][key]
  BY DEF SepHome
<1>11. s \in Keys /\ t.route[l - 1][s] = t.route[l - 1][key] /\ (s = key \/ rf[s] # 0)
  BY DEF SepHome
<1>12. \A k \in Keys : t.route[l - 1][k] = t.route[l - 1][key] => t.route[l][k] = t.route[l][key]
  BY DEF Mapped, Nested
<1>13. \A k \in Keys : t.route[l][k] = t.route[l][key] =>
          (t.route[l - 1][k] = t.route[l - 1][key] <=> ChildPos(n, k) = pos)
  <2>1. \A i, j \in 1..Len(n.children) : n.children[i] = n.children[j] => i = j
    BY <1>2, NodeFacts
  <2> QED
    BY <2>1, <1>3, <1>6
<1>14. pos = ChildPos(n, s) /\ pos = ChildPos(n, a)
  BY <1>10, <1>11, <1>12, <1>13
<1>15. ~Holds(n, s)
  <2>1. SUFFICES ASSUME Holds(n, s) PROVE FALSE
    OBVIOUS
  <2>2. s \in Entries(n)
    BY <2>1, <1>2, NodeFacts
  <2>3. PICK i \in 1..Len(n.keys) : n.keys[i] = s
    BY <2>2 DEF Entries
  <2>4. IsChildOf(n, s, pos) /\ IsChildOf(n, a, pos) /\ s \in Int /\ a \in Int
    BY <1>2, <1>10, <1>11, <1>14, KeysInt, ChildPosIs
  <2>5. n.keys[i] <= s => n.keys[i] <= a
    BY <2>4 DEF IsChildOf
  <2> QED
    BY <2>3, <2>4, <2>5, <1>10
<1>16. \A j \in 1..Len(n.children) : n.children[j] # new
  <2>1. ASSUME NEW j \in 1..Len(n.children) PROVE n.children[j] # new
    <3>1. PICK q \in Keys : t.route[l][q] = t.route[l][key] /\ ChildPos(n, q) = j
      BY <1>5
    <3>2. n.children[j] = t.route[l - 1][q] /\ l - 1 \in 0..t.height
      BY <3>1, <1>3 DEF Mapped, Rooted
    <3>3. t.route[l - 1][q] \in t.live
      BY <3>2, RouteTyped DEF Mapped
    <3> QED
      BY <3>2, <3>3
  <2> QED
    BY <2>1
<1> HIDE DEF pos
<1>17. s \in Int /\ a \in Int /\ a < s
  BY <1>10, <1>11, KeysInt
<1>18. /\ SoundInternal(m) /\ Entries(m) = Entries(n) \cup {s} /\ Len(m.keys) = Len(n.keys) + 1
       /\ pos \in 1..Len(n.keys) + 1
       /\ \A q \in Int :
            /\ ChildPos(n, q) < pos => ChildPos(m, q) = ChildPos(n, q)
            /\ ChildPos(n, q) = pos => ChildPos(m, q) = IF s <= q THEN pos + 1 ELSE pos
            /\ ChildPos(n, q) > pos => ChildPos(m, q) = ChildPos(n, q) + 1
            /\ m.children[ChildPos(m, q)] =
                  IF ChildPos(n, q) = pos /\ s <= q THEN new ELSE n.children[ChildPos(n, q)]
  <2>1. GrownBy(n, m, pos, s, new)
    BY <1>2, <1>9, <1>14, <1>15, <1>16, <1>17, NodeGrows
  <2> QED
    BY <2>1 DEF GrownBy
<1>19. ASSUME NEW k \in Keys, t.route[l][k] = t.route[l][key]
       PROVE  m.children[ChildPos(m, k)] =
                IF t.route[l - 1][k] = t.route[l - 1][key] /\ s <= k THEN new ELSE t.route[l - 1][k]
  <2>1. m.children[ChildPos(m, k)] =
           IF ChildPos(n, k) = pos /\ s <= k THEN new ELSE n.children[ChildPos(n, k)]
    BY <1>18, KeysInt
  <2>2. t.route[l - 1][k] = n.children[ChildPos(n, k)]
    BY <1>3, <1>19
  <2>3. t.route[l - 1][k] = t.route[l - 1][key] <=> ChildPos(n, k) = pos
    BY <1>13, <1>19
  <2> QED
    BY <2>1, <2>2, <2>3, Zenon
<1>20. ASSUME NEW j \in 1..Len(m.children)
       PROVE  \E q \in Keys : t.route[l][q] = t.route[l][key] /\ ChildPos(m, q) = j
  <2> DEFINE L == Len(n.keys)
  <2>1. j \in 1..L + 2 /\ pos \in 1..L + 1 /\ L \in Nat /\ Len(n.children) = L + 1
    <3>1. Len(m.children) = Len(m.keys) + 1 /\ L \in Nat /\ Len(m.keys) = L + 1 /\ Len(n.children) = L + 1
      BY <1>2, <1>18, NodeFacts
    <3> QED
      BY <3>1, <1>18
  <2> HIDE DEF L
  <2>2. CASE j < pos
    <3>1. PICK q \in Keys : t.route[l][q] = t.route[l][key] /\ ChildPos(n, q) = j
      BY <2>1, <2>2, <1>5
    <3> QED
      BY <3>1, <2>2, <1>18, KeysInt
  <2>3. CASE j = pos
    <3>1. ChildPos(m, a) = pos
      <4>1. ~(s <= a)
        BY <1>17
      <4> QED
        BY <4>1, <1>14, <1>17, <1>18
    <3> QED
      BY <3>1, <2>3, <1>10, <1>12
  <2>4. CASE j = pos + 1
    <3>1. ChildPos(m, s) = pos + 1
      <4>1. s <= s
        BY <1>17
      <4> QED
        BY <4>1, <1>14, <1>17, <1>18
    <3> QED
      BY <3>1, <2>4, <1>11, <1>12
  <2>5. CASE j > pos + 1
    <3>1. j - 1 \in 1..Len(n.children) /\ j - 1 > pos /\ (j - 1) + 1 = j
      BY <2>1, <2>5
    <3>2. PICK q \in Keys : t.route[l][q] = t.route[l][key] /\ ChildPos(n, q) = j - 1
      BY <3>1, <1>5
    <3>3. ChildPos(m, q) = ChildPos(n, q) + 1
      BY <3>1, <3>2, <1>18, KeysInt
    <3> QED
      BY <3>1, <3>2, <3>3
  <2>6. j < pos \/ j = pos \/ j = pos + 1 \/ j > pos + 1
    BY <2>1
  <2> QED
    BY <2>2, <2>3, <2>4, <2>5, <2>6
<1>21. ASSUME NEW e \in Entries(m)
       PROVE  e \in Keys /\ t.route[l][e] = t.route[l][key] /\ (e = key \/ rf[e] # 0)
  <2>1. e \in Entries(n) \/ e = s
    BY <1>18
  <2> QED
    BY <2>1, <1>4, <1>11, <1>12
<1> QED
  BY <1>2, <1>18, <1>19, <1>20, <1>21

\* The split of level l, as far as it is written.
Halved(t, P, rf, key, ch, l) ==
    LET m == Raised(t, key, ch, l)  x == t.route[l][key] IN
    /\ Len(m.keys) > MaxLen
    /\ P[x] = LeftOf(m, ch.new[l]) /\ P[ch.new[l]] = RightOf(m, x)
    /\ ch.sep[l] = SepOf(m) /\ SepHome(t, rf, key, ch.sep[l], l)

\* The pages an insertion has written once the levels below l are split.
Spread(t, key, ch, l) ==
    {ch.page} \cup {t.route[i][key] : i \in 0..l - 1} \cup {ch.new[i] : i \in 0..l - 1}

Fresh(t) == (Indexes \ {0}) \ t.live
Climbed(t, P, rf, key, val, ch, l) ==
    /\ key \in Keys /\ rf[key] = 0 /\ val \in Nat \ {0}
    /\ ch.page \in Fresh(t) /\ P[ch.page] = Value(val)
    /\ \A i \in 0..l - 1 : Halved(t, P, rf, key, ch, i)
    /\ \A i \in 0..l - 1 : ch.new[i] \in Fresh(t) /\ ch.new[i] # ch.page
    /\ \A i, j \in 0..l - 1 : ch.new[i] = ch.new[j] => i = j

\* An insertion at its last write: no split on level l, or a new root above them all.
Ends(t, P, rf, key, val, ch, l, top, W) ==
    /\ l \in 0..t.height + 1 /\ Climbed(t, P, rf, key, val, ch, l)
    /\ l <= t.height => /\ Len(Raised(t, key, ch, l).keys) <= MaxLen
                        /\ P[t.route[l][key]] = Raised(t, key, ch, l)
                        /\ W = Spread(t, key, ch, l) \cup {t.route[l][key]}
    /\ l > t.height => /\ P[top] = Internal(<<ch.sep[t.height]>>, <<t.route[t.height][key], ch.new[t.height]>>)
                       /\ P[HEADER_INDEX] = Header(top)
                       /\ top \in Fresh(t) \ Spread(t, key, ch, l)
                       /\ W = Spread(t, key, ch, l) \cup {top, HEADER_INDEX}

\* Whether a key goes to the right half of a node split on the way.
Turns(t, key, ch, top_, l, k) ==
    l < top_ /\ t.route[l][k] = t.route[l][key] /\ ch.sep[l] <= k

Taller(t, l) == IF l > t.height THEN t.height + 1 ELSE t.height
Committed(t, P, key, ch, l, top, W) ==
    [page |-> [i \in Indexes |-> IF i \in W THEN P[i] ELSE t.page[i]],
     height |-> Taller(t, l),
     route |-> [i \in 0..Taller(t, l) |-> [k \in Keys |->
                  IF i > t.height THEN top
                  ELSE IF Turns(t, key, ch, l, i, k) THEN ch.new[i] ELSE t.route[i][k]]],
     own |-> [i \in Indexes |-> IF i = ch.page THEN key ELSE t.own[i]],
     live |-> t.live \cup (W \ {HEADER_INDEX})]

LEMMA NodeType ==
    ASSUME NEW t, NEW rf, Mapped(t, rf), NEW l \in 0..t.height, NEW k \in Keys
    PROVE  /\ l = 0 => SoundLeaf(Node(t, l, k)) /\ Node(t, l, k).type = "leaf"
           /\ l # 0 => SoundInternal(Node(t, l, k)) /\ Node(t, l, k).type = "internal"
<1>1. t.height \in Nat
  BY DEF Mapped, Rooted
<1>2. CASE l = 0
  <2>1. SoundLeaf(Node(t, l, k))
    BY <1>2 DEF Mapped, LeavesHold, LeafHolds
  <2> QED
    BY <1>2, <2>1, LeafFacts
<1>3. CASE l # 0
  <2>1. l \in 1..t.height
    BY <1>1, <1>3
  <2>2. SoundInternal(Node(t, l, k))
    BY <2>1 DEF Mapped, NodesLink, NodeLinks
  <2> QED
    BY <1>3, <2>2, NodeFacts
<1> QED
  BY <1>2, <1>3

\* The node raised on a level is sound, its keys are keys of its own.
LEMMA RaisedSound ==
    ASSUME NEW t, NEW rf, Mapped(t, rf), NEW P, NEW key, NEW val, NEW ch, NEW l \in 0..t.height,
           Climbed(t, P, rf, key, val, ch, l), NEW m, m = Raised(t, key, ch, l)
    PROVE  /\ l = 0 => SoundLeaf(m)
           /\ l # 0 => SoundInternal(m)
           /\ AnyNode(m) /\ Len(m.keys) \in Nat /\ Len(m.keys) = Len(Node(t, l, key).keys) + 1
           /\ \A i \in 1..Len(m.keys) : /\ KeyOf(m, i) \in Keys
                                        /\ t.route[l][KeyOf(m, i)] = t.route[l][key]
                                        /\ KeyOf(m, i) = key \/ rf[KeyOf(m, i)] # 0
<1>1. key \in Keys /\ rf[key] = 0 /\ ch.page \in Nat /\ t.height \in Nat
  BY MaxPagesNat DEF Climbed, Fresh, Indexes, Mapped, Rooted
<1>2. CASE l = 0
  <2>1. /\ SoundLeaf(m) /\ Len(m.keys) = Len(Node(t, 0, key).keys) + 1
        /\ \A e \in Entries(m) : /\ e.key \in Keys /\ t.route[0][e.key] = t.route[0][key]
                                 /\ e.key = key \/ rf[e.key] # 0
    BY <1>1, <1>2, RaisedLeaf
  <2>2. /\ AnyNode(m) /\ Len(m.keys) \in Nat
        /\ \A i \in 1..Len(m.keys) : KeyOf(m, i) = m.keys[i].key
    BY <2>1, LeafFacts
  <2>3. \A i \in 1..Len(m.keys) : m.keys[i] \in Entries(m)
    BY DEF Entries
  <2> QED
    BY <1>2, <2>1, <2>2, <2>3
<1>3. CASE l # 0
  <2>1. l \in 1..t.height /\ l - 1 \in 0..l - 1
    BY <1>1, <1>3
  <2>2. SepHome(t, rf, key, ch.sep[l - 1], l - 1) /\ ch.new[l - 1] \in Nat /\ ch.new[l - 1] \notin t.live
    <3>1. Halved(t, P, rf, key, ch, l - 1) /\ ch.new[l - 1] \in Fresh(t)
      BY <2>1 DEF Climbed
    <3>2. SepHome(t, rf, key, ch.sep[l - 1], l - 1)
      BY <3>1 DEF Halved
    <3> QED
      BY <3>1, <3>2, MaxPagesNat DEF Fresh, Indexes
  <2>3. /\ SoundInternal(m) /\ Len(m.keys) = Len(Node(t, l, key).keys) + 1
        /\ \A e \in Entries(m) : /\ e \in Keys /\ t.route[l][e] = t.route[l][key]
                                 /\ e = key \/ rf[e] # 0
    BY <1>1, <2>1, <2>2, RaisedNode
  <2>4. /\ AnyNode(m) /\ Len(m.keys) \in Nat
        /\ \A i \in 1..Len(m.keys) : KeyOf(m, i) = m.keys[i]
    BY <2>3, NodeFacts
  <2>5. \A i \in 1..Len(m.keys) : m.keys[i] \in Entries(m)
    BY DEF Entries
  <2> QED
    BY <1>3, <2>3, <2>4, <2>5
<1> QED
  BY <1>2, <1>3

\* The separator of a split is a key of the node, and not its least.
LEMMA SepIsHome ==
    ASSUME NEW t, NEW rf, Mapped(t, rf), NEW P, NEW key, NEW val, NEW ch, NEW l \in 0..t.height,
           Climbed(t, P, rf, key, val, ch, l), NEW m, m = Raised(t, key, ch, l),
           Len(m.keys) > MaxLen
    PROVE  SepHome(t, rf, key, SepOf(m), l)
<1> DEFINE h == Half(Len(m.keys))
<1>1. /\ AnyNode(m) /\ Ordered(KeysOf(m)) /\ Len(m.keys) \in Nat
      /\ \A i \in 1..Len(m.keys) : /\ KeyOf(m, i) \in Keys
                                   /\ t.route[l][KeyOf(m, i)] = t.route[l][key]
                                   /\ KeyOf(m, i) = key \/ rf[KeyOf(m, i)] # 0
  BY RaisedSound DEF SoundLeaf, SoundInternal
<1>2. Len(m.keys) >= 3
  BY <1>1, LenAssumption
<1>3. h \in 2..Len(m.keys) - 1
  BY <1>1, <1>2, HalfBounds
<1> HIDE DEF h
<1>4. h + 1 \in 1..Len(m.keys) /\ 1 \in 1..Len(m.keys) /\ 1 < h + 1
  BY <1>1, <1>2, <1>3
<1>5. KeyOf(m, 1) < KeyOf(m, h + 1)
  BY <1>1, <1>4, KeysTyped DEF Ordered
<1> QED
  BY <1>1, <1>4, <1>5 DEF SepHome, SepOf, h

------------------------------------------------------------------------------
(* What an insertion makes of the tree when it returns.                    *)

\* Routes and pages after it, on the levels there were.
SeenAfter(t, u, P, key, val, ch, l) ==
    /\ \A i \in 0..t.height, k \in Keys :
          /\ u.route[i][k] = IF Turns(t, key, ch, l, i, k) THEN ch.new[i] ELSE t.route[i][k]
          /\ ~(i <= l /\ t.route[i][k] = t.route[i][key]) => Node(u, i, k) = Node(t, i, k)
          /\ i <= l /\ t.route[i][k] = t.route[i][key] =>
                Node(u, i, k) = LET m == Raised(t, key, ch, i) IN
                   IF i = l THEN m
                   ELSE IF Turns(t, key, ch, l, i, k) THEN RightOf(m, t.route[i][key])
                   ELSE LeftOf(m, ch.new[i])
    /\ \A i \in t.live : t.page[i].type = "value" => u.page[i] = t.page[i]
    /\ u.page[ch.page] = Value(val)
    /\ \A i \in t.live : u.own[i] = t.own[i]
    /\ u.own[ch.page] = key

\* The pages in use after it.
UsedAfter(t, u, key, ch, l, top) ==
    /\ u.live \subseteq Indexes \ {0}
    /\ t.live \subseteq u.live /\ ch.page \in u.live
    /\ \A i \in 0..l - 1 : ch.new[i] \in u.live
    /\ \A i \in u.live : \/ i \in t.live
                         \/ i = ch.page
                         \/ \E j \in 0..l - 1 : i = ch.new[j]
                         \/ l > t.height /\ i = top
    /\ l > t.height => top \in u.live

LEMMA AfterEnd ==
    ASSUME NEW t, NEW rf, Mapped(t, rf), NEW P, NEW key, NEW val, NEW ch, NEW l, NEW top, NEW W,
           Ends(t, P, rf, key, val, ch, l, top, W), NEW u, u = Committed(t, P, key, ch, l, top, W)
    PROVE  SeenAfter(t, u, P, key, val, ch, l) /\ UsedAfter(t, u, key, ch, l, top)
<1>1. /\ t.height \in Nat /\ t.live \subseteq Indexes \ {0}
      /\ l \in 0..t.height + 1 /\ Climbed(t, P, rf, key, val, ch, l)
  BY DEF Mapped, Rooted, Ends
<1>2. /\ key \in Keys /\ ch.page \in Fresh(t) /\ P[ch.page] = Value(val)
      /\ \A i \in 0..l - 1 : Halved(t, P, rf, key, ch, i)
      /\ \A i \in 0..l - 1 : ch.new[i] \in Fresh(t) /\ ch.new[i] # ch.page
  BY <1>1 DEF Climbed
<1>3. \A i \in 0..t.height, k \in Keys : t.route[i][k] \in t.live
  BY RouteTyped DEF Mapped
<1>4. \A i \in Indexes : u.page[i] = IF i \in W THEN P[i] ELSE t.page[i]
  BY DEF Committed
<1>5. \A i \in 0..t.height, k \in Keys :
         u.route[i][k] = IF Turns(t, key, ch, l, i, k) THEN ch.new[i] ELSE t.route[i][k]
  <2>1. \A i \in 0..t.height : i \in 0..Taller(t, l) /\ ~(i > t.height)
    BY <1>1 DEF Taller
  <2>2. u.route = [i \in 0..Taller(t, l) |-> [k \in Keys |->
                  IF i > t.height THEN top
                  ELSE IF Turns(t, key, ch, l, i, k) THEN ch.new[i] ELSE t.route[i][k]]]
    BY DEF Committed
  <2> QED
    BY <2>1, <2>2
<1>6. \A i \in t.live : i \in W <=> \E j \in 0..t.height : j <= l /\ i = t.route[j][key]
  <2>1. ASSUME NEW i \in t.live, i \in W PROVE \E j \in 0..t.height : j <= l /\ i = t.route[j][key]
    <3>1. i \notin Fresh(t) /\ i # 0 /\ i # HEADER_INDEX
      BY <1>1 DEF Fresh, HEADER_INDEX
    <3>2. i \in Spread(t, key, ch, l) => \E j \in 0..l - 1 : i = t.route[j][key]
      BY <3>1, <1>2 DEF Spread
    <3>3. CASE i \in Spread(t, key, ch, l)
      <4>1. PICK j \in 0..l - 1 : i = t.route[j][key]
        BY <3>2, <3>3
      <4>2. j \in 0..t.height /\ j <= l
        BY <1>1
      <4> QED
        BY <4>1, <4>2
    <3>4. CASE i \notin Spread(t, key, ch, l)
      <4>1. l <= t.height /\ i = t.route[l][key]
        BY <3>1, <3>4, <2>1, <1>1 DEF Ends
      <4>2. l \in 0..t.height /\ l <= l
        BY <4>1, <1>1
      <4> QED
        BY <4>1, <4>2
    <3> QED
      BY <3>3, <3>4
  <2>2. ASSUME NEW j \in 0..t.height, j <= l PROVE t.route[j][key] \in W
    <3>1. CASE j = l
      BY <3>1, <1>1 DEF Ends
    <3>2. CASE j # l
      <4>1. j \in 0..l - 1
        BY <2>2, <3>2, <1>1
      <4>2. t.route[j][key] \in Spread(t, key, ch, l)
        BY <4>1 DEF Spread
      <4>3. l <= t.height \/ l > t.height
        BY <1>1
      <4> QED
        BY <4>2, <4>3 DEF Ends
    <3> QED
      BY <3>1, <3>2
  <2> QED
    BY <2>1, <2>2
<1>7. Spread(t, key, ch, l) \subseteq W
  <2>1. l <= t.height \/ l > t.height
    BY <1>1
  <2> QED
    BY <2>1 DEF Ends
<1>8. /\ ch.page \in W /\ \A i \in 0..l - 1 : ch.new[i] \in W /\ t.route[i][key] \in W
  BY <1>7 DEF Spread
<1>9. ASSUME NEW i \in 0..t.height, NEW k \in Keys
      PROVE  /\ ~(i <= l /\ t.route[i][k] = t.route[i][key]) => Node(u, i, k) = Node(t, i, k)
             /\ i <= l /\ t.route[i][k] = t.route[i][key] =>
                Node(u, i, k) = LET m == Raised(t, key, ch, i) IN
                   IF i = l THEN m
                   ELSE IF Turns(t, key, ch, l, i, k) THEN RightOf(m, t.route[i][key])
                   ELSE LeftOf(m, ch.new[i])
  <2> DEFINE x == t.route[i][k]
  <2>1. x \in t.live /\ x \in Indexes
    BY <1>1, <1>3
  <2>2. CASE ~(i <= l /\ x = t.route[i][key])
    <3>1. ~Turns(t, key, ch, l, i, k)
      BY <2>2, <1>1 DEF Turns
    <3>2. x \notin W
      <4>1. SUFFICES ASSUME x \in W PROVE FALSE
        OBVIOUS
      <4>2. PICK j \in 0..t.height : j <= l /\ x = t.route[j][key]
        BY <2>1, <4>1, <1>6
      <4>3. i = j
        BY <4>2, <1>2 DEF Mapped, Leveled
      <4> QED
        BY <2>2, <4>2, <4>3
    <3>3. u.route[i][k] = x
      BY <3>1, <1>5
    <3>4. Node(u, i, k) = Node(t, i, k)
      BY <2>1, <3>2, <3>3, <1>4 DEF Node
    <3> QED
      BY <2>2, <3>4
  <2>3. CASE i = l /\ x = t.route[i][key]
    <3>1. ~Turns(t, key, ch, l, i, k)
      BY <2>3, <1>1 DEF Turns
    <3>2. x \in W /\ u.route[i][k] = x
      BY <2>1, <2>3, <3>1, <1>1, <1>5, <1>6
    <3>3. P[x] = Raised(t, key, ch, l)
      BY <2>3, <1>1 DEF Ends
    <3> QED
      BY <2>1, <2>3, <3>2, <3>3, <1>4 DEF Node
  <2>4. CASE i < l /\ x = t.route[i][key]
    <3>1. i \in 0..l - 1 /\ i # l /\ i <= l
      BY <2>4, <1>1
    <3>2. Halved(t, P, rf, key, ch, i) /\ ch.new[i] \in Fresh(t) /\ ch.new[i] \in W /\ x \in W
      BY <2>4, <3>1, <1>2, <1>8
    <3>3. ch.new[i] \in Indexes
      BY <3>2 DEF Fresh
    <3>4. CASE Turns(t, key, ch, l, i, k)
      <4>1. Node(u, i, k) = P[ch.new[i]]
        BY <3>2, <3>3, <3>4, <1>4, <1>5 DEF Node
      <4>2. Node(u, i, k) = RightOf(Raised(t, key, ch, i), t.route[i][key])
        BY <4>1, <3>2 DEF Halved
      <4> QED
        BY <4>2, <3>1, <3>4, <2>4, Zenon
    <3>5. CASE ~Turns(t, key, ch, l, i, k)
      <4>1. Node(u, i, k) = P[x]
        BY <2>1, <3>2, <3>5, <1>4, <1>5 DEF Node
      <4>2. Node(u, i, k) = LeftOf(Raised(t, key, ch, i), ch.new[i])
        BY <4>1, <3>2, <2>4 DEF Halved
      <4> QED
        BY <4>2, <3>1, <3>5, <2>4, Zenon
    <3> QED
      BY <3>4, <3>5
  <2>5. i < l \/ i = l \/ ~(i <= l)
    BY <1>1
  <2> QED
    BY <2>2, <2>3, <2>4, <2>5
<1>10. ASSUME NEW i \in t.live, t.page[i].type = "value" PROVE u.page[i] = t.page[i]
  <2>1. i \notin W
    <3>1. SUFFICES ASSUME i \in W PROVE FALSE
      OBVIOUS
    <3>2. PICK j \in 0..t.height : i = t.route[j][key]
      BY <3>1, <1>6
    <3>3. Node(t, j, key).type = "leaf" \/ Node(t, j, key).type = "internal"
      BY <1>2, NodeType
    <3> QED
      BY <3>2, <3>3, <1>10 DEF Node
  <2> QED
    BY <2>1, <1>1, <1>4
<1>11. u.page[ch.page] = Value(val) /\ u.own[ch.page] = key /\ \A i \in t.live : u.own[i] = t.own[i]
  <2>1. ch.page \in Indexes /\ ch.page \notin t.live
    BY <1>2 DEF Fresh
  <2>2. \A i \in Indexes : u.own[i] = IF i = ch.page THEN key ELSE t.own[i]
    BY DEF Committed
  <2> QED
    BY <2>1, <2>2, <1>1, <1>2, <1>4, <1>8
<1>12. UsedAfter(t, u, key, ch, l, top)
  <2>1. u.live = t.live \cup (W \ {0})
    BY DEF Committed, HEADER_INDEX
  <2>2. ch.page # 0 /\ \A i \in 0..l - 1 : ch.new[i] # 0
    BY <1>2 DEF Fresh
  <2>3. ASSUME NEW i \in W, i # 0, i \notin t.live
        PROVE  \/ i = ch.page
               \/ \E j \in 0..l - 1 : i = ch.new[j]
               \/ l > t.height /\ i = top
    <3>1. \A j \in 0..l - 1 : t.route[j][key] \in t.live
      <4>1. \A j \in 0..l - 1 : j \in 0..t.height
        BY <1>1
      <4> QED
        BY <4>1, <1>2, <1>3
    <3>2. CASE i \in Spread(t, key, ch, l)
      BY <3>1, <3>2, <2>3 DEF Spread
    <3>3. CASE i \notin Spread(t, key, ch, l)
      <4>1. CASE l <= t.height
        <5>1. i = t.route[l][key] /\ l \in 0..t.height
          BY <3>3, <4>1, <1>1 DEF Ends
        <5> QED
          BY <5>1, <2>3, <1>2, <1>3
      <4>2. CASE l > t.height
        BY <3>3, <4>2, <2>3 DEF Ends, HEADER_INDEX
      <4> QED
        BY <4>1, <4>2, <1>1
    <3> QED
      BY <3>2, <3>3
  <2>4. l > t.height => top \in W /\ top # 0 /\ top \in Indexes
    BY DEF Ends, Fresh
  <2>5. ch.page \in Indexes /\ \A i \in 0..l - 1 : ch.new[i] \in Indexes
    BY <1>2 DEF Fresh
  <2>6. u.live \subseteq Indexes \ {0}
    BY <2>1, <2>3, <2>4, <2>5, <1>1
  <2> QED
    BY <2>1, <2>2, <2>3, <2>4, <2>6, <1>8 DEF UsedAfter
<1> QED
  BY <1>5, <1>9, <1>10, <1>11, <1>12 DEF SeenAfter

\* The leaf of a key, where the insertion went: the entries on the key's side of the cut.
LEMMA LeafPart ==
    ASSUME NEW t, NEW rf, Mapped(t, rf), NEW P, NEW key, NEW val, NEW ch, NEW l, NEW top, NEW W,
           Ends(t, P, rf, key, val, ch, l, top, W), NEW u, u = Committed(t, P, key, ch, l, top, W),
           NEW k \in Keys, t.route[0][k] = t.route[0][key],
           NEW m, m = Raised(t, key, ch, 0), NEW p, p = Node(u, 0, k)
    PROVE  /\ SoundLeaf(m) /\ SoundLeaf(p)
           /\ Entries(m) = Entries(Node(t, 0, key)) \cup {[key |-> key, page |-> ch.page]}
           /\ \A e \in Entries(m) : e.key \in Keys /\ t.route[0][e.key] = t.route[0][key]
           /\ Entries(p) = {e \in Entries(m) : Turns(t, key, ch, l, 0, e.key) <=> Turns(t, key, ch, l, 0, k)}
           /\ Len(m.keys) = Len(Node(t, 0, key).keys) + 1 /\ m.next = Node(t, 0, key).next
           /\ l = 0 => p = m
           /\ l # 0 => /\ Len(m.keys) > MaxLen
                       /\ IF Turns(t, key, ch, l, 0, k)
                          THEN Len(p.keys) = Len(m.keys) - Half(Len(m.keys)) /\ p.next = m.next
                          ELSE Len(p.keys) = Half(Len(m.keys)) /\ p.next = ch.new[0]
<1> DEFINE x == t.route[0][key]
           T(q) == Turns(t, key, ch, l, 0, q)
<1>1. /\ t.height \in Nat /\ l \in 0..t.height + 1 /\ Climbed(t, P, rf, key, val, ch, l)
      /\ key \in Keys /\ rf[key] = 0 /\ ch.page \in Nat
  <2>1. t.height \in Nat /\ l \in 0..t.height + 1 /\ Climbed(t, P, rf, key, val, ch, l)
    BY DEF Mapped, Rooted, Ends
  <2>2. key \in Keys /\ rf[key] = 0 /\ ch.page \in Fresh(t)
    BY <2>1 DEF Climbed
  <2>3. ch.page \in Nat
    BY <2>2, MaxPagesNat DEF Fresh, Indexes
  <2> QED
    BY <2>1, <2>2, <2>3
<1>2. /\ SoundLeaf(m) /\ Entries(m) = Entries(Node(t, 0, key)) \cup {[key |-> key, page |-> ch.page]}
      /\ Len(m.keys) = Len(Node(t, 0, key).keys) + 1 /\ m.next = Node(t, 0, key).next
      /\ \A e \in Entries(m) : e.key \in Keys /\ t.route[0][e.key] = x
  BY <1>1, RaisedLeaf
<1>3. SeenAfter(t, u, P, key, val, ch, l)
  BY AfterEnd
<1>4. p = IF 0 = l THEN m ELSE IF T(k) THEN RightOf(m, x) ELSE LeftOf(m, ch.new[0])
  <2>1. 0 \in 0..t.height /\ 0 <= l
    BY <1>1
  <2> QED
    BY <1>3, <2>1 DEF SeenAfter
<1>5. CASE l = 0
  <2>1. \A q : ~T(q)
    BY <1>5 DEF Turns
  <2>2. p = m
    BY <1>4, <1>5
  <2>3. Entries(p) = {e \in Entries(m) : T(e.key) <=> T(k)}
    BY <2>1, <2>2
  <2> QED
    BY <1>2, <1>5, <2>2, <2>3
<1>6. CASE l # 0
  <2>1. Halved(t, P, rf, key, ch, 0) /\ ch.new[0] \in Nat
    <3>1. 0 \in 0..l - 1
      BY <1>1, <1>6
    <3> QED
      BY <3>1, <1>1, MaxPagesNat DEF Climbed, Fresh, Indexes
  <2>2. Len(m.keys) > MaxLen /\ ch.sep[0] = SepOf(m)
    BY <2>1 DEF Halved
  <2>3. Len(m.keys) >= 3
    BY <2>2, <1>2, LeafFacts, LenAssumption
  <2>4. x \in Nat
    <3>1. 0 \in 0..t.height
      BY <1>1
    <3> QED
      BY <3>1, <1>1, RouteTyped, MaxPagesNat DEF Mapped, Indexes
  <2> DEFINE s == SepOf(m)
             lf == LeftOf(m, ch.new[0])
             rg == RightOf(m, x)
  <2>5. /\ s \in Int
        /\ SoundLeaf(lf) /\ Entries(lf) = {e \in Entries(m) : e.key < s} /\ lf.next = ch.new[0]
        /\ SoundLeaf(rg) /\ Entries(rg) = {e \in Entries(m) : s <= e.key} /\ rg.next = m.next
        /\ Len(lf.keys) = Half(Len(m.keys)) /\ Len(rg.keys) = Len(m.keys) - Half(Len(m.keys))
    <3>1. SoundLeaf(m) /\ ch.new[0] \in Nat /\ x \in Nat /\ Len(m.keys) >= 3
      BY <1>2, <2>1, <2>3, <2>4
    <3> HIDE DEF x, T
    <3> QED
      BY ONLY <3>1, LeafHalves DEF s, lf, rg
  <2>6. \A q \in Keys : t.route[0][q] = x => (T(q) <=> s <= q)
    BY <1>1, <1>6, <2>2 DEF Turns
  <2>7. \A e \in Entries(m) : (T(e.key) <=> s <= e.key) /\ (~T(e.key) <=> e.key < s)
    BY <1>2, <2>5, <2>6, KeysInt
  <2> HIDE DEF T, lf, rg, s
  <2>8. CASE T(k)
    <3>1. p = rg
      BY <1>4, <1>6, <2>8 DEF rg
    <3>2. Entries(p) = {e \in Entries(m) : T(e.key) <=> T(k)}
      BY <3>1, <2>5, <2>7, <2>8
    <3> QED
      BY <3>1, <3>2, <1>2, <1>6, <2>2, <2>5, <2>8 DEF T
  <2>9. CASE ~T(k)
    <3>1. p = lf
      BY <1>4, <1>6, <2>9 DEF lf
    <3>2. Entries(p) = {e \in Entries(m) : T(e.key) <=> T(k)}
      BY <3>1, <2>5, <2>7, <2>9
    <3> QED
      BY <3>1, <3>2, <1>2, <1>6, <2>2, <2>5, <2>9 DEF T
  <2> QED
    BY <2>8, <2>9
<1> QED
  BY <1>5, <1>6

\* The same for an internal node.
LEMMA NodePart ==
    ASSUME NEW t, NEW rf, Mapped(t, rf), NEW P, NEW key, NEW val, NEW ch, NEW l, NEW top, NEW W,
           Ends(t, P, rf, key, val, ch, l, top, W), NEW u, u = Committed(t, P, key, ch, l, top, W),
           NEW i \in 1..t.height, i <= l,
           NEW k \in Keys, t.route[i][k] = t.route[i][key],
           NEW m, m = Raised(t, key, ch, i), NEW p, p = Node(u, i, k)
    PROVE  /\ SoundInternal(m) /\ SoundInternal(p)
           /\ \A e \in Entries(m) : /\ e \in Keys /\ t.route[i][e] = t.route[i][key]
                                    /\ e = key \/ rf[e] # 0
           /\ \A e \in Entries(p) : /\ e \in Entries(m)
                                    /\ Turns(t, key, ch, l, i, e) <=> Turns(t, key, ch, l, i, k)
           /\ p.children[ChildPos(p, k)] = m.children[ChildPos(m, k)]
           /\ \A j \in 1..Len(p.children) : \E q \in Keys :
                /\ t.route[i][q] = t.route[i][key] /\ ChildPos(p, q) = j
                /\ Turns(t, key, ch, l, i, q) <=> Turns(t, key, ch, l, i, k)
           /\ m.children[ChildPos(m, k)] =
                IF Turns(t, key, ch, l, i - 1, k) THEN ch.new[i - 1] ELSE t.route[i - 1][k]
           /\ Len(m.keys) = Len(Node(t, i, key).keys) + 1
           /\ i = l => p = m
           /\ i # l => /\ Len(m.keys) > MaxLen
                       /\ Len(p.keys) = IF Turns(t, key, ch, l, i, k)
                                        THEN Len(m.keys) - Half(Len(m.keys)) - 1 ELSE Half(Len(m.keys))
                       /\ Turns(t, key, ch, l, i, k) <=> ChildPos(m, k) > Half(Len(m.keys)) + 1
<1> DEFINE x == t.route[i][key]
           T(q) == Turns(t, key, ch, l, i, q)
           h == Half(Len(m.keys))
<1>1. /\ t.height \in Nat /\ l \in 0..t.height + 1 /\ Climbed(t, P, rf, key, val, ch, l)
      /\ key \in Keys /\ rf[key] = 0
  BY DEF Mapped, Rooted, Ends, Climbed
<1>2. i - 1 \in 0..l - 1 /\ i \in 0..t.height /\ i - 1 < l
  BY <1>1
<1>3. /\ SepHome(t, rf, key, ch.sep[i - 1], i - 1)
      /\ ch.new[i - 1] \in Nat /\ ch.new[i - 1] \notin t.live
  <2>1. Halved(t, P, rf, key, ch, i - 1) /\ ch.new[i - 1] \in Fresh(t)
    BY <1>1, <1>2 DEF Climbed
  <2>2. SepHome(t, rf, key, ch.sep[i - 1], i - 1)
    BY <2>1 DEF Halved
  <2> QED
    BY <2>1, <2>2, MaxPagesNat DEF Fresh, Indexes
<1>4. /\ SoundInternal(m) /\ Len(m.keys) = Len(Node(t, i, key).keys) + 1
      /\ \A e \in Entries(m) : /\ e \in Keys /\ t.route[i][e] = t.route[i][key]
                               /\ e = key \/ rf[e] # 0
      /\ \A q \in Keys : t.route[i][q] = t.route[i][key] =>
            m.children[ChildPos(m, q)] =
               IF t.route[i - 1][q] = t.route[i - 1][key] /\ ch.sep[i - 1] <= q
               THEN ch.new[i - 1] ELSE t.route[i - 1][q]
      /\ \A j \in 1..Len(m.children) :
            \E q \in Keys : t.route[i][q] = t.route[i][key] /\ ChildPos(m, q) = j
  BY <1>1, <1>3, RaisedNode
<1>5. m.children[ChildPos(m, k)] =
         IF Turns(t, key, ch, l, i - 1, k) THEN ch.new[i - 1] ELSE t.route[i - 1][k]
  BY <1>2, <1>4 DEF Turns
<1>6. p = IF i = l THEN m ELSE IF T(k) THEN RightOf(m, x) ELSE LeftOf(m, ch.new[i])
  <2>1. SeenAfter(t, u, P, key, val, ch, l)
    BY AfterEnd
  <2> QED
    BY <1>2, <2>1 DEF SeenAfter
<1>7. CASE i = l
  <2>1. \A q : ~T(q)
    BY <1>1, <1>7 DEF Turns
  <2>2. p = m
    BY <1>6, <1>7
  <2> QED
    BY <1>4, <1>5, <1>7, <2>1, <2>2
<1>8. CASE i # l
  <2>1. i < l /\ i \in 0..l - 1
    BY <1>1, <1>8
  <2>2. Len(m.keys) > MaxLen /\ ch.sep[i] = SepOf(m)
    BY <2>1, <1>1 DEF Climbed, Halved
  <2>3. Len(m.keys) >= 3 /\ Len(m.keys) \in Nat /\ m.type = "internal"
    BY <2>2, <1>4, NodeFacts, LenAssumption
  <2> DEFINE s == SepOf(m)
             lf == InternalLeft(m)
             rg == InternalRight(m)
  <2>4. RightOf(m, x) = rg /\ LeftOf(m, ch.new[i]) = lf
    BY <2>3 DEF RightOf, LeftOf
  <2>5. /\ s \in Int
        /\ SoundInternal(lf) /\ Entries(lf) = {e \in Entries(m) : e < s}
        /\ SoundInternal(rg) /\ Entries(rg) = {e \in Entries(m) : s < e}
        /\ Len(lf.keys) = h /\ Len(rg.keys) = Len(m.keys) - h - 1
        /\ \A q \in Int : s <= q <=> ChildPos(m, q) > h + 1
        /\ \A q \in Int : q < s => /\ ChildPos(lf, q) = ChildPos(m, q)
                                   /\ lf.children[ChildPos(lf, q)] = m.children[ChildPos(m, q)]
        /\ \A q \in Int : s <= q => /\ ChildPos(rg, q) = ChildPos(m, q) - (h + 1)
                                    /\ rg.children[ChildPos(rg, q)] = m.children[ChildPos(m, q)]
    <3>1. s = SepOf(m) /\ h = Half(Len(m.keys)) /\ lf = InternalLeft(m) /\ rg = InternalRight(m)
      OBVIOUS
    <3>2. SoundInternal(m) /\ Len(m.keys) >= 3
      BY <1>4, <2>3
    <3> HIDE DEF s, h, lf, rg
    <3> QED
      BY ONLY <3>1, <3>2, NodeHalves, SMTT(20)
  <2>6. h \in 2..Len(m.keys) - 1
    BY <2>3, HalfBounds
  <2>7. \A q \in Keys : t.route[i][q] = x => (T(q) <=> s <= q) /\ (~T(q) <=> q < s)
    <3>1. \A q \in Keys : t.route[i][q] = x => (T(q) <=> s <= q)
      BY <2>1, <2>2 DEF Turns
    <3> QED
      BY <3>1, <2>5, KeysInt
  <2>8. T(k) <=> ChildPos(m, k) > h + 1
    BY <2>5, <2>7, KeysInt
  <2> HIDE DEF T, h, s, lf, rg
  <2>9. CASE T(k)
    <3>1. p = rg
      BY <1>6, <1>8, <2>4, <2>9
    <3>2. ASSUME NEW e \in Entries(p) PROVE e \in Entries(m) /\ (T(e) <=> T(k))
      <4>1. e \in Entries(m) /\ s < e
        BY <3>1, <2>5
      <4>2. e \in Keys /\ t.route[i][e] = x
        BY <4>1, <1>4
      <4> QED
        BY <4>1, <4>2, <2>5, <2>7, <2>9, KeysInt
    <3>3. p.children[ChildPos(p, k)] = m.children[ChildPos(m, k)]
      BY <3>1, <2>5, <2>7, <2>9, KeysInt
    <3>4. ASSUME NEW j \in 1..Len(p.children)
          PROVE  \E q \in Keys : t.route[i][q] = t.route[i][key] /\ ChildPos(p, q) = j /\ (T(q) <=> T(k))
      <4>1. Len(p.children) = Len(m.keys) - h /\ Len(m.children) = Len(m.keys) + 1
        <5>1. Len(rg.children) = Len(rg.keys) + 1 /\ Len(m.children) = Len(m.keys) + 1
          BY <1>4, <2>5, NodeFacts
        <5>2. Len(rg.keys) = Len(m.keys) - h - 1 /\ h \in Nat
          BY <2>5, <2>6
        <5> QED
          BY ONLY <3>1, <5>1, <5>2, <2>3
      <4>2. j + (h + 1) \in 1..Len(m.children) /\ j + (h + 1) > h + 1 /\ (j + (h + 1)) - (h + 1) = j
        BY <4>1, <2>3, <2>6
      <4>3. PICK q \in Keys : t.route[i][q] = t.route[i][key] /\ ChildPos(m, q) = j + (h + 1)
        BY <4>2, <1>4
      <4>4. s <= q
        BY <4>2, <4>3, <2>5, KeysInt
      <4>5. ChildPos(p, q) = j
        BY <3>1, <4>2, <4>3, <4>4, <2>5, KeysInt
      <4> QED
        BY <4>3, <4>4, <4>5, <2>7, <2>9
    <3>5. Len(p.keys) = Len(m.keys) - h - 1 /\ SoundInternal(p)
      BY <3>1, <2>5
    <3> QED
      BY <3>2, <3>3, <3>4, <3>5, <1>4, <1>5, <1>8, <2>2, <2>8, <2>9 DEF T, h
  <2>10. CASE ~T(k)
    <3>1. p = lf
      BY <1>6, <1>8, <2>4, <2>10
    <3>2. ASSUME NEW e \in Entries(p) PROVE e \in Entries(m) /\ (T(e) <=> T(k))
      <4>1. e \in Entries(m) /\ e < s
        BY <3>1, <2>5
      <4>2. e \in Keys /\ t.route[i][e] = x
        BY <4>1, <1>4
      <4> QED
        BY <4>1, <4>2, <2>7, <2>10
    <3>3. p.children[ChildPos(p, k)] = m.children[ChildPos(m, k)]
      BY <3>1, <2>5, <2>7, <2>10, KeysInt
    <3>4. ASSUME NEW j \in 1..Len(p.children)
          PROVE  \E q \in Keys : t.route[i][q] = t.route[i][key] /\ ChildPos(p, q) = j /\ (T(q) <=> T(k))
      <4>1. Len(p.children) = h + 1 /\ Len(m.children) = Len(m.keys) + 1
        BY <3>1, <1>4, <2>5, NodeFacts
      <4>2. j \in 1..Len(m.children) /\ ~(j > h + 1)
        BY <4>1, <2>3, <2>6
      <4>3. PICK q \in Keys : t.route[i][q] = t.route[i][key] /\ ChildPos(m, q) = j
        BY <4>2, <1>4
      <4>4. ~(s <= q)
        BY <4>2, <4>3, <2>5, KeysInt
      <4>5. q < s
        BY <4>4, <2>5, KeysInt
      <4>6. ChildPos(p, q) = j
        BY <3>1, <4>3, <4>5, <2>5, KeysInt
      <4> QED
        BY <4>3, <4>5, <4>6, <2>7, <2>10
    <3>5. Len(p.keys) = h /\ SoundInternal(p)
      BY <3>1, <2>5
    <3> QED
      BY <3>2, <3>3, <3>4, <3>5, <1>4, <1>5, <1>8, <2>2, <2>8, <2>10 DEF T, h
  <2> QED
    BY <2>9, <2>10
<1> QED
  BY <1>7, <1>8

\* The leaf of every key, after the insertion.
LEMMA LeafAfter ==
    ASSUME NEW t, NEW rf \in [Keys -> Nat], Mapped(t, rf), NEW P, NEW key, NEW val, NEW ch, NEW l,
           NEW top, NEW W, Ends(t, P, rf, key, val, ch, l, top, W),
           NEW u, u = Committed(t, P, key, ch, l, top, W),
           NEW rf2, rf2 = [rf EXCEPT ![key] = val], NEW k \in Keys
    PROVE  LeafHolds(u, rf2, k)
<1> DEFINE n == Node(t, 0, k)
           p == Node(u, 0, k)
<1>1. /\ t.height \in Nat /\ l \in 0..t.height + 1 /\ key \in Keys /\ rf[key] = 0 /\ val \in Nat \ {0}
      /\ LeafHolds(t, rf, k) /\ LeafHolds(t, rf, key)
  <2>1. t.height \in Nat /\ l \in 0..t.height + 1 /\ Climbed(t, P, rf, key, val, ch, l)
    BY DEF Mapped, Rooted, Ends
  <2>2. key \in Keys /\ rf[key] = 0 /\ val \in Nat \ {0}
    BY <2>1 DEF Climbed
  <2>3. LeafHolds(t, rf, k) /\ LeafHolds(t, rf, key)
    BY <2>2 DEF Mapped, LeavesHold
  <2> QED
    BY <2>1, <2>2, <2>3
<1>2. SeenAfter(t, u, P, key, val, ch, l) /\ UsedAfter(t, u, key, ch, l, top)
  BY AfterEnd
<1>3. /\ \A q \in Keys : u.route[0][q] = IF Turns(t, key, ch, l, 0, q) THEN ch.new[0] ELSE t.route[0][q]
      /\ ~(0 <= l /\ t.route[0][k] = t.route[0][key]) => p = n
  <2>1. 0 \in 0..t.height
    BY <1>1
  <2> QED
    BY <1>2, <2>1 DEF SeenAfter
<1>4. /\ \A i \in t.live : t.page[i].type = "value" => u.page[i] = t.page[i]
      /\ u.page[ch.page] = Value(val) /\ u.own[ch.page] = key
      /\ \A i \in t.live : u.own[i] = t.own[i]
      /\ t.live \subseteq u.live /\ ch.page \in u.live
  BY <1>2 DEF SeenAfter, UsedAfter
<1>5. rf2[key] = val /\ \A q \in Keys : q # key => rf2[q] = rf[q]
  BY <1>1
<1>6. ASSUME NEW e \in Entries(n)
      PROVE  /\ e.key \in Keys /\ t.route[0][e.key] = t.route[0][k] /\ e.key # key
             /\ e.page \in u.live /\ u.own[e.page] = e.key /\ u.page[e.page] = Value(rf2[e.key])
  <2>1. /\ e.key \in Keys /\ t.route[0][e.key] = t.route[0][k]
        /\ e.page \in t.live /\ t.own[e.page] = e.key /\ t.page[e.page] = Value(rf[e.key])
    BY <1>1 DEF LeafHolds
  <2>2. e.key # key
    <3>1. SUFFICES ASSUME e.key = key PROVE FALSE
      OBVIOUS
    <3>2. Node(t, 0, key) = n
      BY <2>1, <3>1 DEF Node
    <3>3. SoundLeaf(n)
      BY <1>1 DEF LeafHolds
    <3>4. Holds(n, key)
      BY <3>1, <3>3, LeafFacts
    <3> QED
      BY <1>1, <3>2, <3>4 DEF LeafHolds
  <2>3. t.page[e.page].type = "value"
    BY <2>1 DEF Value
  <2> QED
    BY <2>1, <2>2, <2>3, <1>4, <1>5
<1>7. CASE t.route[0][k] = t.route[0][key]
  <2> DEFINE m == Raised(t, key, ch, 0)
             T(q) == Turns(t, key, ch, l, 0, q)
  <2>1. /\ SoundLeaf(m) /\ SoundLeaf(p)
        /\ Entries(m) = Entries(Node(t, 0, key)) \cup {[key |-> key, page |-> ch.page]}
        /\ Entries(p) = {e \in Entries(m) : T(e.key) <=> T(k)}
    BY <1>7, LeafPart
  <2>2. Node(t, 0, key) = n
    BY <1>7 DEF Node
  <2> HIDE DEF T, m, p, n
  <2>3. Holds(p, k) <=> rf2[k] # 0
    <3>1. Holds(p, k) <=> \E e \in Entries(m) : e.key = k
      BY <2>1, LeafFacts
    <3>2. Holds(n, k) <=> \E e \in Entries(n) : e.key = k
      BY <1>1, LeafFacts DEF n, LeafHolds
    <3>3. Holds(n, k) <=> rf[k] # 0
      BY <1>1 DEF n, LeafHolds
    <3>4. Holds(p, k) <=> k = key \/ Holds(n, k)
      <4>1. Entries(m) = Entries(n) \cup {[key |-> key, page |-> ch.page]}
        BY <2>1, <2>2
      <4>2. (\E e \in Entries(m) : e.key = k) <=> k = key \/ \E e \in Entries(n) : e.key = k
        <5>1. [key |-> key, page |-> ch.page].key = key
          OBVIOUS
        <5>2. [key |-> key, page |-> ch.page] \in Entries(m)
          BY ONLY <4>1, Zenon
        <5>3. \A e \in Entries(m) : e \in Entries(n) \/ e = [key |-> key, page |-> ch.page]
          BY ONLY <4>1, Zenon
        <5>4. \A e \in Entries(n) : e \in Entries(m)
          BY ONLY <4>1, Zenon
        <5> QED
          BY ONLY <5>1, <5>2, <5>3, <5>4, Zenon
      <4> QED
        BY ONLY <4>2, <3>1, <3>2
    <3> QED
      BY <3>3, <3>4, <1>1, <1>5
  <2>4. ASSUME NEW e \in Entries(p)
        PROVE  /\ e.key \in Keys /\ u.route[0][e.key] = u.route[0][k]
               /\ e.page \in u.live /\ u.own[e.page] = e.key /\ u.page[e.page] = Value(rf2[e.key])
    <3>1. e \in Entries(m) /\ (T(e.key) <=> T(k))
      BY <2>1
    <3>2. e \in Entries(n) \/ e = [key |-> key, page |-> ch.page]
      BY <2>1, <2>2, <3>1
    <3>3. /\ e.key \in Keys /\ t.route[0][e.key] = t.route[0][k]
          /\ e.page \in u.live /\ u.own[e.page] = e.key /\ u.page[e.page] = Value(rf2[e.key])
      <4>1. CASE e \in Entries(n)
        BY <4>1, <1>6
      <4>2. CASE e = [key |-> key, page |-> ch.page]
        BY <4>2, <1>1, <1>4, <1>5, <1>7
      <4> QED
        BY <3>2, <4>1, <4>2
    <3>4. u.route[0][e.key] = u.route[0][k]
      BY <3>1, <3>3, <1>3 DEF T
    <3> QED
      BY <3>3, <3>4
  <2> QED
    BY <2>1, <2>3, <2>4 DEF LeafHolds, p
<1>8. CASE t.route[0][k] # t.route[0][key]
  <2>1. p = n /\ k # key
    BY <1>3, <1>8
  <2>2. \A q \in Keys : t.route[0][q] = t.route[0][k] => u.route[0][q] = u.route[0][k]
    BY <1>3, <1>8 DEF Turns
  <2>3. SoundLeaf(n) /\ (Holds(n, k) <=> rf[k] # 0)
    BY <1>1 DEF LeafHolds
  <2>4. rf2[k] = rf[k]
    BY <2>1, <1>5
  <2> HIDE DEF p, n
  <2> QED
    BY <2>1, <2>2, <2>3, <2>4, <1>6 DEF LeafHolds, p
<1> QED
  BY <1>7, <1>8

\* The nodes on the levels there were.
LEMMA NodeAfter ==
    ASSUME NEW t, NEW rf \in [Keys -> Nat], Mapped(t, rf), NEW P, NEW key, NEW val, NEW ch, NEW l,
           NEW top, NEW W, Ends(t, P, rf, key, val, ch, l, top, W),
           NEW u, u = Committed(t, P, key, ch, l, top, W),
           NEW rf2, rf2 = [rf EXCEPT ![key] = val], NEW k \in Keys, NEW i \in 1..t.height
    PROVE  NodeLinks(u, rf2, i, k)
<1> DEFINE n == Node(t, i, k)
           p == Node(u, i, k)
           T(q) == Turns(t, key, ch, l, i, q)
<1>1. /\ t.height \in Nat /\ l \in 0..t.height + 1 /\ key \in Keys /\ rf[key] = 0 /\ val \in Nat \ {0}
      /\ NodeLinks(t, rf, i, k)
  <2>1. t.height \in Nat /\ l \in 0..t.height + 1 /\ Climbed(t, P, rf, key, val, ch, l)
    BY DEF Mapped, Rooted, Ends
  <2>2. key \in Keys /\ rf[key] = 0 /\ val \in Nat \ {0}
    BY <2>1 DEF Climbed
  <2>3. NodeLinks(t, rf, i, k)
    BY DEF Mapped, NodesLink
  <2> QED
    BY <2>1, <2>2, <2>3
<1>2. /\ \A q \in Keys : u.route[i][q] = IF T(q) THEN ch.new[i] ELSE t.route[i][q]
      /\ u.route[i - 1][k] = IF Turns(t, key, ch, l, i - 1, k) THEN ch.new[i - 1] ELSE t.route[i - 1][k]
      /\ ~(i <= l /\ t.route[i][k] = t.route[i][key]) => p = n
  <2>1. SeenAfter(t, u, P, key, val, ch, l)
    BY AfterEnd
  <2>2. i \in 0..t.height /\ i - 1 \in 0..t.height
    BY <1>1
  <2> QED
    BY <2>1, <2>2 DEF SeenAfter
<1>3. \A q \in Keys : q = key \/ rf[q] # 0 => rf2[q] # 0
  BY <1>1
<1>4. CASE i <= l /\ t.route[i][k] = t.route[i][key]
  <2> DEFINE m == Raised(t, key, ch, i)
  <2>1. /\ SoundInternal(p)
        /\ \A e \in Entries(m) : /\ e \in Keys /\ t.route[i][e] = t.route[i][key]
                                 /\ e = key \/ rf[e] # 0
        /\ \A e \in Entries(p) : /\ e \in Entries(m)
                                 /\ T(e) <=> T(k)
        /\ p.children[ChildPos(p, k)] = m.children[ChildPos(m, k)]
        /\ \A j \in 1..Len(p.children) : \E q \in Keys :
             t.route[i][q] = t.route[i][key] /\ ChildPos(p, q) = j /\ (T(q) <=> T(k))
        /\ m.children[ChildPos(m, k)] =
             IF Turns(t, key, ch, l, i - 1, k) THEN ch.new[i - 1] ELSE t.route[i - 1][k]
    BY <1>4, NodePart
  <2> HIDE DEF T, m, p, n
  <2>2. \A q \in Keys : t.route[i][q] = t.route[i][key] /\ (T(q) <=> T(k)) => u.route[i][q] = u.route[i][k]
    BY <1>2, <1>4
  <2>3. u.route[i - 1][k] = p.children[ChildPos(p, k)]
    BY <1>2, <2>1
  <2>4. ASSUME NEW e \in Entries(p)
        PROVE  e \in Keys /\ u.route[i][e] = u.route[i][k] /\ rf2[e] # 0
    BY <2>1, <2>2, <1>3
  <2>5. ASSUME NEW j \in 1..Len(p.children)
        PROVE  \E q \in Keys : u.route[i][q] = u.route[i][k] /\ ChildPos(p, q) = j
    BY <2>1, <2>2
  <2> QED
    BY <2>1, <2>3, <2>4, <2>5 DEF NodeLinks, p
<1>5. CASE ~(i <= l /\ t.route[i][k] = t.route[i][key])
  <2>1. p = n
    BY <1>2, <1>5
  <2>2. \A q \in Keys : t.route[i][q] = t.route[i][k] => u.route[i][q] = t.route[i][q]
    <3>1. \A q \in Keys : t.route[i][q] = t.route[i][k] => ~T(q)
      BY <1>1, <1>5 DEF Turns
    <3> QED
      BY <3>1, <1>2
  <2>3. u.route[i - 1][k] = t.route[i - 1][k]
    <3>1. ~Turns(t, key, ch, l, i - 1, k)
      <4>1. SUFFICES ASSUME Turns(t, key, ch, l, i - 1, k) PROVE FALSE
        OBVIOUS
      <4>2. i - 1 < l /\ t.route[i - 1][k] = t.route[i - 1][key]
        BY <4>1 DEF Turns
      <4>3. t.route[i][k] = t.route[i][key]
        BY <4>2, <1>1 DEF Mapped, Nested
      <4>4. i <= l
        BY <4>2, <1>1
      <4> QED
        BY <4>3, <4>4, <1>5
    <3> QED
      BY <3>1, <1>2
  <2> HIDE DEF T
  <2>4. /\ SoundInternal(n) /\ t.route[i - 1][k] = n.children[ChildPos(n, k)]
        /\ \A s \in Entries(n) : s \in Keys /\ t.route[i][s] = t.route[i][k] /\ rf[s] # 0
        /\ \A j \in 1..Len(n.children) :
             \E q \in Keys : t.route[i][q] = t.route[i][k] /\ ChildPos(n, q) = j
    BY <1>1 DEF NodeLinks
  <2> HIDE DEF n, p
  <2>5. \A s \in Entries(p) : s \in Keys /\ u.route[i][s] = u.route[i][k] /\ rf2[s] # 0
    BY <2>1, <2>2, <2>4, <1>3
  <2>6. \A j \in 1..Len(p.children) :
             \E q \in Keys : u.route[i][q] = u.route[i][k] /\ ChildPos(p, q) = j
    BY <2>1, <2>2, <2>4
  <2>7. SoundInternal(p) /\ u.route[i - 1][k] = p.children[ChildPos(p, k)]
    BY <2>1, <2>3, <2>4
  <2> QED
    BY <2>5, <2>6, <2>7 DEF NodeLinks, p
<1> QED
  BY <1>4, <1>5

\* The root above the two halves of the old one.
LEMMA RootAfter ==
    ASSUME NEW t, NEW rf \in [Keys -> Nat], Mapped(t, rf), NEW P, NEW key, NEW val, NEW ch, NEW l,
           NEW top, NEW W, Ends(t, P, rf, key, val, ch, l, top, W), l > t.height,
           NEW u, u = Committed(t, P, key, ch, l, top, W),
           NEW rf2, rf2 = [rf EXCEPT ![key] = val], NEW k \in Keys
    PROVE  l = t.height + 1 /\ NodeLinks(u, rf2, l, k)
<1> DEFINE h == t.height
           s == ch.sep[h]
           new == ch.new[h]
           root == t.route[h][key]
           p == Node(u, l, k)
<1>1. h \in Nat /\ l = h + 1 /\ Climbed(t, P, rf, key, val, ch, l)
  <2>1. h \in Nat /\ l \in 0..h + 1 /\ Climbed(t, P, rf, key, val, ch, l)
    BY DEF Mapped, Rooted, Ends
  <2> QED
    BY <2>1
<1>2. key \in Keys /\ rf[key] = 0 /\ val \in Nat \ {0} /\ h \in 0..l - 1 /\ h \in 0..h
  BY <1>1 DEF Climbed
<1>3. SepHome(t, rf, key, s, h) /\ new \in Fresh(t)
  BY <1>1, <1>2 DEF Climbed, Halved
<1>4. /\ P[top] = Internal(<<s>>, <<root, new>>)
      /\ top \in Indexes /\ top \in W
  BY DEF Ends, Fresh
<1>5. root \in t.live /\ root \in Nat /\ new \in Nat /\ new # root
  <2>1. root \in t.live /\ root \in Indexes
    BY <1>2, RouteTyped DEF Mapped
  <2> QED
    BY <2>1, <1>3, MaxPagesNat DEF Fresh, Indexes
<1>6. \A q \in Keys : u.route[l][q] = top
  <2>1. Taller(t, l) = l /\ l > t.height /\ l \in 0..Taller(t, l)
    BY <1>1 DEF Taller
  <2> QED
    BY <2>1 DEF Committed
<1>7. p = Internal(<<s>>, <<root, new>>)
  <2>1. p = u.page[top]
    BY <1>6 DEF Node
  <2>2. u.page[top] = P[top]
    BY <1>4 DEF Committed
  <2> QED
    BY <2>1, <2>2, <1>4
<1>8. /\ s \in Keys /\ s \in Int /\ (s = key \/ rf[s] # 0)
      /\ \E a \in Keys : a < s
  BY <1>3, KeysInt DEF SepHome
<1>9. SoundInternal(p) /\ p.keys = <<s>> /\ p.children = <<root, new>>
  <2> DEFINE ks == <<s>>
             cs == <<root, new>>
  <2>1. ks \in Seq(Int) /\ cs \in Seq(Nat) /\ Len(cs) = 2 /\ Len(ks) = 1
    BY <1>5, <1>8
  <2>2. \A i, j \in 1..Len(ks) : i < j => ks[i] < ks[j]
    BY <2>1
  <2>3. \A i, j \in 1..Len(cs) : cs[i] = cs[j] => i = j
    BY <1>5, <2>1
  <2> HIDE DEF ks, cs
  <2>4. SoundInternal(Internal(ks, cs)) /\ Internal(ks, cs).keys = ks /\ Internal(ks, cs).children = cs
    <3>1. ks \in Seq(Int) /\ cs \in Seq(Nat) /\ Len(cs) = Len(ks) + 1
      BY <2>1
    <3> QED
      BY ONLY <3>1, <2>2, <2>3, NodeSound
  <2> QED
    BY <2>4, <1>7 DEF ks, cs
<1> HIDE DEF p
<1>10. \A q \in Keys : ChildPos(p, q) = IF s <= q THEN 2 ELSE 1
  <2>1. Len(p.keys) = 1 /\ p.keys[1] = s
    BY <1>9
  <2>2. ASSUME NEW q \in Keys PROVE IsChildOf(p, q, IF s <= q THEN 2 ELSE 1)
    <3>1. q \in Int
      BY KeysInt
    <3> QED
      BY <2>1, <3>1, <1>8 DEF IsChildOf
  <2> QED
    BY <2>2, <1>9, KeysInt, ChildPosOnly
<1>11. u.route[l - 1][k] = p.children[ChildPos(p, k)]
  <2>1. u.route[h][k] = IF Turns(t, key, ch, l, h, k) THEN new ELSE t.route[h][k]
    <3>1. SeenAfter(t, u, P, key, val, ch, l)
      BY AfterEnd
    <3> QED
      BY <3>1, <1>2 DEF SeenAfter
  <2>2. t.route[h][k] = root
    BY <1>2 DEF Mapped, Rooted
  <2>3. Turns(t, key, ch, l, h, k) <=> s <= k
    BY <2>2, <1>1 DEF Turns
  <2>4. u.route[h][k] = IF s <= k THEN new ELSE root
    BY <2>1, <2>2, <2>3
  <2>5. p.children[ChildPos(p, k)] = IF s <= k THEN new ELSE root
    BY <1>9, <1>10
  <2> QED
    BY <2>4, <2>5, <1>1
<1>12. ASSUME NEW e \in Entries(p) PROVE e \in Keys /\ u.route[l][e] = u.route[l][k] /\ rf2[e] # 0
  <2>1. e = s
    BY <1>9 DEF Entries
  <2> QED
    BY <2>1, <1>2, <1>6, <1>8
<1>13. ASSUME NEW j \in 1..Len(p.children)
       PROVE  \E q \in Keys : u.route[l][q] = u.route[l][k] /\ ChildPos(p, q) = j
  <2>1. j = 1 \/ j = 2
    BY <1>9
  <2>2. PICK a \in Keys : a < s
    BY <1>8
  <2>3. ~(s <= a) /\ s <= s
    BY <2>2, <1>8, KeysInt
  <2>4. ChildPos(p, a) = 1 /\ ChildPos(p, s) = 2
    BY <2>3, <1>8, <1>10
  <2> QED
    BY <2>1, <2>4, <1>6, <1>8
<1> QED
  BY <1>1, <1>9, <1>11, <1>12, <1>13 DEF NodeLinks, p

\* Where a key goes on the old levels, and which pages are new.
LEMMA RoutesAfter ==
    ASSUME NEW t, NEW rf, Mapped(t, rf), NEW P, NEW key, NEW val, NEW ch, NEW l,
           NEW top, NEW W, Ends(t, P, rf, key, val, ch, l, top, W),
           NEW u, u = Committed(t, P, key, ch, l, top, W)
    PROVE  /\ u.height = Taller(t, l) /\ u.height \in Nat
           /\ l <= t.height => u.height = t.height
           /\ l > t.height => u.height = t.height + 1 /\ l = t.height + 1
           /\ u.route \in [0..u.height -> [Keys -> u.live]]
           /\ \A i \in 0..t.height, k \in Keys :
                u.route[i][k] = IF Turns(t, key, ch, l, i, k) THEN ch.new[i] ELSE t.route[i][k]
           /\ l > t.height => \A k \in Keys : u.route[l][k] = top
           /\ \A i \in 0..t.height, k \in Keys : t.route[i][k] \in t.live
           /\ \A i, j \in 0..l - 1 : ch.new[i] = ch.new[j] => i = j
           /\ \A i \in 0..l - 1 : ch.new[i] \notin t.live /\ (l > t.height => ch.new[i] # top)
           /\ l > t.height => top \notin t.live
<1>1. t.height \in Nat /\ l \in 0..t.height + 1 /\ Climbed(t, P, rf, key, val, ch, l)
  BY DEF Mapped, Rooted, Ends
<1>2. /\ u.height = Taller(t, l) /\ u.height \in Nat
      /\ l <= t.height => u.height = t.height
      /\ l > t.height => u.height = t.height + 1 /\ l = t.height + 1
  BY <1>1 DEF Committed, Taller
<1>3. /\ \A i \in 0..t.height, k \in Keys :
            u.route[i][k] = IF Turns(t, key, ch, l, i, k) THEN ch.new[i] ELSE t.route[i][k]
      /\ UsedAfter(t, u, key, ch, l, top)
  BY AfterEnd DEF SeenAfter
<1>4. \A i \in 0..t.height, k \in Keys : t.route[i][k] \in t.live
  BY RouteTyped DEF Mapped
<1>5. /\ \A i, j \in 0..l - 1 : ch.new[i] = ch.new[j] => i = j
      /\ \A i \in 0..l - 1 : ch.new[i] \notin t.live
  BY <1>1 DEF Climbed, Fresh
<1>6. l > t.height => top \in Fresh(t) \ Spread(t, key, ch, l)
  BY DEF Ends
<1>7. l > t.height => top \notin t.live /\ \A i \in 0..l - 1 : ch.new[i] # top
  BY <1>6 DEF Fresh, Spread
<1>8. l > t.height => \A k \in Keys : u.route[l][k] = top
  <2>1. l > t.height => l \in 0..Taller(t, l)
    BY <1>1 DEF Taller
  <2> QED
    BY <2>1 DEF Committed
<1>9. u.route \in [0..u.height -> [Keys -> u.live]]
  <2>1. ASSUME NEW i \in 0..u.height, NEW k \in Keys PROVE u.route[i][k] \in u.live
    <3>1. CASE i \in 0..t.height
      <4>1. CASE Turns(t, key, ch, l, i, k)
        <5>1. i \in 0..l - 1
          BY <3>1, <4>1, <1>1 DEF Turns
        <5> QED
          BY <3>1, <4>1, <5>1, <1>3 DEF UsedAfter
      <4>2. CASE ~Turns(t, key, ch, l, i, k)
        BY <3>1, <4>2, <1>3, <1>4 DEF UsedAfter
      <4> QED
        BY <4>1, <4>2
    <3>2. CASE i \notin 0..t.height
      <4>1. l > t.height /\ i = l
        BY <3>2, <1>1, <1>2
      <4> QED
        BY <4>1, <1>3, <1>8 DEF UsedAfter
    <3> QED
      BY <3>1, <3>2
  <2>2. \E f : u.route = [i \in 0..u.height |-> [k \in Keys |-> f[i][k]]]
    <3> DEFINE f == [i \in 0..u.height |-> [k \in Keys |->
                  IF i > t.height THEN top
                  ELSE IF Turns(t, key, ch, l, i, k) THEN ch.new[i] ELSE t.route[i][k]]]
    <3>1. u.route = f
      BY <1>2 DEF Committed
    <3>2. f = [i \in 0..u.height |-> [k \in Keys |-> f[i][k]]]
      OBVIOUS
    <3> HIDE DEF f
    <3>3. u.route = [i \in 0..u.height |-> [k \in Keys |-> f[i][k]]]
      BY ONLY <3>1, <3>2, Zenon
    <3> QED
      BY ONLY <3>3, Zenon
  <2>3. PICK f : u.route = [i \in 0..u.height |-> [k \in Keys |-> f[i][k]]]
    BY <2>2
  <2>4. \A i \in 0..u.height, k \in Keys : f[i][k] \in u.live
    BY <2>1, <2>3
  <2> QED
    BY ONLY <2>3, <2>4
<1> QED
  BY <1>2, <1>3, <1>4, <1>5, <1>7, <1>8, <1>9

\* A key and the child it goes to, in a node that splits: the same side for the same child.
LEMMA SameSide ==
    ASSUME NEW t, NEW rf, Mapped(t, rf), NEW P, NEW key, NEW val, NEW ch, NEW l,
           NEW top, NEW W, Ends(t, P, rf, key, val, ch, l, top, W),
           NEW u, u = Committed(t, P, key, ch, l, top, W), NEW i \in 1..t.height,
           NEW k1 \in Keys, NEW k2 \in Keys, Turns(t, key, ch, l, i, k1),
           u.route[i - 1][k1] = u.route[i - 1][k2], t.route[i][k1] = t.route[i][k2]
    PROVE  Turns(t, key, ch, l, i, k2)
<1> DEFINE m == Raised(t, key, ch, i)
           h == Half(Len(m.keys))
<1>1. /\ t.height \in Nat /\ l \in 0..t.height + 1
  BY DEF Mapped, Rooted, Ends
<1>2. i < l /\ i # l /\ i <= l /\ t.route[i][k1] = t.route[i][key] /\ t.route[i][k2] = t.route[i][key]
  BY <1>1 DEF Turns
<1>3. \A k \in Keys : u.route[i - 1][k] = IF Turns(t, key, ch, l, i - 1, k) THEN ch.new[i - 1] ELSE t.route[i - 1][k]
  <2>1. i - 1 \in 0..t.height
    BY <1>1
  <2> QED
    BY <2>1, RoutesAfter
<1>4. \A k \in Keys : t.route[i][k] = t.route[i][key] =>
         /\ SoundInternal(m)
         /\ m.children[ChildPos(m, k)] = u.route[i - 1][k]
         /\ Turns(t, key, ch, l, i, k) <=> ChildPos(m, k) > h + 1
  <2>1. ASSUME NEW k \in Keys, t.route[i][k] = t.route[i][key]
        PROVE  /\ SoundInternal(m)
               /\ m.children[ChildPos(m, k)] = u.route[i - 1][k]
               /\ Turns(t, key, ch, l, i, k) <=> ChildPos(m, k) > h + 1
    <3>1. /\ SoundInternal(m)
          /\ m.children[ChildPos(m, k)] =
                IF Turns(t, key, ch, l, i - 1, k) THEN ch.new[i - 1] ELSE t.route[i - 1][k]
          /\ Turns(t, key, ch, l, i, k) <=> ChildPos(m, k) > h + 1
      BY <2>1, <1>2, NodePart
    <3> QED
      BY <3>1, <1>3
  <2> QED
    BY <2>1
<1> HIDE DEF m, h
<1>5. \A k \in Keys : t.route[i][k] = t.route[i][key] => ChildPos(m, k) \in 1..Len(m.children)
  <2>1. ASSUME NEW k \in Keys, t.route[i][k] = t.route[i][key]
        PROVE  ChildPos(m, k) \in 1..Len(m.children)
    <3>1. SoundInternal(m) /\ k \in Int
      BY <2>1, <1>4, KeysInt
    <3>2. IsChildOf(m, k, ChildPos(m, k)) /\ Len(m.children) = Len(m.keys) + 1
      BY <3>1, ChildPosIs, NodeFacts
    <3> QED
      BY <3>2 DEF IsChildOf
  <2> QED
    BY <2>1
<1>6. m.children[ChildPos(m, k1)] = m.children[ChildPos(m, k2)] /\ SoundInternal(m)
  BY <1>2, <1>4
<1>7. ChildPos(m, k1) = ChildPos(m, k2)
  <2>1. ChildPos(m, k1) \in 1..Len(m.children) /\ ChildPos(m, k2) \in 1..Len(m.children)
    BY <1>2, <1>5
  <2> QED
    BY ONLY <2>1, <1>6, NodeFacts
<1> QED
  BY <1>2, <1>4, <1>7

LEMMA NestedAfter ==
    ASSUME NEW t, NEW rf, Mapped(t, rf), NEW P, NEW key, NEW val, NEW ch, NEW l,
           NEW top, NEW W, Ends(t, P, rf, key, val, ch, l, top, W),
           NEW u, u = Committed(t, P, key, ch, l, top, W)
    PROVE  Nested(u)
<1>1. /\ t.height \in Nat /\ l \in 0..t.height + 1 /\ key \in Keys
  BY DEF Mapped, Rooted, Ends, Climbed
<1>2. /\ l <= t.height => u.height = t.height
      /\ l > t.height => u.height = t.height + 1 /\ l = t.height + 1
      /\ \A i \in 0..t.height, k \in Keys :
            u.route[i][k] = IF Turns(t, key, ch, l, i, k) THEN ch.new[i] ELSE t.route[i][k]
      /\ l > t.height => \A k \in Keys : u.route[l][k] = top
      /\ \A i \in 0..t.height, k \in Keys : t.route[i][k] \in t.live
      /\ \A i \in 0..l - 1 : ch.new[i] \notin t.live
  BY RoutesAfter
<1>3. SUFFICES ASSUME NEW i \in 1..u.height, NEW k1 \in Keys, NEW k2 \in Keys,
                      u.route[i - 1][k1] = u.route[i - 1][k2]
               PROVE  u.route[i][k1] = u.route[i][k2]
  BY DEF Nested
<1>4. CASE i > t.height
  <2>1. i = l /\ l > t.height
    BY <1>1, <1>2, <1>4
  <2> QED
    BY <2>1, <1>2
<1>5. CASE i <= t.height
  <2>1. i \in 1..t.height /\ i \in 0..t.height /\ i - 1 \in 0..t.height
    BY <1>1, <1>5
  <2>2. t.route[i - 1][k1] = t.route[i - 1][k2]
    <3> DEFINE T(q) == Turns(t, key, ch, l, i - 1, q)
    <3>1. /\ u.route[i - 1][k1] = IF T(k1) THEN ch.new[i - 1] ELSE t.route[i - 1][k1]
          /\ u.route[i - 1][k2] = IF T(k2) THEN ch.new[i - 1] ELSE t.route[i - 1][k2]
          /\ t.route[i - 1][k1] \in t.live /\ t.route[i - 1][k2] \in t.live
      BY <2>1, <1>2
    <3>2. T(k1) \/ T(k2) => ch.new[i - 1] \notin t.live
      <4>1. T(k1) \/ T(k2) => i - 1 \in 0..l - 1
        BY <1>1, <2>1 DEF Turns
      <4> QED
        BY <4>1, <1>2
    <3>3. T(k1) /\ T(k2) => t.route[i - 1][k1] = t.route[i - 1][k2]
      BY DEF Turns
    <3> HIDE DEF T
    <3> QED
      BY <1>3, <3>1, <3>2, <3>3
  <2>3. t.route[i][k1] = t.route[i][k2]
    BY <2>1, <2>2 DEF Mapped, Nested
  <2>4. Turns(t, key, ch, l, i, k1) <=> Turns(t, key, ch, l, i, k2)
    BY <2>1, <2>3, <1>3, SameSide
  <2> QED
    BY <2>1, <2>3, <2>4, <1>2
<1> QED
  BY <1>1, <1>2, <1>4, <1>5

LEMMA LeveledAfter ==
    ASSUME NEW t, NEW rf, Mapped(t, rf), NEW P, NEW key, NEW val, NEW ch, NEW l,
           NEW top, NEW W, Ends(t, P, rf, key, val, ch, l, top, W),
           NEW u, u = Committed(t, P, key, ch, l, top, W)
    PROVE  Leveled(u)
<1>1. /\ t.height \in Nat /\ l \in 0..t.height + 1
      /\ \A l1, l2 \in 0..t.height, k1, k2 \in Keys : t.route[l1][k1] = t.route[l2][k2] => l1 = l2
  BY DEF Mapped, Rooted, Ends, Leveled
<1>2. /\ l <= t.height => u.height = t.height
      /\ l > t.height => u.height = t.height + 1 /\ l = t.height + 1
      /\ \A i \in 0..t.height, k \in Keys :
            u.route[i][k] = IF Turns(t, key, ch, l, i, k) THEN ch.new[i] ELSE t.route[i][k]
      /\ l > t.height => \A k \in Keys : u.route[l][k] = top
      /\ \A i \in 0..t.height, k \in Keys : t.route[i][k] \in t.live
      /\ \A i, j \in 0..l - 1 : ch.new[i] = ch.new[j] => i = j
      /\ \A i \in 0..l - 1 : ch.new[i] \notin t.live /\ (l > t.height => ch.new[i] # top)
      /\ l > t.height => top \notin t.live
  BY RoutesAfter
<1> DEFINE New(i, x) == i \in 0..t.height /\ i \in 0..l - 1 /\ x = ch.new[i]
           Old(i, x) == i \in 0..t.height /\ \E k \in Keys : x = t.route[i][k]
           Top(i, x) == i = l /\ l > t.height /\ x = top
<1>3. ASSUME NEW i \in 0..u.height, NEW k \in Keys
      PROVE  New(i, u.route[i][k]) \/ Old(i, u.route[i][k]) \/ Top(i, u.route[i][k])
  <2>1. CASE i > t.height
    <3>1. i = l /\ l > t.height
      BY <1>1, <1>2, <2>1
    <3> QED
      BY <3>1, <1>2
  <2>2. CASE i <= t.height
    <3>1. i \in 0..t.height
      BY <1>1, <2>2
    <3>2. CASE Turns(t, key, ch, l, i, k)
      <4>1. i \in 0..l - 1
        BY <3>1, <3>2, <1>1 DEF Turns
      <4> QED
        BY <4>1, <3>1, <3>2, <1>2
    <3>3. CASE ~Turns(t, key, ch, l, i, k)
      BY <3>1, <3>3, <1>2
    <3> QED
      BY <3>2, <3>3
  <2> QED
    BY <2>1, <2>2, <1>1, <1>2
<1>4. /\ \A i, x : New(i, x) => x \notin t.live /\ ~\E j : Top(j, x)
      /\ \A i, x : Old(i, x) => x \in t.live
      /\ \A i, x : Top(i, x) => x \notin t.live
      /\ \A i, j, x : New(i, x) /\ New(j, x) => i = j
      /\ \A i, j, x : Old(i, x) /\ Old(j, x) => i = j
      /\ \A i, j, x : Top(i, x) /\ Top(j, x) => i = j
  BY <1>1, <1>2
<1> HIDE DEF New, Old, Top
<1>5. \A i, j, x :
         (New(i, x) \/ Old(i, x) \/ Top(i, x)) /\ (New(j, x) \/ Old(j, x) \/ Top(j, x)) => i = j
  <2>1. SUFFICES ASSUME NEW i, NEW j, NEW x, New(i, x) \/ Old(i, x) \/ Top(i, x),
                        New(j, x) \/ Old(j, x) \/ Top(j, x)
                 PROVE  i = j
    BY Zenon
  <2>2. CASE New(i, x)
    BY ONLY <2>1, <2>2, <1>4, Zenon
  <2>3. CASE Old(i, x)
    BY ONLY <2>1, <2>3, <1>4, Zenon
  <2>4. CASE Top(i, x)
    BY ONLY <2>1, <2>4, <1>4, Zenon
  <2> QED
    BY <2>1, <2>2, <2>3, <2>4
<1> QED
  BY <1>3, <1>5 DEF Leveled

LEMMA RootedAfter ==
    ASSUME NEW t, NEW rf \in [Keys -> Nat], Mapped(t, rf), NEW P, NEW key, NEW val, NEW ch, NEW l,
           NEW top, NEW W, Ends(t, P, rf, key, val, ch, l, top, W),
           NEW u, u = Committed(t, P, key, ch, l, top, W),
           NEW rf2, rf2 = [rf EXCEPT ![key] = val]
    PROVE  Rooted(u, rf2)
<1>1. /\ t.height \in Nat /\ l \in 0..t.height + 1 /\ Climbed(t, P, rf, key, val, ch, l)
      /\ t.height <= Cardinality(Present(rf)) /\ t.live \subseteq Indexes \ {0}
      /\ \A k \in Keys : t.route[t.height][k] = DecodeRoot(t.page[HEADER_INDEX])
  BY DEF Mapped, Rooted, Ends
<1>2. key \in Keys /\ rf[key] = 0 /\ val \in Nat \ {0} /\ ch.page \in Fresh(t)
      /\ \A i \in 0..l - 1 : ch.new[i] \in Fresh(t)
  BY <1>1 DEF Climbed
<1>3. /\ u.height \in Nat
      /\ l <= t.height => u.height = t.height
      /\ l > t.height => u.height = t.height + 1 /\ l = t.height + 1
      /\ u.route \in [0..u.height -> [Keys -> u.live]]
      /\ \A i \in 0..t.height, k \in Keys :
            u.route[i][k] = IF Turns(t, key, ch, l, i, k) THEN ch.new[i] ELSE t.route[i][k]
      /\ l > t.height => \A k \in Keys : u.route[l][k] = top
      /\ \A i \in 0..t.height, k \in Keys : t.route[i][k] \in t.live
  BY ONLY Mapped(t, rf), Ends(t, P, rf, key, val, ch, l, top, W),
          u = Committed(t, P, key, ch, l, top, W), RoutesAfter
<1>4. u.live \subseteq Indexes \ {0}
  BY AfterEnd DEF UsedAfter
<1>5. u.height <= Cardinality(Present(rf2))
  <2>1. Present(rf2) = Present(rf) \cup {key} /\ key \notin Present(rf) /\ IsFiniteSet(Present(rf))
    <3>1. Present(rf) \in SUBSET Keys
      BY DEF Present
    <3>2. IsFiniteSet(Present(rf))
      BY <3>1, KeysAssumption, FS_Subset
    <3> QED
      BY <3>2, <1>2 DEF Present
  <2>2. Cardinality(Present(rf2)) = Cardinality(Present(rf)) + 1 /\ Cardinality(Present(rf)) \in Nat
    BY <2>1, FS_AddElement, FS_CardinalityType
  <2> QED
    BY <2>2, <1>1, <1>3
<1>6. ASSUME NEW k \in Keys PROVE u.route[u.height][k] = DecodeRoot(u.page[HEADER_INDEX])
  <2>1. 0 \in Indexes /\ HEADER_INDEX = 0
    BY MaxPagesNat DEF Indexes, HEADER_INDEX
  <2>2. u.page[HEADER_INDEX] = IF HEADER_INDEX \in W THEN P[HEADER_INDEX] ELSE t.page[HEADER_INDEX]
    BY <2>1 DEF Committed
  <2>3. CASE l > t.height
    <3>1. HEADER_INDEX \in W /\ P[HEADER_INDEX] = Header(top)
      BY <2>3 DEF Ends
    <3>2. DecodeRoot(u.page[HEADER_INDEX]) = top
      BY <2>2, <3>1 DEF DecodeRoot, Header
    <3> QED
      BY <2>3, <3>2, <1>3
  <2>4. CASE l <= t.height
    <3>1. W = Spread(t, key, ch, l) \cup {t.route[l][key]}
      BY <2>4 DEF Ends
    <3>2. \A i \in 0..l : i \in 0..t.height
      BY <2>4, <1>1
    <3>3. \A i \in 0..l : t.route[i][key] # 0
      BY <3>2, <1>1, <1>2, <1>3
    <3>4. 0 \notin Spread(t, key, ch, l) /\ t.route[l][key] # 0
      <4>1. l \in 0..l /\ \A i \in 0..l - 1 : i \in 0..l
        BY <1>1
      <4> QED
        BY <4>1, <3>3, <1>2 DEF Spread, Fresh
    <3>5. u.page[HEADER_INDEX] = t.page[HEADER_INDEX]
      BY <3>1, <3>4, <2>1, <2>2
    <3>6. t.height \in 0..t.height /\ ~Turns(t, key, ch, l, t.height, k)
      BY <2>4, <1>1 DEF Turns
    <3> QED
      BY <3>5, <3>6, <2>4, <1>1, <1>3
  <2> QED
    BY <2>3, <2>4, <1>1
<1> QED
  BY <1>3, <1>4, <1>5, <1>6 DEF Rooted

LEMMA HalfLeast ==
    ASSUME NEW n, n = MaxLen + 1, NEW h, h = Half(n)
    PROVE  /\ h \in Nat /\ h <= MaxLen /\ n - h <= MaxLen /\ n - h - 1 <= MaxLen
           /\ h >= LeastLen(0) /\ n - h >= LeastLen(0) /\ LeastLen(0) \in Nat /\ LeastLen(0) >= 1
           /\ \A l : l # 0 => h >= LeastLen(l) /\ n - h - 1 >= LeastLen(l) /\ LeastLen(l) \in Nat
<1>1. MaxLen \in Nat /\ MaxLen >= 2 /\ n \in Nat /\ n >= 3
  BY LenAssumption
<1>2. h \in Nat /\ 2 * h >= n /\ 2 * h <= n + 1
  BY <1>1 DEF Half
<1>3. LeastLen(0) = n - h /\ \A l : l # 0 => LeastLen(l) = n - h - 1
  <2>1. Half(MaxLen + 1) = h
    BY Zenon
  <2>2. MaxLen - h = n - h - 1
    BY <1>1, <1>2
  <2>3. MaxLen + 1 - h = n - h
    BY <1>1, <1>2
  <2> QED
    BY <2>1, <2>2, <2>3 DEF LeastLen
<1> QED
  BY <1>1, <1>2, <1>3

LEMMA FilledAfter ==
    ASSUME NEW t, NEW rf, Mapped(t, rf), NEW P, NEW key, NEW val, NEW ch, NEW l,
           NEW top, NEW W, Ends(t, P, rf, key, val, ch, l, top, W),
           NEW u, u = Committed(t, P, key, ch, l, top, W)
    PROVE  Filled(u)
<1>1. SeenAfter(t, u, P, key, val, ch, l) /\ key \in Keys /\ t.height \in Nat /\ l \in 0..t.height + 1
  BY AfterEnd DEF Ends, Climbed, Mapped, Rooted
<1>2. /\ u.height \in Nat
      /\ l <= t.height => u.height = t.height
      /\ l > t.height => u.height = t.height + 1 /\ l = t.height + 1
      /\ l > t.height => \A k \in Keys : u.route[l][k] = top
  BY RoutesAfter
<1>3. \A i \in 0..t.height, k \in Keys :
         /\ Node(t, i, k).keys \in Seq(Int) \/ Node(t, i, k).keys \in Seq([key : Int, page : Nat])
         /\ Len(Node(t, i, k).keys) \in Nat
  BY NodeType, LeafFacts, NodeFacts
<1>4. ASSUME NEW i \in 0..u.height, NEW k \in Keys
      PROVE  /\ Len(Node(u, i, k).keys) <= MaxLen
             /\ i < u.height => Len(Node(u, i, k).keys) >= LeastLen(i)
  <2>1. CASE ~(i <= t.height)
    <3>1. i = l /\ l > t.height /\ i = u.height
      BY <2>1, <1>1, <1>2
    <3>2. top # HEADER_INDEX /\ top \in W /\ top \in Indexes
          /\ P[top] = Internal(<<ch.sep[t.height]>>, <<t.route[t.height][key], ch.new[t.height]>>)
      BY <3>1 DEF Ends, Fresh, HEADER_INDEX
    <3>3. Node(u, i, k) = P[top]
      BY <3>1, <3>2, <1>2 DEF Committed, Node
    <3>4. Node(u, i, k).keys = <<ch.sep[t.height]>>
      BY <3>2, <3>3 DEF Internal
    <3>5. Len(<<ch.sep[t.height]>>) = 1
      OBVIOUS
    <3> QED
      <4>1. ~(i < u.height)
        BY <3>1, <1>2
      <4>2. 1 <= MaxLen
        BY LenAssumption
      <4> QED
        BY <3>4, <3>5, <4>1, <4>2
  <2>2. CASE i <= t.height /\ ~(i <= l /\ t.route[i][k] = t.route[i][key])
    <3>1. i \in 0..t.height /\ Node(u, i, k) = Node(t, i, k)
      BY <2>2, <1>1 DEF SeenAfter
    <3>2. i < u.height => i < t.height
      <4>1. t.route[t.height][k] = t.route[t.height][key]
        BY <1>1 DEF Mapped, Rooted
      <4> QED
        BY <4>1, <2>2, <1>1, <1>2
    <3> QED
      BY <3>1, <3>2 DEF Filled, Mapped
  <2>3. CASE i <= t.height /\ i <= l /\ t.route[i][k] = t.route[i][key]
    <3> DEFINE p == Node(u, i, k)
    <3>1. PICK m : m = Raised(t, key, ch, i)
      OBVIOUS
    <3>2. PICK n : n = MaxLen + 1
      OBVIOUS
    <3>3. PICK h : h = Half(n)
      OBVIOUS
    <3>4. i \in 0..t.height /\ (i # 0 => i \in 1..t.height)
      BY <2>3, <1>1
    <3>5. /\ Len(m.keys) = Len(Node(t, i, key).keys) + 1 /\ (i = l => p = m)
          /\ i # l => /\ Len(m.keys) > MaxLen
                      /\ \/ Len(p.keys) = Half(Len(m.keys))
                         \/ i = 0 /\ Len(p.keys) = Len(m.keys) - Half(Len(m.keys))
                         \/ i # 0 /\ Len(p.keys) = Len(m.keys) - Half(Len(m.keys)) - 1
      <4>1. CASE i = 0
        BY <4>1, <3>1, <2>3, LeafPart
      <4>2. CASE i # 0
        BY <4>2, <3>1, <3>4, <2>3, NodePart
      <4> QED
        BY <4>1, <4>2
    <3>6. /\ Len(Node(t, i, key).keys) \in Nat /\ Len(Node(t, i, key).keys) <= MaxLen
          /\ i < t.height => Len(Node(t, i, key).keys) >= LeastLen(i)
      BY <3>4, <1>1, <1>3 DEF Filled, Mapped
    <3>7. LeastLen(i) \in Nat
      BY <3>2, <3>3, HalfLeast
    <3>8. CASE i = l
      <4>1. Len(m.keys) <= MaxLen /\ u.height = t.height
        BY <3>1, <3>8, <2>3, <1>2 DEF Ends
      <4> QED
        BY <4>1, <3>5, <3>6, <3>7, <3>8
    <3>9. CASE i # l
      <4>1. Len(m.keys) = n
        BY <3>2, <3>5, <3>6, <3>9, LenAssumption
      <4>2. \/ Len(p.keys) = h
            \/ i = 0 /\ Len(p.keys) = n - h
            \/ i # 0 /\ Len(p.keys) = n - h - 1
        BY <4>1, <3>3, <3>5, <3>9
      <4>3. Len(p.keys) <= MaxLen /\ Len(p.keys) >= LeastLen(i)
        BY <4>2, <3>2, <3>3, HalfLeast
      <4> QED
        BY <4>3
    <3> QED
      BY <3>8, <3>9
  <2> QED
    BY <2>1, <2>2, <2>3
<1> QED
  BY <1>4 DEF Filled

LEMMA ConvexAfter ==
    ASSUME NEW t, NEW rf, Mapped(t, rf), NEW P, NEW key, NEW val, NEW ch, NEW l,
           NEW top, NEW W, Ends(t, P, rf, key, val, ch, l, top, W),
           NEW u, u = Committed(t, P, key, ch, l, top, W)
    PROVE  Convex(u)
<1>1. /\ key \in Keys /\ t.height \in Nat /\ 0 \in 0..t.height /\ l \in Nat
  BY DEF Ends, Climbed, Mapped, Rooted
<1>2. /\ \A k \in Keys : u.route[0][k] = IF Turns(t, key, ch, l, 0, k) THEN ch.new[0] ELSE t.route[0][k]
      /\ \A k \in Keys : t.route[0][k] \in t.live
      /\ 0 < l => ch.new[0] \notin t.live /\ ch.sep[0] \in Int
  <2>1. 0 < l => 0 \in 0..l - 1
    BY <1>1
  <2>2. 0 < l => ch.sep[0] \in Int
    BY <2>1, KeysInt DEF Ends, Climbed, Halved, SepHome
  <2> QED
    BY <2>1, <2>2, <1>1, RoutesAfter
<1>3. \A k \in Keys : Turns(t, key, ch, l, 0, k) <=> 0 < l /\ t.route[0][k] = t.route[0][key] /\ ch.sep[0] <= k
  BY DEF Turns
<1>4. ASSUME NEW a \in Keys, NEW b \in Keys, NEW c \in Keys, a < b, b < c, u.route[0][a] = u.route[0][c]
      PROVE  u.route[0][b] = u.route[0][a]
  <2>1. t.route[0][a] = t.route[0][c] /\ (Turns(t, key, ch, l, 0, a) <=> Turns(t, key, ch, l, 0, c))
    BY <1>2, <1>3, <1>4
  <2>2. t.route[0][b] = t.route[0][a]
    BY <2>1, <1>4 DEF Convex, Mapped
  <2>3. Turns(t, key, ch, l, 0, a) <=> Turns(t, key, ch, l, 0, b)
    <3>1. a \in Int /\ b \in Int /\ c \in Int
      BY KeysInt
    <3> QED
      BY <3>1, <2>1, <2>2, <1>2, <1>3, <1>4
  <2> QED
    BY <2>2, <2>3, <1>2
<1> QED
  BY <1>4 DEF Convex

LEMMA FrontedAfter ==
    ASSUME NEW t, NEW rf, Mapped(t, rf), NEW P, NEW key, NEW val, NEW ch, NEW l,
           NEW top, NEW W, Ends(t, P, rf, key, val, ch, l, top, W),
           NEW u, u = Committed(t, P, key, ch, l, top, W)
    PROVE  Fronted(u)
<1>1. /\ key \in Keys /\ t.height \in Nat /\ 0 \in 0..t.height /\ l \in Nat
  BY DEF Ends, Climbed, Mapped, Rooted
<1>2. /\ \A k \in Keys : u.route[0][k] = IF Turns(t, key, ch, l, 0, k) THEN ch.new[0] ELSE t.route[0][k]
      /\ 0 < l => ch.new[0] \notin t.live /\ ch.sep[0] \in Int
  <2>1. 0 < l => 0 \in 0..l - 1
    BY <1>1
  <2>2. 0 < l => ch.sep[0] \in Int
    BY <2>1, KeysInt DEF Ends, Climbed, Halved, SepHome
  <2> QED
    BY <2>1, <2>2, <1>1, RoutesAfter
<1>3. \A k \in Keys : Turns(t, key, ch, l, 0, k) <=> 0 < l /\ t.route[0][k] = t.route[0][key] /\ ch.sep[0] <= k
  BY DEF Turns
<1>4. 1 \in t.live /\ \A a, b \in Keys : a < b /\ t.route[0][b] = 1 => t.route[0][a] = 1
  BY DEF Mapped, Fronted
<1>5. ASSUME NEW a \in Keys, NEW b \in Keys, a < b, u.route[0][b] = 1 PROVE u.route[0][a] = 1
  <2>1. t.route[0][b] = 1 /\ ~Turns(t, key, ch, l, 0, b)
    BY <1>2, <1>3, <1>4, <1>5
  <2>2. t.route[0][a] = 1
    BY <2>1, <1>4, <1>5
  <2>3. ~Turns(t, key, ch, l, 0, a)
    <3>1. a \in Int /\ b \in Int
      BY KeysInt
    <3> QED
      BY <3>1, <2>1, <2>2, <1>2, <1>3, <1>5
  <2> QED
    BY <2>2, <2>3, <1>2
<1>6. 1 \in u.live
  BY <1>4 DEF Committed
<1> QED
  BY <1>5, <1>6 DEF Fronted

LEMMA ChainedAfter ==
    ASSUME NEW t, NEW rf, Mapped(t, rf), NEW P, NEW key, NEW val, NEW ch, NEW l,
           NEW top, NEW W, Ends(t, P, rf, key, val, ch, l, top, W),
           NEW u, u = Committed(t, P, key, ch, l, top, W)
    PROVE  Chained(u)
<1> DEFINE T(k) == Turns(t, key, ch, l, 0, k)
           R(k) == t.route[0][k]
           U(k) == u.route[0][k]
           s == ch.sep[0]
           y == ch.new[0]
<1>1. /\ key \in Keys /\ t.height \in Nat /\ 0 \in 0..t.height /\ l \in Nat
      /\ SeenAfter(t, u, P, key, val, ch, l)
  <2>1. key \in Keys /\ t.height \in Nat /\ l \in 0..t.height + 1
    BY DEF Ends, Climbed, Mapped, Rooted
  <2> QED
    BY <2>1, AfterEnd
<1>2. /\ \A k \in Keys : U(k) = IF T(k) THEN y ELSE R(k)
      /\ 0 < l => \A k \in Keys : R(k) # y
      /\ 0 < l => SepHome(t, rf, key, s, 0)
  <2>1. 0 < l => 0 \in 0..l - 1
    BY <1>1
  <2>2. 0 < l => SepHome(t, rf, key, s, 0)
    BY <2>1 DEF Ends, Climbed, Halved
  <2> QED
    BY <2>1, <2>2, <1>1, RoutesAfter
<1>3. /\ \A k \in Keys : T(k) <=> 0 < l /\ R(k) = R(key) /\ s <= k
      /\ 0 < l => s \in Keys /\ R(s) = R(key) /\ \E a \in Keys : a < s /\ R(a) = R(key)
      /\ \A a, b, c \in Keys : a < b /\ b < c /\ R(a) = R(c) => R(b) = R(a)
      /\ \A k \in Keys : k \in Int
  BY <1>2, KeysInt DEF Turns, SepHome, Convex, Mapped
<1>4. ASSUME NEW k \in Keys PROVE LinksOn(u, k)
  <2> DEFINE n == Node(t, 0, k)
             p == Node(u, 0, k)
  <2>1. LinksOn(t, k)
    BY DEF Chained, Mapped
  <2>2. CASE p.next = n.next /\ (R(k) # R(key) \/ ~(0 < l))
    <3>1. U(k) = R(k) /\ ~T(k)
      BY <2>2, <1>2, <1>3
    <3>2. CASE n.next = 0 /\ \A q \in Keys : k < q => R(q) = R(k)
      <4>1. \A q \in Keys : k < q => U(q) = U(k)
        <5> HIDE DEF T, R, U, s, y
        <5> QED
          BY <3>1, <3>2, <2>2, <1>2, <1>3
      <4> QED
        BY <4>1, <3>2, <2>2 DEF LinksOn
    <3>3. CASE \E q \in Keys : /\ k < q /\ R(q) = n.next /\ n.next # R(k)
                               /\ \A r \in Keys : k < r /\ r < q => R(r) = R(k)
      <4>1. PICK q \in Keys : /\ k < q /\ R(q) = n.next /\ n.next # R(k)
                              /\ \A r \in Keys : k < r /\ r < q => R(r) = R(k)
        BY <3>3
      <4> HIDE DEF T, R, U, s, y, n, p
      <4>2. ~T(q)
        <5> SUFFICES ASSUME T(q) PROVE FALSE
          OBVIOUS
        <5>1. 0 < l /\ R(q) = R(key) /\ s <= q
          BY <1>3
        <5>2. PICK a \in Keys : a < s /\ R(a) = R(key)
          BY <5>1, <1>3
        <5>3. a < q /\ R(a) = R(q) /\ a # k
          BY <5>1, <5>2, <4>1, <1>3
        <5>4. CASE k < a
          BY <5>3, <5>4, <4>1
        <5>5. CASE a < k
          BY <5>3, <5>5, <4>1, <1>3
        <5> QED
          BY <5>3, <5>4, <5>5, <1>3
      <4>3. U(q) = p.next /\ p.next # U(k)
        BY <4>1, <4>2, <3>1, <2>2, <1>2
      <4>4. \A r \in Keys : k < r /\ r < q => U(r) = U(k)
        BY <4>1, <3>1, <2>2, <1>2, <1>3
      <4> QED
        BY <4>1, <4>3, <4>4 DEF LinksOn, U, p
    <3> QED
      BY <2>1, <3>2, <3>3 DEF LinksOn
  <2>3. CASE 0 < l /\ R(k) = R(key) /\ T(k) /\ p.next = n.next
    <3>1. U(k) = y
      BY <2>3, <1>2
    <3>2. \A q \in Keys : k < q /\ R(q) = R(k) => U(q) = U(k)
      <4> HIDE DEF T, R, U, s, y
      <4>1. \A q \in Keys : k < q /\ R(q) = R(k) => T(q)
        BY <2>3, <1>3
      <4> QED
        BY <4>1, <3>1, <1>2
    <3>3. CASE n.next = 0 /\ \A q \in Keys : k < q => R(q) = R(k)
      <4>1. \A q \in Keys : k < q => U(q) = U(k)
        BY <3>2, <3>3
      <4> QED
        BY <4>1, <3>3, <2>3 DEF LinksOn
    <3>4. CASE \E q \in Keys : /\ k < q /\ R(q) = n.next /\ n.next # R(k)
                               /\ \A r \in Keys : k < r /\ r < q => R(r) = R(k)
      <4>1. PICK q \in Keys : /\ k < q /\ R(q) = n.next /\ n.next # R(k)
                              /\ \A r \in Keys : k < r /\ r < q => R(r) = R(k)
        BY <3>4
      <4> HIDE DEF T, R, U, s, y, n, p
      <4>2. U(q) = p.next /\ p.next # U(k)
        BY <4>1, <3>1, <2>3, <1>2, <1>3
      <4>3. \A r \in Keys : k < r /\ r < q => U(r) = U(k)
        BY <4>1, <3>2
      <4> QED
        BY <4>1, <4>2, <4>3 DEF LinksOn, U, p
    <3> QED
      BY <2>1, <3>3, <3>4 DEF LinksOn
  <2>4. CASE 0 < l /\ R(k) = R(key) /\ ~T(k) /\ p.next = y
    <3> HIDE DEF T, R, U, s, y, n, p
    <3>1. s \in Keys /\ k < s /\ R(s) = R(key) /\ T(s) /\ U(s) = y /\ U(k) = R(k) /\ R(k) # y
      BY <2>4, <1>2, <1>3
    <3>2. \A r \in Keys : k < r /\ r < s => U(r) = U(k)
      <4>1. ASSUME NEW r \in Keys, k < r, r < s PROVE U(r) = U(k)
        <5>1. R(r) = R(k)
          BY <4>1, <3>1, <2>4, <1>3
        <5>2. ~T(r)
          BY <4>1, <3>1, <1>3
        <5> QED
          BY <5>1, <5>2, <3>1, <1>2
      <4> QED
        BY <4>1
    <3> QED
      BY <3>1, <3>2, <2>4 DEF LinksOn, U, p
  <2>5. R(k) # R(key) => p = n
    BY <1>1 DEF SeenAfter
  <2>6. R(k) = R(key) /\ ~(0 < l) => p.next = n.next
    BY <1>1, LeafPart DEF Node
  <2>7. R(k) = R(key) /\ 0 < l => p.next = IF T(k) THEN n.next ELSE y
    BY <1>1, LeafPart DEF Node
  <2> QED
    BY <2>2, <2>3, <2>4, <2>5, <2>6, <2>7
<1> QED
  BY <1>4 DEF Chained

LEMMA OwnedAfter ==
    ASSUME NEW t, NEW rf, Mapped(t, rf), NEW P, NEW key, NEW val, NEW ch, NEW l,
           NEW top, NEW W, Ends(t, P, rf, key, val, ch, l, top, W),
           NEW u, u = Committed(t, P, key, ch, l, top, W)
    PROVE  Owned(u)
<1>1. /\ key \in Keys /\ t.height \in Nat /\ 0 \in 0..t.height /\ l \in 0..t.height + 1
      /\ SeenAfter(t, u, P, key, val, ch, l) /\ UsedAfter(t, u, key, ch, l, top)
  <2>1. key \in Keys /\ t.height \in Nat /\ l \in 0..t.height + 1
    BY DEF Ends, Climbed, Mapped, Rooted
  <2> QED
    BY <2>1, AfterEnd
<1>2. /\ u.height \in Nat
      /\ l <= t.height => u.height = t.height
      /\ l > t.height => u.height = t.height + 1 /\ l = t.height + 1
      /\ l > t.height => \A k \in Keys : u.route[l][k] = top
      /\ \A i \in 0..t.height, k \in Keys :
           u.route[i][k] = IF Turns(t, key, ch, l, i, k) THEN ch.new[i] ELSE t.route[i][k]
  BY RoutesAfter
<1>3. \A i \in 0..t.height : i \in 0..u.height
  BY <1>1, <1>2
<1>4. ASSUME NEW i \in 0..t.height, i < l
      PROVE  SepHome(t, rf, key, ch.sep[i], i)
  <2>1. i \in 0..l - 1
    BY <1>1, <1>4
  <2> QED
    BY <2>1 DEF Ends, Climbed, Halved
<1>5. ASSUME NEW i \in t.live, IsNode(t, i) PROVE IsNode(u, i)
  <2>1. PICK j \in 0..t.height, k \in Keys : i = t.route[j][k]
    BY <1>5 DEF IsNode
  <2>2. CASE ~Turns(t, key, ch, l, j, k)
    BY <2>1, <2>2, <1>2, <1>3 DEF IsNode
  <2>3. CASE Turns(t, key, ch, l, j, k)
    <3>1. j < l /\ t.route[j][k] = t.route[j][key]
      BY <2>3 DEF Turns
    <3>2. PICK a \in Keys : a < ch.sep[j] /\ t.route[j][a] = t.route[j][key] /\ ch.sep[j] \in Keys
      BY <3>1, <1>4 DEF SepHome
    <3>3. ~Turns(t, key, ch, l, j, a)
      <4>1. a \in Int /\ ch.sep[j] \in Int
        BY <3>2, KeysInt
      <4> QED
        BY <4>1, <3>2 DEF Turns
    <3>4. u.route[j][a] = i
      BY <3>1, <3>2, <3>3, <2>1, <1>2
    <3> QED
      BY <3>4, <1>3 DEF IsNode
  <2> QED
    BY <2>2, <2>3
<1>6. ASSUME NEW i \in t.live, IsValue(t, i) PROVE IsValue(u, i)
  <2>1. PICK k \in Keys : \E e \in Entries(Node(t, 0, k)) : e.page = i
    BY <1>6 DEF IsValue
  <2>2. PICK e \in Entries(Node(t, 0, k)) : e.page = i
    BY <2>1
  <2>3. e.key \in Keys /\ t.route[0][e.key] = t.route[0][k]
    BY DEF Mapped, LeavesHold, LeafHolds
  <2>4. PICK q \in Keys : q = e.key
    BY <2>3
  <2>5. e \in Entries(Node(t, 0, q))
    BY <2>3, <2>4 DEF Node
  <2>6. e \in Entries(Node(u, 0, q))
    <3>1. CASE t.route[0][q] # t.route[0][key]
      BY <3>1, <2>5, <1>1 DEF SeenAfter
    <3>2. CASE t.route[0][q] = t.route[0][key]
      <4>1. PICK m : m = Raised(t, key, ch, 0)
        OBVIOUS
      <4>2. PICK p : p = Node(u, 0, q)
        OBVIOUS
      <4>3. /\ Entries(m) = Entries(Node(t, 0, key)) \cup {[key |-> key, page |-> ch.page]}
            /\ Entries(p) = {x \in Entries(m) : Turns(t, key, ch, l, 0, x.key) <=> Turns(t, key, ch, l, 0, q)}
        BY <4>1, <4>2, <3>2, LeafPart
      <4>4. e \in Entries(Node(t, 0, key))
        BY <3>2, <2>5 DEF Node
      <4> QED
        BY <4>2, <4>3, <4>4, <2>4
    <3> QED
      BY <3>1, <3>2
  <2> QED
    BY <2>2, <2>6 DEF IsValue
<1>7. IsValue(u, ch.page)
  <2>1. PICK m : m = Raised(t, key, ch, 0)
    OBVIOUS
  <2>2. PICK p : p = Node(u, 0, key)
    OBVIOUS
  <2>3. /\ Entries(m) = Entries(Node(t, 0, key)) \cup {[key |-> key, page |-> ch.page]}
        /\ Entries(p) = {x \in Entries(m) : Turns(t, key, ch, l, 0, x.key) <=> Turns(t, key, ch, l, 0, key)}
    BY <2>1, <2>2, <1>1, LeafPart
  <2>4. [key |-> key, page |-> ch.page] \in Entries(p)
    BY <2>3
  <2> QED
    BY <2>2, <2>4, <1>1 DEF IsValue
<1>8. ASSUME NEW j \in 0..l - 1 PROVE IsNode(u, ch.new[j])
  <2>1. j \in 0..t.height /\ j < l
    BY <1>1
  <2>2. SepHome(t, rf, key, ch.sep[j], j)
    BY <2>1, <1>4
  <2>3. Turns(t, key, ch, l, j, ch.sep[j]) /\ ch.sep[j] \in Keys
    BY <2>1, <2>2, KeysInt DEF SepHome, Turns
  <2> QED
    BY <2>1, <2>3, <1>2, <1>3 DEF IsNode
<1>9. l > t.height => IsNode(u, top)
  <2>1. l > t.height => l \in 0..u.height
    BY <1>1, <1>2
  <2> QED
    BY <2>1, <1>1, <1>2 DEF IsNode
<1>10. ASSUME NEW i \in u.live PROVE IsNode(u, i) \/ IsValue(u, i)
  <2>1. \/ i \in t.live \/ i = ch.page \/ (\E j \in 0..l - 1 : i = ch.new[j]) \/ (l > t.height /\ i = top)
    BY <1>1 DEF UsedAfter
  <2> QED
    BY <2>1, <1>5, <1>6, <1>7, <1>8, <1>9 DEF Owned, Mapped
<1> QED
  BY <1>10 DEF Owned

\* The insertion that returns makes a tree of the map with its key.
LEMMA MappedAfter ==
    ASSUME NEW t, NEW rf \in [Keys -> Nat], Mapped(t, rf), NEW P, NEW key, NEW val, NEW ch, NEW l,
           NEW top, NEW W, Ends(t, P, rf, key, val, ch, l, top, W),
           NEW u, u = Committed(t, P, key, ch, l, top, W),
           NEW rf2, rf2 = [rf EXCEPT ![key] = val]
    PROVE  Mapped(u, rf2)
<1>1. LeavesHold(u, rf2)
  BY LeafAfter DEF LeavesHold
<1>2. ASSUME NEW i \in 1..u.height, NEW k \in Keys PROVE NodeLinks(u, rf2, i, k)
  <2>1. /\ l <= t.height => u.height = t.height
        /\ l > t.height => u.height = t.height + 1 /\ l = t.height + 1
        /\ t.height \in Nat /\ l \in 0..t.height + 1
    <3>1. t.height \in Nat /\ l \in 0..t.height + 1
      BY DEF Mapped, Rooted, Ends
    <3>2. /\ l <= t.height => u.height = t.height
          /\ l > t.height => u.height = t.height + 1 /\ l = t.height + 1
      BY RoutesAfter
    <3> QED
      BY <3>1, <3>2
  <2>2. CASE i \in 1..t.height
    BY <2>2, NodeAfter
  <2>3. CASE i \notin 1..t.height
    <3>1. l > t.height /\ i = l
      BY <2>1, <2>3
    <3> QED
      BY <3>1, RootAfter
  <2> QED
    BY <2>2, <2>3
<1>3. NodesLink(u, rf2)
  BY <1>2 DEF NodesLink
<1>4. Rooted(u, rf2) /\ Nested(u) /\ Leveled(u)
  BY RootedAfter, NestedAfter, LeveledAfter
<1>5. Filled(u) /\ Convex(u) /\ Fronted(u) /\ Chained(u) /\ Owned(u)
  BY FilledAfter, ConvexAfter, FrontedAfter, ChainedAfter, OwnedAfter
<1> QED
  BY <1>1, <1>3, <1>4, <1>5 DEF Mapped

\* The entry that a search for a key of a leaf finds.
LEMMA EntryOf ==
    ASSUME NEW n, SoundLeaf(n), NEW k \in Int, Holds(n, k)
    PROVE  /\ Below(n, k) + 1 \in 1..Len(n.keys)
           /\ n.keys[Below(n, k) + 1] \in Entries(n) /\ n.keys[Below(n, k) + 1].key = k
           /\ \A e \in Entries(n) : e.key = k => e = n.keys[Below(n, k) + 1]
<1> DEFINE b == Below(n, k)
<1>1. /\ AnyNode(n) /\ Ordered(KeysOf(n)) /\ Len(n.keys) \in Nat
      /\ \A i \in 1..Len(n.keys) : n.keys[i].key \in Int /\ KeyOf(n, i) = n.keys[i].key
      /\ \A i, j \in 1..Len(n.keys) : i < j => n.keys[i].key < n.keys[j].key
  BY LeafFacts DEF SoundLeaf
<1>2. b \in 0..Len(n.keys) /\ \A i \in 1..Len(n.keys) : n.keys[i].key < k <=> i <= b
  BY <1>1, BelowCuts
<1>3. PICK j \in 1..Len(n.keys) : n.keys[j].key = k
  BY <1>1, KeysTyped DEF Holds
<1> HIDE DEF b
<1>4. j = b + 1
  <2>1. ~(j <= b)
    BY <1>1, <1>2, <1>3
  <2>2. ~(b + 1 < j)
    <3>1. SUFFICES ASSUME b + 1 < j PROVE FALSE
      OBVIOUS
    <3>2. b + 1 \in 1..Len(n.keys)
      BY <3>1, <1>1, <1>2
    <3>3. n.keys[b + 1].key < k
      BY <3>1, <3>2, <1>1, <1>3
    <3>4. b + 1 <= b
      BY <3>2, <3>3, <1>2
    <3> QED
      BY <3>4, <1>2
  <2> QED
    BY <2>1, <2>2, <1>2
<1>5. ASSUME NEW e \in Entries(n), e.key = k PROVE e = n.keys[b + 1]
  <2>1. PICK i \in 1..Len(n.keys) : e = n.keys[i]
    BY DEF Entries
  <2>2. ~(i < j) /\ ~(j < i)
    BY <2>1, <1>1, <1>3, <1>5
  <2> QED
    BY <2>1, <2>2, <1>4
<1>6. n.keys[b + 1] \in Entries(n) /\ n.keys[b + 1].key = k /\ b + 1 \in 1..Len(n.keys)
  BY <1>3, <1>4 DEF Entries
<1> QED
  BY <1>5, <1>6 DEF b

\* A value written over: the tree is the same, but for that page.
Revalued(t, i, val) ==
    [page |-> [j \in Indexes |-> IF j = i THEN Value(val) ELSE t.page[j]],
     height |-> t.height, route |-> t.route, own |-> t.own, live |-> t.live]

ValuePage(t, k) == Node(t, 0, k).keys[Below(Node(t, 0, k), k) + 1].page

\* The value page of a present key.
LEMMA ValueFound ==
    ASSUME NEW t, NEW rf, Mapped(t, rf), NEW k \in Keys, Holds(Node(t, 0, k), k)
    PROVE  /\ rf[k] # 0
           /\ ValuePage(t, k) \in t.live /\ t.own[ValuePage(t, k)] = k
           /\ t.page[ValuePage(t, k)] = Value(rf[k])
           /\ \A e \in Entries(Node(t, 0, k)) : e.key = k => e.page = ValuePage(t, k)
<1> DEFINE n == Node(t, 0, k)
           e0 == n.keys[Below(n, k) + 1]
<1>1. LeafHolds(t, rf, k)
  BY DEF Mapped, LeavesHold
<1>2. SoundLeaf(n)
  BY <1>1 DEF LeafHolds
<1>3. e0 \in Entries(n) /\ e0.key = k /\ \A e \in Entries(n) : e.key = k => e = e0
  BY <1>2, KeysInt, EntryOf
<1>4. e0.page \in t.live /\ t.own[e0.page] = e0.key /\ t.page[e0.page] = Value(rf[e0.key])
  BY <1>1, <1>3 DEF LeafHolds
<1>5. rf[k] # 0
  BY <1>1 DEF LeafHolds
<1> QED
  BY <1>3, <1>4, <1>5 DEF ValuePage

LEMMA Revaluing ==
    ASSUME NEW t, NEW rf \in [Keys -> Nat], Mapped(t, rf), NEW key \in Keys,
           Holds(Node(t, 0, key), key), NEW val \in Nat \ {0},
           NEW u, u = Revalued(t, ValuePage(t, key), val),
           NEW rf2, rf2 = [rf EXCEPT ![key] = val]
    PROVE  Mapped(u, rf2)
<1> DEFINE x == ValuePage(t, key)
<1>1. /\ rf[key] # 0 /\ x \in t.live /\ t.own[x] = key /\ t.page[x] = Value(rf[key])
      /\ \A e \in Entries(Node(t, 0, key)) : e.key = key => e.page = x
  BY ValueFound
<1>2. /\ u.height = t.height /\ u.route = t.route /\ u.own = t.own /\ u.live = t.live
      /\ \A j \in Indexes : u.page[j] = IF j = x THEN Value(val) ELSE t.page[j]
  BY DEF Revalued
<1>3. /\ t.height \in Nat /\ t.height <= Cardinality(Present(rf)) /\ t.live \subseteq Indexes \ {0}
      /\ t.route \in [0..t.height -> [Keys -> t.live]]
      /\ \A k \in Keys : t.route[t.height][k] = DecodeRoot(t.page[HEADER_INDEX])
  BY DEF Mapped, Rooted
<1>4. /\ rf2[key] = val /\ val # 0 /\ \A q \in Keys : q # key => rf2[q] = rf[q]
      /\ \A q \in Keys : rf2[q] # 0 <=> rf[q] # 0
  BY <1>1
<1> HIDE DEF x
<1>5. Rooted(u, rf2)
  <2>1. Present(rf2) = Present(rf)
    BY <1>4 DEF Present
  <2>2. u.page[HEADER_INDEX] = t.page[HEADER_INDEX]
    BY <1>1, <1>2, <1>3, MaxPagesNat DEF HEADER_INDEX, Indexes
  <2> QED
    BY <2>1, <2>2, <1>2, <1>3 DEF Rooted
<1>6. ASSUME NEW l \in 0..t.height, NEW k \in Keys PROVE Node(u, l, k) = Node(t, l, k)
  <2>1. t.route[l][k] \in Indexes
    BY RouteTyped DEF Mapped
  <2>2. t.page[t.route[l][k]].type \in {"leaf", "internal"}
    BY NodeType DEF Node
  <2>3. t.page[x].type = "value"
    BY <1>1 DEF Value
  <2>4. t.route[l][k] # x
    BY <2>2, <2>3
  <2> QED
    BY <2>1, <2>4, <1>2 DEF Node
<1>7. ASSUME NEW k \in Keys PROVE LeafHolds(u, rf2, k)
  <2> DEFINE n == Node(t, 0, k)
  <2>1. Node(u, 0, k) = n
    BY <1>3, <1>6
  <2>2. /\ SoundLeaf(n) /\ (Holds(n, k) <=> rf[k] # 0)
        /\ \A e \in Entries(n) :
              /\ e.key \in Keys /\ t.route[0][e.key] = t.route[0][k]
              /\ e.page \in t.live /\ t.own[e.page] = e.key
              /\ t.page[e.page] = Value(rf[e.key])
    BY DEF Mapped, LeavesHold, LeafHolds
  <2>3. ASSUME NEW e \in Entries(n) PROVE u.page[e.page] = Value(rf2[e.key])
    <3>1. e.page \in Indexes
      BY <2>2, <1>3
    <3>2. CASE e.key = key
      <4>1. Node(t, 0, key) = n
        BY <3>2, <2>2 DEF Node
      <4>2. e.page = x
        BY <4>1, <3>2, <1>1
      <4> QED
        BY <3>1, <3>2, <4>2, <1>2, <1>4
    <3>3. CASE e.key # key
      <4>1. e.page # x
        BY <3>3, <2>2, <1>1
      <4> QED
        BY <3>1, <3>3, <4>1, <2>2, <1>2, <1>4
    <3> QED
      BY <3>2, <3>3
  <2> HIDE DEF n
  <2> QED
    BY <2>1, <2>2, <2>3, <1>2, <1>4 DEF LeafHolds
<1>8. ASSUME NEW l \in 1..t.height, NEW k \in Keys PROVE NodeLinks(u, rf2, l, k)
  <2>1. Node(u, l, k) = Node(t, l, k)
    BY <1>3, <1>6
  <2>2. NodeLinks(t, rf, l, k)
    BY DEF Mapped, NodesLink
  <2> QED
    BY <2>1, <2>2, <1>2, <1>4 DEF NodeLinks
<1>9. Nested(u) /\ Leveled(u)
  BY <1>2 DEF Mapped, Nested, Leveled
<1>10. Filled(u) /\ Convex(u) /\ Fronted(u)
  BY <1>2, <1>6 DEF Mapped, Filled, Convex, Fronted
<1>11. 0 \in 0..t.height
  BY <1>3
<1>12. Chained(u)
  <2>1. \A k \in Keys : Node(u, 0, k) = Node(t, 0, k)
    BY <1>6, <1>11
  <2> QED
    BY <2>1, <1>2 DEF Mapped, Chained, LinksOn
<1>13. Owned(u)
  <2>1. \A i : IsNode(t, i) => IsNode(u, i)
    BY <1>2 DEF IsNode
  <2>2. \A i : IsValue(t, i) => IsValue(u, i)
    BY <1>6, <1>11 DEF IsValue
  <2> QED
    BY <2>1, <2>2, <1>2 DEF Mapped, Owned
<1> QED
  BY <1>2, <1>5, <1>7, <1>8, <1>9, <1>10, <1>12, <1>13 DEF Mapped, LeavesHold, NodesLink

------------------------------------------------------------------------------
(* Where a cursor stands in the tree `t`: `o` is its operation, `R` and `W`  *)
(* the pages it read and wrote, `P` the pages as they are.                   *)

Busy(o) == o.pc \notin {"idle", "done"}

\* The way of key k from the root down to level l.
Stop(t, l, k) == [page |-> t.route[l][k], node |-> Node(t, l, k), slot |-> Below(Node(t, l, k), k) + 1]
PathTo(t, k, l) == [j \in 1..t.height - l |-> Stop(t, t.height + 1 - j, k)]

OnPath(t, o, R, l) ==
    /\ l \in 0..t.height /\ o.root = DecodeRoot(t.page[HEADER_INDEX])
    /\ o.at = t.route[l][o.key] /\ o.path = PathTo(t, o.key, l)
    /\ \A i \in l + 1..t.height : t.route[i][o.key] \in R

AtValue(t, o, R) ==
    t.route[0][o.key] \in R /\ Holds(Node(t, 0, o.key), o.key) /\ o.at = ValuePage(t, o.key)

AtPlace(t, o, R) ==
    /\ OnPath(t, o, R, 0) /\ o.at \in R
    /\ o.node = Node(t, 0, o.key) /\ ~Holds(Node(t, 0, o.key), o.key)

AtSplit(t, P, rf, o, R, W, l, ch) ==
    LET m == Raised(t, o.key, ch, l) IN
    /\ OnPath(t, o, R, l) /\ o.at \in R
    /\ Climbed(t, P, rf, o.key, o.val, ch, l) /\ W = Spread(t, o.key, ch, l) /\ Len(m.keys) > MaxLen
    /\ o.node = IF m.type = "leaf" THEN LeafLeft(m) ELSE InternalLeft(m)
    /\ o.right = RightOf(m, o.at) /\ o.sep = SepOf(m)

AtWhole(t, P, rf, o, R, W, l, ch) ==
    LET m == Raised(t, o.key, ch, l) IN
    /\ OnPath(t, o, R, l) /\ o.at \in R
    /\ Climbed(t, P, rf, o.key, o.val, ch, l) /\ W = Spread(t, o.key, ch, l) /\ Len(m.keys) <= MaxLen
    /\ o.new = 0 /\ o.node = m

AtHalf(t, P, rf, o, R, W, l, ch) ==
    LET m == Raised(t, o.key, ch, l) IN
    /\ OnPath(t, o, R, l) /\ o.at \in R
    /\ Climbed(t, P, rf, o.key, o.val, ch, l) /\ Len(m.keys) > MaxLen
    /\ o.new \in Fresh(t) \ Spread(t, o.key, ch, l)
    /\ W = Spread(t, o.key, ch, l) \cup {o.new}
    /\ o.node = LeftOf(m, o.new) /\ P[o.new] = RightOf(m, o.at) /\ o.sep = SepOf(m)

AtRoot(t, P, rf, o, W, ch) ==
    /\ Climbed(t, P, rf, o.key, o.val, ch, t.height + 1) /\ W = Spread(t, o.key, ch, t.height + 1)
    /\ o.root = DecodeRoot(t.page[HEADER_INDEX])
    /\ o.new = ch.new[t.height] /\ o.sep = ch.sep[t.height]

AtSetRoot(t, P, rf, o, W, ch) ==
    /\ Climbed(t, P, rf, o.key, o.val, ch, t.height + 1)
    /\ o.new \in Fresh(t) \ Spread(t, o.key, ch, t.height + 1)
    /\ W = Spread(t, o.key, ch, t.height + 1) \cup {o.new}
    /\ P[o.new] = Internal(<<ch.sep[t.height]>>, <<t.route[t.height][o.key], ch.new[t.height]>>)

\* No key up to this one is in the tree, and the leaf that could hold one was read.
Least(t, rf, key, R) == \A q \in Keys : q <= key => rf[q] = 0 /\ t.route[0][q] \in R
\* A new minimum has put the separators of the node out of order.
Undercut(t, rf, o, R) == Doomed(o.node) /\ Least(t, rf, o.key, R)

Sited(t, P, rf, o, R, W) ==
    /\ o.kind = "get" /\ o.seen # 0 /\ Busy(o) => rf[o.key] # 0
    /\ o.kind = "get" /\ o.seen # 0 /\ o.pc = "done" => o.res = "ok"
    /\ o.pc \in {"idle", "header", "down", "value", "place"} => W = {}
    /\ o.pc \in {"down", "value", "place", "split", "write", "root", "set_root"} => HEADER_INDEX \in R
    /\ o.pc \in {"place", "split", "write", "root", "set_root"} => o.kind = "insert"
    /\ o.pc = "down" => \E l : OnPath(t, o, R, l)
    /\ o.pc = "value" => AtValue(t, o, R)
    /\ o.pc = "place" => AtPlace(t, o, R)
    /\ o.pc \in {"split", "write"} /\ o.first => Least(t, rf, o.key, R)
    /\ o.pc = "split" => Ordered(KeysOf(o.right))
    /\ o.pc = "split" => Undercut(t, rf, o, R) \/ \E l, ch : AtSplit(t, P, rf, o, R, W, l, ch)
    /\ o.pc = "write" => \/ Undercut(t, rf, o, R)
                         \/ \E l, ch : AtWhole(t, P, rf, o, R, W, l, ch)
                         \/ \E l, ch : AtHalf(t, P, rf, o, R, W, l, ch)
    /\ o.pc = "root" => \E ch : AtRoot(t, P, rf, o, W, ch)
    /\ o.pc = "set_root" => \E ch : AtSetRoot(t, P, rf, o, W, ch)

\* What others leave alone: the pages outside X, and the keys that go there.
Parent(t, l, k) == IF l = t.height THEN HEADER_INDEX ELSE t.route[l + 1][k]
Moved(t, P, rf, t2, P2, rf2, X) ==
    /\ \A i \in Indexes \ X : P2[i] = P[i] /\ t2.page[i] = t.page[i]
    /\ HEADER_INDEX \notin X => t2.height = t.height
    /\ \A l \in 0..t.height, k \in Keys :
          t2.route[l][k] = t.route[l][k] \/ (t.route[l][k] \in X /\ Parent(t, l, k) \in X)
    /\ t.live \subseteq t2.live /\ t2.live \subseteq t.live \cup X
    /\ \A k \in Keys : rf[k] # 0 => rf2[k] # 0
    /\ \A k \in Keys : rf[k] = 0 /\ t.route[0][k] \notin X => rf2[k] = 0

LEMMA RouteKept ==
    ASSUME NEW t, NEW rf, Mapped(t, rf), NEW P, NEW t2, NEW P2, NEW rf2, NEW X,
           Moved(t, P, rf, t2, P2, rf2, X), NEW l \in 0..t.height, NEW k \in Keys,
           t.route[l][k] \notin X
    PROVE  /\ \A q \in Keys : t.route[l][q] = t.route[l][k] => t2.route[l][q] = t.route[l][k]
           /\ t2.route[l][k] = t.route[l][k]
           /\ Node(t2, l, k) = Node(t, l, k)
           /\ P2[t.route[l][k]] = P[t.route[l][k]]
<1>1. \A q \in Keys : t.route[l][q] = t.route[l][k] => t2.route[l][q] = t.route[l][k]
  BY DEF Moved
<1>2. t.route[l][k] \in Indexes
  BY RouteTyped DEF Mapped
<1>3. /\ t2.page[t.route[l][k]] = t.page[t.route[l][k]]
      /\ P2[t.route[l][k]] = P[t.route[l][k]]
  BY <1>2 DEF Moved
<1> QED
  BY <1>1, <1>3 DEF Node

LEMMA RaisedKept ==
    ASSUME NEW t, NEW rf, Mapped(t, rf), NEW P, NEW t2, NEW P2, NEW rf2, NEW X,
           Moved(t, P, rf, t2, P2, rf2, X), NEW l \in 0..t.height, NEW key \in Keys,
           t.route[l][key] \notin X, NEW ch
    PROVE  Raised(t2, key, ch, l) = Raised(t, key, ch, l)
<1>1. Node(t2, l, key) = Node(t, l, key)
  BY RouteKept
<1> QED
  BY <1>1 DEF Raised

LEMMA HalvedKept ==
    ASSUME NEW t, NEW rf, Mapped(t, rf), NEW P, NEW t2, NEW P2, NEW rf2, NEW X,
           Moved(t, P, rf, t2, P2, rf2, X), NEW l \in 0..t.height, NEW key \in Keys, NEW ch,
           t.route[l][key] \notin X, ch.new[l] \in Indexes \ X, Halved(t, P, rf, key, ch, l)
    PROVE  Halved(t2, P2, rf2, key, ch, l)
<1>1. /\ Raised(t2, key, ch, l) = Raised(t, key, ch, l) /\ t2.route[l][key] = t.route[l][key]
      /\ P2[t.route[l][key]] = P[t.route[l][key]]
  BY RaisedKept, RouteKept
<1>2. P2[ch.new[l]] = P[ch.new[l]]
  BY DEF Moved
<1>3. SepHome(t2, rf2, key, ch.sep[l], l)
  <2> DEFINE s == ch.sep[l]
  <2>1. /\ s \in Keys /\ t.route[l][s] = t.route[l][key] /\ (s = key \/ rf[s] # 0)
        /\ \E a \in Keys : a < s /\ t.route[l][a] = t.route[l][key]
    BY DEF Halved, SepHome
  <2>2. \A q \in Keys : t.route[l][q] = t.route[l][key] => t2.route[l][q] = t2.route[l][key]
    BY RouteKept
  <2>3. rf[s] # 0 => rf2[s] # 0
    BY <2>1 DEF Moved
  <2> HIDE DEF s
  <2>4. SepHome(t2, rf2, key, s, l)
    BY <2>1, <2>2, <2>3 DEF SepHome
  <2> QED
    BY <2>4 DEF s
<1> QED
  BY <1>1, <1>2, <1>3 DEF Halved

\* What an insertion has split so far stays split.
LEMMA ClimbedKept ==
    ASSUME NEW t, NEW rf, Mapped(t, rf), NEW P, NEW t2, NEW P2, NEW rf2, NEW X,
           Moved(t, P, rf, t2, P2, rf2, X), NEW key, NEW val, NEW ch, NEW l \in 0..t.height + 1,
           Climbed(t, P, rf, key, val, ch, l), Spread(t, key, ch, l) \cap X = {},
           t.route[0][key] \notin X
    PROVE  Climbed(t2, P2, rf2, key, val, ch, l) /\ Spread(t2, key, ch, l) = Spread(t, key, ch, l)
<1>1. /\ t.height \in Nat
      /\ key \in Keys /\ rf[key] = 0 /\ val \in Nat \ {0}
      /\ ch.page \in Fresh(t) /\ P[ch.page] = Value(val)
      /\ \A i \in 0..l - 1 : Halved(t, P, rf, key, ch, i)
      /\ \A i \in 0..l - 1 : ch.new[i] \in Fresh(t) /\ ch.new[i] # ch.page
      /\ \A i, j \in 0..l - 1 : ch.new[i] = ch.new[j] => i = j
  BY DEF Climbed, Mapped, Rooted
<1>2. /\ ch.page \notin X
      /\ \A i \in 0..l - 1 : t.route[i][key] \notin X /\ ch.new[i] \notin X /\ i \in 0..t.height
  <2>1. ch.page \in Spread(t, key, ch, l)
        /\ \A i \in 0..l - 1 : t.route[i][key] \in Spread(t, key, ch, l) /\ ch.new[i] \in Spread(t, key, ch, l)
    BY DEF Spread
  <2>2. \A i \in 0..l - 1 : i \in 0..t.height
    BY <1>1
  <2> QED
    BY <2>1, <2>2
<1>3. \A i \in Fresh(t) : i \notin X => i \in Fresh(t2) /\ i \in Indexes
  BY DEF Fresh, Moved
<1>4. rf2[key] = 0 /\ P2[ch.page] = Value(val)
  BY <1>1, <1>2, <1>3 DEF Moved
<1>5. ASSUME NEW i \in 0..l - 1 PROVE Halved(t2, P2, rf2, key, ch, i)
  <2>1. ch.new[i] \in Indexes \ X /\ i \in 0..t.height /\ t.route[i][key] \notin X
    BY <1>1, <1>2, <1>3
  <2> QED
    BY <2>1, <1>1, HalvedKept
<1>6. Climbed(t2, P2, rf2, key, val, ch, l)
  BY <1>1, <1>2, <1>3, <1>4, <1>5 DEF Climbed
<1>7. \A i \in 0..l - 1 : t2.route[i][key] = t.route[i][key]
  BY <1>1, <1>2, RouteKept
<1>8. Spread(t2, key, ch, l) = Spread(t, key, ch, l)
  BY <1>7 DEF Spread
<1> QED
  BY <1>6, <1>8

LEMMA OnPathKept ==
    ASSUME NEW t, NEW rf, Mapped(t, rf), NEW P, NEW t2, NEW P2, NEW rf2, NEW X,
           Moved(t, P, rf, t2, P2, rf2, X), NEW o, o.key \in Keys, NEW R, R \cap X = {},
           HEADER_INDEX \in R, NEW l, OnPath(t, o, R, l)
    PROVE  OnPath(t2, o, R, l) /\ t2.height = t.height
<1>1. /\ t.height \in Nat /\ l \in 0..t.height /\ o.root = DecodeRoot(t.page[HEADER_INDEX])
      /\ o.at = t.route[l][o.key] /\ o.path = PathTo(t, o.key, l)
      /\ \A i \in l + 1..t.height : t.route[i][o.key] \in R
  BY DEF OnPath, Mapped, Rooted
<1>2. HEADER_INDEX \in Indexes \ X
  BY MaxPagesNat DEF HEADER_INDEX, Indexes
<1>3. t2.height = t.height /\ t2.page[HEADER_INDEX] = t.page[HEADER_INDEX]
  BY <1>2 DEF Moved
<1>4. \A i \in l + 1..t.height : i \in 0..t.height /\ t.route[i][o.key] \notin X
  BY <1>1
<1>5. t2.route[l][o.key] = t.route[l][o.key]
  <2>1. Parent(t, l, o.key) \notin X
    <3>1. CASE l = t.height
      BY <3>1, <1>2 DEF Parent
    <3>2. CASE l # t.height
      <4>1. l + 1 \in l + 1..t.height
        BY <3>2, <1>1
      <4> QED
        BY <3>2, <4>1, <1>4 DEF Parent
    <3> QED
      BY <3>1, <3>2
  <2> QED
    BY <2>1, <1>1 DEF Moved
<1>6. \A i \in l + 1..t.height : t2.route[i][o.key] = t.route[i][o.key] /\ Node(t2, i, o.key) = Node(t, i, o.key)
  BY <1>4, RouteKept
<1>7. PathTo(t2, o.key, l) = PathTo(t, o.key, l)
  <2>1. \A j \in 1..t.height - l : Stop(t2, t.height + 1 - j, o.key) = Stop(t, t.height + 1 - j, o.key)
    <3>1. \A j \in 1..t.height - l : t.height + 1 - j \in l + 1..t.height
      BY <1>1
    <3> QED
      BY <3>1, <1>6 DEF Stop
  <2> QED
    BY <2>1, <1>3 DEF PathTo
<1> QED
  BY <1>1, <1>3, <1>5, <1>6, <1>7 DEF OnPath

\* A cursor stands where it stood when another one writes pages that it neither read nor
\* wrote.
LEMMA SitedKept ==
    ASSUME NEW t, NEW rf, Mapped(t, rf), NEW P, NEW t2, NEW P2, NEW rf2, NEW X,
           Moved(t, P, rf, t2, P2, rf2, X), NEW o, Busy(o) => o.key \in Keys, NEW R, NEW W,
           (R \cup W) \cap X = {}, Sited(t, P, rf, o, R, W)
    PROVE  Sited(t2, P2, rf2, o, R, W)
<1>1. t.height \in Nat
  BY DEF Mapped, Rooted
<1>2. R \cap X = {} /\ W \cap X = {}
  OBVIOUS
<1>3. ASSUME HEADER_INDEX \in R PROVE t2.height = t.height /\ t2.page[HEADER_INDEX] = t.page[HEADER_INDEX]
  BY <1>2, <1>3, MaxPagesNat DEF Moved, HEADER_INDEX, Indexes
<1>4. \A k \in Keys : rf[k] # 0 => rf2[k] # 0
  BY DEF Moved
<1>5. ASSUME o.key \in Keys, HEADER_INDEX \in R, NEW l, OnPath(t, o, R, l), o.at \in R
      PROVE  /\ OnPath(t2, o, R, l) /\ l \in 0..t.height /\ t.height \in Nat
             /\ \A ch : Raised(t2, o.key, ch, l) = Raised(t, o.key, ch, l)
             /\ Node(t2, l, o.key) = Node(t, l, o.key)
             /\ l = 0 => t.route[0][o.key] \notin X
  <2>1. l \in 0..t.height /\ t.route[l][o.key] \notin X
    BY <1>2, <1>5 DEF OnPath
  <2>2. OnPath(t2, o, R, l)
    BY <1>2, <1>5, OnPathKept
  <2>3. Node(t2, l, o.key) = Node(t, l, o.key)
    BY <1>5, <2>1, RouteKept
  <2>4. \A ch : Raised(t2, o.key, ch, l) = Raised(t, o.key, ch, l)
    BY <1>5, <2>1, RaisedKept
  <2> QED
    BY <2>1, <2>2, <2>3, <2>4, <1>1
<1>6. ASSUME o.key \in Keys, NEW l \in 0..t.height + 1, NEW ch, Climbed(t, P, rf, o.key, o.val, ch, l),
             Spread(t, o.key, ch, l) \subseteq W, l = 0 => t.route[0][o.key] \notin X
      PROVE  Climbed(t2, P2, rf2, o.key, o.val, ch, l) /\ Spread(t2, o.key, ch, l) = Spread(t, o.key, ch, l)
  <2>1. t.route[0][o.key] \notin X
    <3>1. CASE l # 0
      <4>1. 0 \in 0..l - 1
        BY <3>1, <1>1, <1>6
      <4>2. t.route[0][o.key] \in Spread(t, o.key, ch, l)
        BY <4>1 DEF Spread
      <4> QED
        BY <4>2, <1>2, <1>6
    <3> QED
      BY <3>1, <1>6
  <2>2. Spread(t, o.key, ch, l) \cap X = {}
    BY <1>2, <1>6
  <2> QED
    BY <2>1, <2>2, <1>6, ClimbedKept
<1>7. \A i \in Fresh(t) : i \notin X => i \in Fresh(t2) /\ P2[i] = P[i]
  BY DEF Fresh, Moved
<1>8. o.pc = "down" => \E l : OnPath(t2, o, R, l)
  <2>1. SUFFICES ASSUME o.pc = "down" PROVE \E l : OnPath(t2, o, R, l)
    OBVIOUS
  <2>2. o.key \in Keys /\ HEADER_INDEX \in R /\ \E l : OnPath(t, o, R, l)
    BY <2>1 DEF Sited, Busy
  <2>3. PICK l : OnPath(t, o, R, l)
    BY <2>2
  <2>4. OnPath(t2, o, R, l)
    BY <2>2, <2>3, <1>2, OnPathKept
  <2> QED
    BY <2>4
<1>9. o.pc = "value" => AtValue(t2, o, R)
  <2>1. SUFFICES ASSUME o.pc = "value" PROVE AtValue(t2, o, R)
    OBVIOUS
  <2>2. o.key \in Keys /\ AtValue(t, o, R)
    BY <2>1 DEF Sited, Busy
  <2>3. 0 \in 0..t.height /\ t.route[0][o.key] \notin X
    BY <2>2, <1>1, <1>2 DEF AtValue
  <2>4. Node(t2, 0, o.key) = Node(t, 0, o.key) /\ t2.route[0][o.key] = t.route[0][o.key]
    BY <2>2, <2>3, RouteKept
  <2> QED
    BY <2>2, <2>4 DEF AtValue, ValuePage
<1>10. o.pc = "place" => AtPlace(t2, o, R)
  <2>1. SUFFICES ASSUME o.pc = "place" PROVE AtPlace(t2, o, R)
    OBVIOUS
  <2>2. o.key \in Keys /\ AtPlace(t, o, R) /\ HEADER_INDEX \in R
    BY <2>1 DEF Sited, Busy
  <2>3. OnPath(t, o, R, 0) /\ o.at \in R
    BY <2>2 DEF AtPlace
  <2>4. OnPath(t2, o, R, 0) /\ Node(t2, 0, o.key) = Node(t, 0, o.key)
    BY <2>2, <2>3, <1>5
  <2> QED
    BY <2>2, <2>4 DEF AtPlace
<1>11. ASSUME o.pc = "split", NEW l, NEW ch, AtSplit(t, P, rf, o, R, W, l, ch)
       PROVE  AtSplit(t2, P2, rf2, o, R, W, l, ch)
  <2>1. o.key \in Keys /\ HEADER_INDEX \in R
    BY <1>11 DEF Sited, Busy
  <2>2. OnPath(t, o, R, l) /\ o.at \in R /\ Climbed(t, P, rf, o.key, o.val, ch, l) /\ W = Spread(t, o.key, ch, l)
    BY <1>11 DEF AtSplit
  <2>3. /\ OnPath(t2, o, R, l) /\ l \in 0..t.height
        /\ Raised(t2, o.key, ch, l) = Raised(t, o.key, ch, l)
        /\ l = 0 => t.route[0][o.key] \notin X
    BY <2>1, <2>2, <1>5
  <2>4. Climbed(t2, P2, rf2, o.key, o.val, ch, l) /\ Spread(t2, o.key, ch, l) = Spread(t, o.key, ch, l)
    <3>1. l \in 0..t.height + 1
      BY <2>3, <1>1
    <3> QED
      BY <3>1, <2>1, <2>2, <2>3, <1>6
  <2> QED
    BY <2>2, <2>3, <2>4, <1>11 DEF AtSplit
<1>12. ASSUME o.pc = "write", NEW l, NEW ch, AtWhole(t, P, rf, o, R, W, l, ch)
       PROVE  AtWhole(t2, P2, rf2, o, R, W, l, ch)
  <2>1. o.key \in Keys /\ HEADER_INDEX \in R
    BY <1>12 DEF Sited, Busy
  <2>2. OnPath(t, o, R, l) /\ o.at \in R /\ Climbed(t, P, rf, o.key, o.val, ch, l) /\ W = Spread(t, o.key, ch, l)
    BY <1>12 DEF AtWhole
  <2>3. /\ OnPath(t2, o, R, l) /\ l \in 0..t.height
        /\ Raised(t2, o.key, ch, l) = Raised(t, o.key, ch, l)
        /\ l = 0 => t.route[0][o.key] \notin X
    BY <2>1, <2>2, <1>5
  <2>4. Climbed(t2, P2, rf2, o.key, o.val, ch, l) /\ Spread(t2, o.key, ch, l) = Spread(t, o.key, ch, l)
    <3>1. l \in 0..t.height + 1
      BY <2>3, <1>1
    <3> QED
      BY <3>1, <2>1, <2>2, <2>3, <1>6
  <2> QED
    BY <2>2, <2>3, <2>4, <1>12 DEF AtWhole
<1>13. ASSUME o.pc = "write", NEW l, NEW ch, AtHalf(t, P, rf, o, R, W, l, ch)
       PROVE  AtHalf(t2, P2, rf2, o, R, W, l, ch)
  <2>1. o.key \in Keys /\ HEADER_INDEX \in R
    BY <1>13 DEF Sited, Busy
  <2>2. /\ OnPath(t, o, R, l) /\ o.at \in R /\ Climbed(t, P, rf, o.key, o.val, ch, l)
        /\ W = Spread(t, o.key, ch, l) \cup {o.new} /\ o.new \in Fresh(t)
    BY <1>13 DEF AtHalf
  <2>3. /\ OnPath(t2, o, R, l) /\ l \in 0..t.height
        /\ Raised(t2, o.key, ch, l) = Raised(t, o.key, ch, l)
        /\ l = 0 => t.route[0][o.key] \notin X
    BY <2>1, <2>2, <1>5
  <2>4. Climbed(t2, P2, rf2, o.key, o.val, ch, l) /\ Spread(t2, o.key, ch, l) = Spread(t, o.key, ch, l)
    <3>1. l \in 0..t.height + 1 /\ Spread(t, o.key, ch, l) \subseteq W
      BY <2>2, <2>3, <1>1
    <3> QED
      BY <3>1, <2>1, <2>2, <2>3, <1>6
  <2>5. o.new \in Fresh(t2) /\ P2[o.new] = P[o.new]
    BY <2>2, <1>2, <1>7
  <2> QED
    BY <2>2, <2>3, <2>4, <2>5, <1>13 DEF AtHalf
<1>14. ASSUME o.pc \in {"root", "set_root"}, NEW ch,
              Climbed(t, P, rf, o.key, o.val, ch, t.height + 1), Spread(t, o.key, ch, t.height + 1) \subseteq W
       PROVE  /\ Climbed(t2, P2, rf2, o.key, o.val, ch, t2.height + 1)
              /\ Spread(t2, o.key, ch, t2.height + 1) = Spread(t, o.key, ch, t.height + 1)
              /\ t2.height = t.height /\ t2.page[HEADER_INDEX] = t.page[HEADER_INDEX]
              /\ t2.route[t.height][o.key] = t.route[t.height][o.key]
  <2>1. o.key \in Keys /\ HEADER_INDEX \in R
    BY <1>14 DEF Sited, Busy
  <2>2. t2.height = t.height /\ t2.page[HEADER_INDEX] = t.page[HEADER_INDEX]
    BY <2>1, <1>3
  <2>3. t.height + 1 \in 0..t.height + 1 /\ t.height + 1 # 0 /\ t.height \in 0..(t.height + 1) - 1
        /\ t.height \in 0..t.height
    BY <1>1
  <2>4. /\ Climbed(t2, P2, rf2, o.key, o.val, ch, t.height + 1)
        /\ Spread(t2, o.key, ch, t.height + 1) = Spread(t, o.key, ch, t.height + 1)
    BY <2>1, <2>3, <1>6, <1>14
  <2>5. t.route[t.height][o.key] \in Spread(t, o.key, ch, t.height + 1)
    BY <2>3 DEF Spread
  <2>6. t2.route[t.height][o.key] = t.route[t.height][o.key]
    BY <2>1, <2>3, <2>5, <1>2, <1>14, RouteKept
  <2> QED
    BY <2>2, <2>4, <2>6
<1>15. ASSUME o.pc = "root", NEW ch, AtRoot(t, P, rf, o, W, ch) PROVE AtRoot(t2, P2, rf2, o, W, ch)
  <2>1. /\ Climbed(t, P, rf, o.key, o.val, ch, t.height + 1) /\ Spread(t, o.key, ch, t.height + 1) \subseteq W
        /\ o.pc \in {"root", "set_root"}
    BY <1>15 DEF AtRoot
  <2> QED
    BY <2>1, <1>14, <1>15 DEF AtRoot
<1>16. ASSUME o.pc = "set_root", NEW ch, AtSetRoot(t, P, rf, o, W, ch) PROVE AtSetRoot(t2, P2, rf2, o, W, ch)
  <2>1. /\ Climbed(t, P, rf, o.key, o.val, ch, t.height + 1) /\ Spread(t, o.key, ch, t.height + 1) \subseteq W
        /\ o.pc \in {"root", "set_root"} /\ o.new \in Fresh(t) /\ o.new \in W
    BY <1>16 DEF AtSetRoot
  <2>2. o.new \in Fresh(t2) /\ P2[o.new] = P[o.new]
    BY <2>1, <1>2, <1>7
  <2> QED
    BY <2>1, <2>2, <1>14, <1>16 DEF AtSetRoot
<1>17. o.kind = "get" /\ o.seen # 0 /\ Busy(o) => rf2[o.key] # 0
  BY <1>4 DEF Sited
<1>17a. ASSUME Least(t, rf, o.key, R) PROVE Least(t2, rf2, o.key, R)
  <2>1. ASSUME NEW q \in Keys, q <= o.key PROVE rf2[q] = 0 /\ t2.route[0][q] \in R
    <3>1. rf[q] = 0 /\ t.route[0][q] \in R /\ t.route[0][q] \notin X /\ 0 \in 0..t.height
      BY <2>1, <1>17a, <1>1, <1>2 DEF Least
    <3> QED
      BY <3>1 DEF Moved
  <2> QED
    BY <2>1 DEF Least
<1>17b. Undercut(t, rf, o, R) => Undercut(t2, rf2, o, R)
  BY <1>17a DEF Undercut
<1>18. o.pc = "split" => Undercut(t2, rf2, o, R) \/ \E l, ch : AtSplit(t2, P2, rf2, o, R, W, l, ch)
  BY <1>11, <1>17b DEF Sited
<1>19. o.pc = "write" => \/ Undercut(t2, rf2, o, R)
                         \/ \E l, ch : AtWhole(t2, P2, rf2, o, R, W, l, ch)
                         \/ \E l, ch : AtHalf(t2, P2, rf2, o, R, W, l, ch)
  BY <1>12, <1>13, <1>17b DEF Sited
<1>20. /\ o.pc = "root" => \E ch : AtRoot(t2, P2, rf2, o, W, ch)
       /\ o.pc = "set_root" => \E ch : AtSetRoot(t2, P2, rf2, o, W, ch)
  BY <1>15, <1>16 DEF Sited
<1> QED
  BY <1>8, <1>9, <1>10, <1>17, <1>18, <1>19, <1>20, <1>17a DEF Sited

\* An insertion that returns disturbs nobody else.
LEMMA CommitMoves ==
    ASSUME NEW t, NEW rf \in [Keys -> Nat], Mapped(t, rf), NEW P0, NEW P, NEW key, NEW val, NEW ch, NEW l,
           NEW top, NEW W, Ends(t, P, rf, key, val, ch, l, top, W),
           NEW u, u = Committed(t, P, key, ch, l, top, W),
           NEW rf2, rf2 = [rf EXCEPT ![key] = val], \A i \in Indexes \ W : P[i] = P0[i]
    PROVE  Moved(t, P0, rf, u, P, rf2, W)
<1>1. /\ t.height \in Nat /\ l \in 0..t.height + 1 /\ Climbed(t, P, rf, key, val, ch, l)
      /\ t.live \subseteq Indexes \ {0}
      /\ \A i \in 1..t.height, k1, k2 \in Keys :
            t.route[i - 1][k1] = t.route[i - 1][k2] => t.route[i][k1] = t.route[i][k2]
  BY DEF Mapped, Rooted, Ends, Nested
<1>2. key \in Keys /\ rf[key] = 0 /\ val \in Nat \ {0}
  BY <1>1 DEF Climbed
<1>3. /\ l <= t.height => u.height = t.height
      /\ \A i \in 0..t.height, k \in Keys :
            u.route[i][k] = IF Turns(t, key, ch, l, i, k) THEN ch.new[i] ELSE t.route[i][k]
  BY ONLY Mapped(t, rf), Ends(t, P, rf, key, val, ch, l, top, W),
          u = Committed(t, P, key, ch, l, top, W), RoutesAfter
<1>4. \A i \in Indexes \ W : u.page[i] = t.page[i]
  BY DEF Committed
<1>5. l > t.height => HEADER_INDEX \in W
  BY DEF Ends
<1>6. \A i \in 0..l : i \in 0..t.height => t.route[i][key] \in W
  <2>1. ASSUME NEW i \in 0..l, i \in 0..t.height PROVE t.route[i][key] \in W
    <3>1. CASE i = l
      BY <2>1, <3>1, <1>1 DEF Ends
    <3>2. CASE i # l
      <4>1. i \in 0..l - 1
        BY <3>2, <1>1
      <4>2. t.route[i][key] \in Spread(t, key, ch, l)
        BY <4>1 DEF Spread
      <4> QED
        BY <4>2, <1>1 DEF Ends
    <3> QED
      BY <3>1, <3>2
  <2> QED
    BY <2>1
<1>7. ASSUME NEW i \in 0..t.height, NEW k \in Keys, Turns(t, key, ch, l, i, k)
      PROVE  t.route[i][k] \in W /\ Parent(t, i, k) \in W
  <2>1. i < l /\ t.route[i][k] = t.route[i][key] /\ i \in 0..l
    BY <1>1, <1>7 DEF Turns
  <2>2. t.route[i][k] \in W
    BY <2>1, <1>6
  <2>3. CASE i = t.height
    BY <2>1, <2>2, <2>3, <1>5 DEF Parent
  <2>4. CASE i # t.height
    <3>1. i + 1 \in 1..t.height /\ i + 1 \in 0..l /\ i + 1 \in 0..t.height /\ (i + 1) - 1 = i
      BY <2>1, <2>4, <1>1
    <3>2. t.route[i + 1][k] = t.route[i + 1][key]
      BY <2>1, <3>1, <1>1, <1>2
    <3>3. Parent(t, i, k) \in W
      BY <2>4, <3>1, <3>2, <1>6 DEF Parent
    <3> QED
      BY <2>2, <3>3
  <2> QED
    BY <2>3, <2>4
<1>8. \A i \in 0..t.height, k \in Keys :
         u.route[i][k] = t.route[i][k] \/ (t.route[i][k] \in W /\ Parent(t, i, k) \in W)
  BY <1>3, <1>7
<1>9. t.live \subseteq u.live /\ u.live \subseteq t.live \cup W
  BY DEF Committed
<1>10. \A k \in Keys : rf[k] # 0 => rf2[k] # 0
  BY <1>2
<1>11. \A k \in Keys : rf[k] = 0 /\ t.route[0][k] \notin W => rf2[k] = 0
  <2>1. t.route[0][key] \in W
    BY <1>1, <1>6
  <2> QED
    BY <2>1, <1>2
<1>12. HEADER_INDEX \notin W => u.height = t.height
  BY <1>1, <1>3, <1>5
<1> QED
  BY <1>4, <1>8, <1>9, <1>10, <1>11, <1>12 DEF Moved

LEMMA RevalueMoves ==
    ASSUME NEW t, NEW rf \in [Keys -> Nat], Mapped(t, rf), NEW P0, NEW P, NEW key \in Keys,
           Holds(Node(t, 0, key), key), NEW val \in Nat \ {0}, NEW x, x = ValuePage(t, key),
           NEW u, u = Revalued(t, x, val),
           NEW rf2, rf2 = [rf EXCEPT ![key] = val], \A i \in Indexes \ {x} : P[i] = P0[i]
    PROVE  Moved(t, P0, rf, u, P, rf2, {x})
<1>1. rf[key] # 0
  BY ValueFound
<1>2. /\ u.height = t.height /\ u.route = t.route /\ u.live = t.live
      /\ \A i \in Indexes \ {x} : u.page[i] = t.page[i]
  BY DEF Revalued
<1> QED
  BY <1>1, <1>2 DEF Moved

LEMMA WritingMoves ==
    ASSUME NEW t, NEW rf, NEW P, NEW P2, NEW X, \A i \in Indexes \ X : P2[i] = P[i]
    PROVE  Moved(t, P, rf, t, P2, rf, X)
BY DEF Moved

------------------------------------------------------------------------------
(* The invariant of the map.                                               *)

\* What the bounds, the traces and the history hold.
Tracked ==
    /\ left \in [clients : SUBSET Clients, kinds : SUBSET Kinds, keys : SUBSET Keys, ops : 0..MaxOps]
    /\ DOMAIN cl = Clients /\ DOMAIN read = Clients /\ DOMAIN wrote = Clients
    /\ ref \in [Keys -> Nat]
    /\ \A c \in Clients : Busy(cl[c]) => /\ cl[c].key \in Keys
                                         /\ cl[c].kind = "insert" => cl[c].val \in Nat \ {0}

\* Every page handed out is in use or in the hands of an operation under way.
Claimed(t) ==
    \A i \in 1..last_index - 1 : i \in t.live \/ \E c \in Clients : Busy(cl[c]) /\ i \in wrote[c]

\* The store is the tree `t` but for the writes of operations under way.
Charted(t) ==
    /\ Mapped(t, ref)
    /\ t.live \subseteq 1..last_index - 1 /\ Claimed(t)
    /\ \A c \in Clients : wrote[c] \subseteq 0..last_index - 1
    /\ \A i \in Indexes : (\A c \in Clients : Busy(cl[c]) => i \notin wrote[c]) => pages[i] = t.page[i]
    /\ \A c \in Clients : Sited(t, pages, ref, cl[c], read[c], wrote[c])

\* Before the first leaf there is no key.
Unmapped == Blank /\ (\A k \in Keys : ref[k] = 0) /\ \A c \in Clients : cl[c].seen = 0

MapInv == Tracked /\ (~mangled /\ ~Conflict => Unmapped \/ \E t : Charted(t))

Traced(c, R, W) ==
    /\ read'[c] = R /\ wrote'[c] = W
    /\ \A d \in Clients : d # c => read'[d] = read[d] /\ wrote'[d] = wrote[d]

LEMMA ReadsTraced ==
    ASSUME Tracked, NEW c \in Clients, NEW i, Reads(c, i)
    PROVE  Traced(c, read[c] \cup {i}, wrote[c])
BY DEF Tracked, Reads, Traced

LEMMA WrittenTraced ==
    ASSUME Framed, Tracked, NEW c \in Clients, NEW i \in Indexes, NEW n, Written(c, i, n)
    PROVE  /\ Traced(c, read[c], wrote[c] \cup {i})
           /\ pages'[i] = n /\ \A j \in Indexes : j # i => pages'[j] = pages[j]
BY DEF Framed, Tracked, Written, Traced

LEMMA UntouchedTraced ==
    ASSUME NEW c \in Clients, UNCHANGED trace
    PROVE  Traced(c, read[c], wrote[c])
BY DEF Traced, trace

LEMMA IntervalGrows ==
    ASSUME NEW a \in Int, NEW b \in Int, b >= a
    PROVE  0..a - 1 \subseteq 0..b - 1
OBVIOUS

\* One client steps and the tree moves from t to t2.
LEMMA ChartMoves ==
    ASSUME Tracked, NEW t, Charted(t), ~Conflict', NEW c \in Clients, Others(c),
           NEW R, NEW W, Traced(c, R, W), NEW X, X \subseteq W, NEW t2,
           Mapped(t2, ref'), Moved(t, pages, ref, t2, pages', ref', X),
           last_index \in Int, last_index' \in Int, last_index' >= last_index,
           t2.live \subseteq 1..last_index' - 1, W \subseteq 0..last_index' - 1,
           1..last_index' - 1 \subseteq (1..last_index - 1) \cup W,
           ~Busy(cl'[c]) => W \ {HEADER_INDEX} \subseteq t2.live,
           Busy(cl[c]) => wrote[c] \subseteq W,
           ~Busy(cl'[c]) => \A i \in Indexes : i \in W => pages'[i] = t2.page[i],
           Sited(t2, pages', ref', cl'[c], R, W)
    PROVE  Charted(t2)'
<1>1. /\ Mapped(t, ref) /\ \A d \in Clients : wrote[d] \subseteq 0..last_index - 1
      /\ \A i \in Indexes : (\A d \in Clients : Busy(cl[d]) => i \notin wrote[d]) => pages[i] = t.page[i]
      /\ \A d \in Clients : Sited(t, pages, ref, cl[d], read[d], wrote[d])
  BY DEF Charted
<1>2. /\ read'[c] = R /\ wrote'[c] = W
      /\ \A d \in Clients : d # c => read'[d] = read[d] /\ wrote'[d] = wrote[d] /\ cl'[d] = cl[d]
  BY DEF Traced, Others
<1>3. ASSUME NEW d \in Clients, d # c PROVE Sited(t2, pages', ref', cl'[d], read'[d], wrote'[d])
  <2>1. (read[d] \cup wrote[d]) \cap X = {}
    <3>1. wrote'[c] \cap (read'[d] \cup wrote'[d]) = {}
      BY <1>3 DEF Conflict
    <3> QED
      BY <3>1, <1>2, <1>3
  <2>2. Busy(cl[d]) => cl[d].key \in Keys
    BY DEF Tracked
  <2>3. Sited(t2, pages', ref', cl[d], read[d], wrote[d])
    <3> HIDE DEF Tracked, Charted
    <3> QED
      BY <2>1, <2>2, <1>1, SitedKept
  <2> QED
    BY <2>3, <1>2, <1>3
<1>4. ASSUME NEW d \in Clients PROVE wrote'[d] \subseteq 0..last_index' - 1
  <2>1. 0..last_index - 1 \subseteq 0..last_index' - 1
    BY IntervalGrows
  <2> QED
    BY <2>1, <1>1, <1>2
<1>5. ASSUME NEW i \in Indexes, \A d \in Clients : Busy(cl'[d]) => i \notin wrote'[d]
      PROVE  pages'[i] = t2.page[i]
  <2>1. CASE i \in W
    BY <2>1, <1>2, <1>5
  <2>2. CASE i \notin W
    <3>1. pages'[i] = pages[i] /\ t2.page[i] = t.page[i]
      BY <2>2 DEF Moved
    <3>2. ASSUME NEW d \in Clients, Busy(cl[d]) PROVE i \notin wrote[d]
      BY <3>2, <2>2, <1>2, <1>5
    <3> QED
      BY <3>1, <3>2, <1>1
  <2> QED
    BY <2>1, <2>2
<1>6. \A d \in Clients : Sited(t2, pages', ref', cl'[d], read'[d], wrote'[d])
  BY <1>2, <1>3
<1>7. Claimed(t2)'
  <2>1. ASSUME NEW i \in 1..last_index' - 1
        PROVE  i \in t2.live \/ \E d \in Clients : Busy(cl'[d]) /\ i \in wrote'[d]
    <3>1. CASE i \in W
      <4>1. i # HEADER_INDEX
        BY DEF HEADER_INDEX
      <4> QED
        BY <3>1, <4>1, <1>2
    <3>2. CASE i \notin W
      <4>1. i \in t.live \/ \E d \in Clients : Busy(cl[d]) /\ i \in wrote[d]
        <5>1. i \in 1..last_index - 1
          BY <3>2
        <5> QED
          BY <5>1 DEF Charted, Claimed
      <4>2. t.live \subseteq t2.live
        BY DEF Moved
      <4> QED
        BY <4>1, <4>2, <3>2, <1>2
    <3> QED
      BY <3>1, <3>2
  <2> QED
    BY <2>1 DEF Claimed
<1> QED
  BY <1>4, <1>5, <1>6, <1>7 DEF Charted

\* What a cursor reads, and nobody else is writing, is of the tree.
LEMMA ReadsTree ==
    ASSUME NEW t, Charted(t), ~Conflict', NEW c \in Clients, NEW R, NEW W, Traced(c, R, W),
           NEW i \in Indexes, i \in R, i \notin wrote[c]
    PROVE  pages[i] = t.page[i]
<1>1. ASSUME NEW d \in Clients PROVE i \notin wrote[d]
  <2>1. CASE d = c
    BY <2>1
  <2>2. CASE d # c
    <3>1. wrote'[d] \cap (read'[c] \cup wrote'[c]) = {}
      BY <2>2 DEF Conflict
    <3> QED
      BY <3>1, <2>2 DEF Traced
  <2> QED
    BY <2>1, <2>2
<1> QED
  BY <1>1 DEF Charted

\* What a step of a call under way leaves alone of its operation.
Carries(c) ==
    /\ Others(c) /\ cl'[c].key = cl[c].key /\ cl'[c].kind = cl[c].kind /\ cl'[c].val = cl[c].val
    /\ cl'[c].seen = cl[c].seen

LEMMA ReturnCarries ==
    ASSUME Tracked, NEW c \in Clients, NEW res, Return(c, res)
    PROVE  /\ Carries(c) /\ cl'[c].pc = "done" /\ cl'[c].res = res
           /\ ref' = IF cl[c].kind = "insert" /\ res = "ok" THEN [ref EXCEPT ![cl[c].key] = cl[c].val] ELSE ref
<1>1. /\ cl'[c].key = cl[c].key /\ cl'[c].kind = cl[c].kind /\ cl'[c].val = cl[c].val
      /\ cl'[c].seen = cl[c].seen /\ cl'[c].pc = "done" /\ cl'[c].res = res
  BY DEF Return, Step, Idle, Tracked
<1>2. Others(c)
  BY StepAlone DEF Return, Tracked
<1> QED
  BY <1>1, <1>2 DEF Return, Carries

LEMMA SettleCarries ==
    ASSUME Tracked, NEW c \in Clients, NEW at, NEW n, NEW path, NEW first, Settle(c, at, n, path, first)
    PROVE  /\ Carries(c) /\ cl'[c].root = cl[c].root /\ cl'[c].at = at /\ cl'[c].path = path
           /\ cl'[c].first = first
           /\ \/ Len(n.keys) <= MaxLen /\ cl'[c].pc = "write" /\ cl'[c].node = n /\ cl'[c].new = 0
              \/ /\ ~(Len(n.keys) <= MaxLen) /\ cl'[c].pc = "split" /\ cl'[c].right = RightOf(n, at)
                 /\ cl'[c].node = (IF n.type = "leaf" THEN LeafLeft(n) ELSE InternalLeft(n))
                 /\ cl'[c].sep = SepOf(n)
<1> DEFINE whole == [pc |-> "write", at |-> at, node |-> n, path |-> path, new |-> 0, first |-> first]
           leaf == [pc |-> "split", at |-> at, node |-> LeafLeft(n), right |-> LeafRight(n, at),
                    sep |-> KeyOf(n, Half(Len(n.keys)) + 1), path |-> path, first |-> first]
           inner == [pc |-> "split", at |-> at, node |-> InternalLeft(n), right |-> InternalRight(n),
                     sep |-> KeyOf(n, Half(Len(n.keys)) + 1), path |-> path, first |-> first]
<1>1. \/ Len(n.keys) <= MaxLen /\ Step(c, whole)
      \/ ~(Len(n.keys) <= MaxLen) /\ n.type = "leaf" /\ Step(c, leaf)
      \/ ~(Len(n.keys) <= MaxLen) /\ n.type # "leaf" /\ Step(c, inner)
  BY DEF Settle
<1>2. Others(c)
  BY <1>1, StepAlone DEF Tracked
<1> DEFINE l0 == LeafLeft(n)
           r0 == LeafRight(n, at)
           l1 == InternalLeft(n)
           r1 == InternalRight(n)
           sp == KeyOf(n, Half(Len(n.keys)) + 1)
<1>3. RightOf(n, at) = (IF n.type = "leaf" THEN r0 ELSE r1) /\ SepOf(n) = sp
  BY DEF RightOf, SepOf
<1> HIDE DEF l0, r0, l1, r1, sp
<1>4. CASE Len(n.keys) <= MaxLen /\ Step(c, whole)
  BY <1>2, <1>4 DEF Step, Idle, Tracked, Carries
<1>5. CASE ~(Len(n.keys) <= MaxLen) /\ n.type = "leaf" /\ Step(c, leaf)
  <2>1. Step(c, [pc |-> "split", at |-> at, node |-> l0, right |-> r0, sep |-> sp, path |-> path, first |-> first])
    BY <1>5 DEF l0, r0, sp
  <2>2. /\ cl'[c].key = cl[c].key /\ cl'[c].kind = cl[c].kind /\ cl'[c].val = cl[c].val
        /\ cl'[c].seen = cl[c].seen /\ cl'[c].root = cl[c].root /\ cl'[c].at = at /\ cl'[c].path = path
        /\ cl'[c].pc = "split" /\ cl'[c].node = l0 /\ cl'[c].right = r0 /\ cl'[c].sep = sp
        /\ cl'[c].first = first
    BY <2>1 DEF Step, Idle, Tracked
  <2> QED
    BY <2>2, <1>2, <1>3, <1>5 DEF Carries, l0
<1>6. CASE ~(Len(n.keys) <= MaxLen) /\ n.type # "leaf" /\ Step(c, inner)
  <2>1. Step(c, [pc |-> "split", at |-> at, node |-> l1, right |-> r1, sep |-> sp, path |-> path, first |-> first])
    BY <1>6 DEF l1, r1, sp
  <2>2. /\ cl'[c].key = cl[c].key /\ cl'[c].kind = cl[c].kind /\ cl'[c].val = cl[c].val
        /\ cl'[c].seen = cl[c].seen /\ cl'[c].root = cl[c].root /\ cl'[c].at = at /\ cl'[c].path = path
        /\ cl'[c].pc = "split" /\ cl'[c].node = l1 /\ cl'[c].right = r1 /\ cl'[c].sep = sp
        /\ cl'[c].first = first
    BY <2>1 DEF Step, Idle, Tracked
  <2> QED
    BY <2>2, <1>2, <1>3, <1>6 DEF Carries, l1
<1> QED
  BY <1>1, <1>4, <1>5, <1>6

\* A step of a call under way, in what concerns bounds, traces and history.
LEMMA CarriesTracked ==
    ASSUME Tracked, NEW c \in Clients, Busy(cl[c]), Carries(c), left' = left,
           DOMAIN read' = Clients, DOMAIN wrote' = Clients,
           ref' = ref \/ (cl[c].kind = "insert" /\ ref' = [ref EXCEPT ![cl[c].key] = cl[c].val])
    PROVE  Tracked'
<1>1. cl[c].key \in Keys /\ (cl[c].kind = "insert" => cl[c].val \in Nat)
  BY DEF Tracked
<1>2. ref' \in [Keys -> Nat]
  BY <1>1 DEF Tracked
<1>3. ASSUME NEW d \in Clients, Busy(cl'[d])
      PROVE  cl'[d].key \in Keys /\ (cl'[d].kind = "insert" => cl'[d].val \in Nat \ {0})
  <2>1. CASE d = c
    BY <2>1 DEF Tracked, Carries
  <2>2. CASE d # c
    BY <2>2, <1>3 DEF Tracked, Carries, Others
  <2> QED
    BY <2>1, <2>2
<1> QED
  BY <1>2, <1>3 DEF Tracked, Carries, Others

LEMMA BeginTracked ==
    ASSUME Tracked, NEW c \in Clients, NEW kind \in Kinds, NEW k \in Keys, Begin(c, kind, k)
    PROVE  /\ Tracked' /\ Others(c) /\ cl'[c].pc = "header" /\ cl'[c].kind = kind /\ cl'[c].key = k
           /\ cl'[c].seen = ref[k] /\ cl'[c].res = "none"
<1>1. /\ cl'[c].pc = "header" /\ cl'[c].kind = kind /\ cl'[c].key = k /\ cl'[c].seen = ref[k]
      /\ cl'[c].res = "none" /\ cl'[c].val = IF kind = "insert" THEN MaxOps + 1 - left.ops ELSE 0
  BY DEF Begin, Idle, Tracked
<1>2. Others(c) /\ UNCHANGED trace /\ ref' = ref
  BY DEF Begin, Others, Tracked
<1>3. left.ops \in 0..MaxOps /\ (kind = "insert" => left.ops > 0)
  BY DEF Begin, Tracked
<1>4. left' \in [clients : SUBSET Clients, kinds : SUBSET Kinds, keys : SUBSET Keys, ops : 0..MaxOps]
  <2>1. CASE kind = "insert"
    <3>1. left.ops - 1 \in 0..MaxOps
      BY <2>1, <1>3, BoundAssumption
    <3> DEFINE n == left.ops - 1
    <3>2. left' = [left EXCEPT !.ops = n]
      BY <2>1 DEF Begin
    <3> HIDE DEF n
    <3> QED
      BY <3>1, <3>2 DEF Tracked, n
  <2>2. CASE kind # "insert"
    BY <2>2 DEF Begin, Tracked
  <2> QED
    BY <2>1, <2>2
<1>5. kind = "insert" => cl'[c].val \in Nat \ {0}
  BY <1>1, <1>3, BoundAssumption
<1>6. \A d \in Clients : Busy(cl'[d]) => cl'[d].key \in Keys /\ (cl'[d].kind = "insert" => cl'[d].val \in Nat \ {0})
  BY <1>1, <1>2, <1>5 DEF Tracked, Others
<1> QED
  BY <1>1, <1>2, <1>4, <1>6 DEF Tracked, Others, trace

LEMMA FetchTracked ==
    ASSUME Tracked, NEW c \in Clients, Fetch(c)
    PROVE  /\ Tracked' /\ Others(c) /\ cl'[c].pc = "done" /\ cl'[c].kind = "get" /\ cl'[c].res = "ok"
           /\ cl'[c].seen = cl[c].seen
<1>1. /\ cl'[c].pc = "done" /\ cl'[c].kind = "get" /\ cl'[c].res = "ok"
      /\ cl'[c].seen = cl[c].seen
  BY DEF Fetch, Idle, Tracked
<1>2. Others(c) /\ ref' = ref /\ left' = left
  BY DEF Fetch, Others, Tracked
<1>3. DOMAIN read' = Clients /\ DOMAIN wrote' = Clients
  BY DEF Fetch, Reads, Tracked
<1> QED
  BY <1>1, <1>2, <1>3 DEF Tracked, Others, Busy

LEMMA EndTracked ==
    ASSUME Tracked, NEW c \in Clients, End(c)
    PROVE  Tracked' /\ Others(c) /\ cl'[c] = Idle /\ Traced(c, {}, {})
<1>1. cl'[c] = Idle /\ Others(c) /\ ref' = ref /\ left' = left
  BY DEF End, Others, Tracked
<1>2. DOMAIN read' = Clients /\ DOMAIN wrote' = Clients /\ Traced(c, {}, {})
  BY DEF End, Traced, Tracked
<1>3. ~Busy(Idle)
  BY DEF Busy, Idle
<1> QED
  BY <1>1, <1>2, <1>3 DEF Tracked, Others

LEMMA StepCarries ==
    ASSUME Tracked, NEW c \in Clients
    PROVE  /\ \A x, y : Step(c, [pc |-> "down", root |-> x, at |-> y]) => Carries(c)
           /\ \A x, y : Step(c, [at |-> x, path |-> y]) => Carries(c)
           /\ \A x, y : Step(c, [pc |-> "value", node |-> x, at |-> y]) => Carries(c)
           /\ \A x : Step(c, [pc |-> "place", node |-> x]) => Carries(c)
           /\ \A x, y : Step(c, [pc |-> "write", new |-> x, node |-> y]) => Carries(c)
           /\ Step(c, [pc |-> "root"]) => Carries(c)
           /\ \A x : Step(c, [pc |-> "set_root", new |-> x]) => Carries(c)
<1>1. \A fields : Step(c, fields) => Others(c)
  BY StepAlone DEF Tracked
<1>2. \A x, y : Step(c, [pc |-> "down", root |-> x, at |-> y]) => Carries(c)
  BY <1>1 DEF Step, Idle, Tracked, Carries
<1>3. \A x, y : Step(c, [at |-> x, path |-> y]) => Carries(c)
  BY <1>1 DEF Step, Idle, Tracked, Carries
<1>4. \A x, y : Step(c, [pc |-> "value", node |-> x, at |-> y]) => Carries(c)
  BY <1>1 DEF Step, Idle, Tracked, Carries
<1>5. \A x : Step(c, [pc |-> "place", node |-> x]) => Carries(c)
  BY <1>1 DEF Step, Idle, Tracked, Carries
<1>6. \A x, y : Step(c, [pc |-> "write", new |-> x, node |-> y]) => Carries(c)
  BY <1>1 DEF Step, Idle, Tracked, Carries
<1>7. Step(c, [pc |-> "root"]) => Carries(c)
  BY <1>1 DEF Step, Idle, Tracked, Carries
<1>8. \A x : Step(c, [pc |-> "set_root", new |-> x]) => Carries(c)
  BY <1>1 DEF Step, Idle, Tracked, Carries
<1> QED
  BY <1>2, <1>3, <1>4, <1>5, <1>6, <1>7, <1>8

\* Every other step of a cursor.
LEMMA CursorCarries ==
    ASSUME Tracked, NEW c \in Clients,
           \/ ReadHeader(c) \/ Invalid(c) \/ Descend(c) \/ FamilyUnderflow(c) \/ ReadLeaf(c)
           \/ Overwrite(c) \/ Place(c) \/ Split(c) \/ Write(c) \/ NewRoot(c) \/ SetRoot(c)
    PROVE  Tracked' /\ Carries(c)
<1>1. /\ \A i : Reads(c, i) => DOMAIN read' = Clients /\ DOMAIN wrote' = Clients
      /\ \A i, n : Written(c, i, n) => DOMAIN read' = Clients /\ DOMAIN wrote' = Clients
  BY DEF Reads, Written, Tracked
<1> DEFINE Kept == ref' = ref \/ (cl[c].kind = "insert" /\ ref' = [ref EXCEPT ![cl[c].key] = cl[c].val])
<1>2. \A res : Return(c, res) => Carries(c) /\ Kept
  BY ReturnCarries
<1>3. \A at, n, path, first : Settle(c, at, n, path, first) => Carries(c)
  BY SettleCarries
<1>4. CASE ReadHeader(c)
  BY <1>1, <1>4, StepCarries, CarriesTracked DEF ReadHeader, Busy
<1>5. CASE Invalid(c)
  BY <1>1, <1>2, <1>5, CarriesTracked DEF Invalid, Busy
<1>6. CASE Descend(c)
  BY <1>1, <1>6, StepCarries, CarriesTracked DEF Descend, Busy
<1>7. CASE FamilyUnderflow(c)
  BY <1>1, <1>2, <1>7, CarriesTracked DEF FamilyUnderflow, Busy
<1>8. CASE ReadLeaf(c)
  <2>1. Carries(c) /\ Kept
    BY <1>2, <1>8, StepCarries DEF ReadLeaf
  <2> QED
    BY <1>1, <1>8, <2>1, CarriesTracked DEF ReadLeaf, Busy
<1>9. CASE Overwrite(c)
  BY <1>1, <1>2, <1>9, CarriesTracked DEF Overwrite, Busy
<1>10. CASE Place(c)
  <2>1. Carries(c)
    BY <1>3, <1>10 DEF Place
  <2> QED
    BY <1>1, <1>10, <2>1, CarriesTracked DEF Place, Busy
<1>11. CASE Split(c)
  <2>1. \E x, y : Step(c, [pc |-> "write", new |-> x, node |-> y])
    BY <1>11 DEF Split
  <2>2. Carries(c)
    BY <2>1, StepCarries
  <2> QED
    BY <1>1, <1>11, <2>2, CarriesTracked DEF Split, Busy
<1>12. CASE Write(c)
  <2>1. Return(c, "panic") \/ Return(c, "ok") \/ Raise(c) \/ (Step(c, [pc |-> "root"]) /\ ref' = ref)
    BY <1>12 DEF Write
  <2>2. Raise(c) => Carries(c) /\ Kept
    BY <1>2, <1>3 DEF Raise
  <2>3. Carries(c) /\ Kept
    BY <2>1, <2>2, <1>2, StepCarries
  <2> QED
    BY <1>1, <1>12, <2>3, CarriesTracked DEF Write, Busy
<1>13. CASE NewRoot(c)
  BY <1>1, <1>13, StepCarries, CarriesTracked DEF NewRoot, Busy
<1>14. CASE SetRoot(c)
  BY <1>1, <1>2, <1>14, CarriesTracked DEF SetRoot, Busy
<1> QED
  BY <1>4, <1>5, <1>6, <1>7, <1>8, <1>9, <1>10, <1>11, <1>12, <1>13, <1>14

LEMMA TrackedStep == Tracked /\ [Next]_vars => Tracked'
<1>1. SUFFICES ASSUME Tracked, [Next]_vars PROVE Tracked'
  OBVIOUS
<1>2. CASE UNCHANGED vars \/ Done
  BY <1>1, <1>2 DEF Tracked, vars, trace, Done
<1>3. CASE Initialize
  BY <1>1, <1>3 DEF Tracked, Initialize, trace
<1>4. ASSUME NEW c \in Clients, Cursor(c) PROVE Tracked'
  BY <1>1, <1>4, BeginTracked, FetchTracked, EndTracked, CursorCarries DEF Cursor
<1> QED
  BY <1>1, <1>2, <1>3, <1>4 DEF Next

------------------------------------------------------------------------------
(* The way down.                                                           *)

LEMMA PathToIs ==
    ASSUME NEW t, t.height \in Nat, NEW k, NEW l \in 0..t.height
    PROVE  /\ PathTo(t, k, l) \in Seq({Stop(t, i, k) : i \in 0..t.height})
           /\ Len(PathTo(t, k, l)) = t.height - l
           /\ \A j \in 1..t.height - l : PathTo(t, k, l)[j] = Stop(t, t.height + 1 - j, k)
<1> DEFINE S == {Stop(t, i, k) : i \in 0..t.height}
           n == t.height - l
           f(j) == Stop(t, t.height + 1 - j, k)
<1>1. n \in Nat /\ \A j \in 1..n : f(j) \in S
  <2>1. n \in Nat /\ \A j \in 1..n : t.height + 1 - j \in 0..t.height
    OBVIOUS
  <2> QED
    BY <2>1
<1>2. PathTo(t, k, l) = [j \in 1..n |-> f(j)]
  BY DEF PathTo
<1> HIDE DEF f, S, n
<1>3. /\ [j \in 1..n |-> f(j)] \in Seq(S) /\ Len([j \in 1..n |-> f(j)]) = n
      /\ \A j \in 1..n : [j_1 \in 1..n |-> f(j_1)][j] = f(j)
  BY ONLY <1>1, IsASeq, LenProperties
<1>4. PathTo(t, k, l) \in Seq(S) /\ Len(PathTo(t, k, l)) = n /\ \A j \in 1..n : PathTo(t, k, l)[j] = f(j)
  BY ONLY <1>2, <1>3
<1> QED
  BY <1>4 DEF f, S, n

LEMMA PathSteps ==
    ASSUME NEW t, t.height \in Nat, NEW k, NEW l \in 0..t.height
    PROVE  /\ l = t.height <=> PathTo(t, k, l) = <<>>
           /\ l # 0 => Append(PathTo(t, k, l), Stop(t, l, k)) = PathTo(t, k, l - 1)
           /\ l # t.height => /\ PathTo(t, k, l)[Len(PathTo(t, k, l))] = Stop(t, l + 1, k)
                              /\ UpTo(PathTo(t, k, l), Len(PathTo(t, k, l)) - 1) = PathTo(t, k, l + 1)
<1> DEFINE S == {Stop(t, i, k) : i \in 0..t.height}
           p == PathTo(t, k, l)
<1>1. /\ p \in Seq(S) /\ Len(p) = t.height - l
      /\ \A j \in 1..t.height - l : p[j] = Stop(t, t.height + 1 - j, k)
  BY PathToIs
<1>2. l = t.height <=> p = <<>>
  <2>1. p = <<>> <=> Len(p) = 0
    BY <1>1, EmptySeq
  <2> QED
    BY <2>1, <1>1
<1>3. ASSUME l # 0 PROVE Append(p, Stop(t, l, k)) = PathTo(t, k, l - 1)
  <2> DEFINE q == PathTo(t, k, l - 1)
             e == Stop(t, l, k)
             a == Append(p, e)
  <2>1. /\ q \in Seq(S) /\ Len(q) = t.height - (l - 1)
        /\ \A j \in 1..t.height - (l - 1) : q[j] = Stop(t, t.height + 1 - j, k)
    <3>1. l - 1 \in 0..t.height
      BY <1>3
    <3> QED
      BY <3>1, PathToIs
  <2>2. e \in S
    OBVIOUS
  <2> HIDE DEF p, q, e, S
  <2>3. /\ a \in Seq(S) /\ Len(a) = Len(p) + 1
        /\ \A j \in 1..Len(p) : a[j] = p[j]
        /\ a[Len(p) + 1] = e
    BY <1>1, <2>2, AppendProperties
  <2> HIDE DEF a
  <2>4. Len(a) = Len(q)
    BY <2>1, <2>3, <1>1
  <2>5. ASSUME NEW j \in 1..Len(a) PROVE a[j] = q[j]
    <3>1. j \in 1..t.height - (l - 1)
      BY <2>1, <2>4
    <3>2. q[j] = Stop(t, t.height + 1 - j, k)
      BY <3>1, <2>1
    <3>3. CASE j \in 1..Len(p)
      BY <3>2, <3>3, <2>3, <1>1
    <3>4. CASE j = Len(p) + 1
      <4>1. t.height + 1 - j = l
        BY <3>4, <1>1
      <4> QED
        BY <3>2, <3>4, <4>1, <2>3 DEF e
    <3>5. j \in 1..Len(p) \/ j = Len(p) + 1
      <4>1. Len(p) = t.height - l
        BY <1>1
      <4> QED
        BY ONLY <4>1, <3>1, t.height \in Nat, l \in 0..t.height
    <3> QED
      BY <3>3, <3>4, <3>5
  <2>6. a = q
    BY ONLY <2>1, <2>3, <2>4, <2>5, SeqEqual
  <2> QED
    BY <2>6 DEF a, e, p, q
<1>4. ASSUME l # t.height
      PROVE  /\ p[Len(p)] = Stop(t, l + 1, k)
             /\ UpTo(p, Len(p) - 1) = PathTo(t, k, l + 1)
  <2> DEFINE q == PathTo(t, k, l + 1)
             b == UpTo(p, Len(p) - 1)
  <2>1. /\ q \in Seq(S) /\ Len(q) = t.height - (l + 1)
        /\ \A j \in 1..t.height - (l + 1) : q[j] = Stop(t, t.height + 1 - j, k)
    <3>1. l + 1 \in 0..t.height
      BY <1>4
    <3> QED
      BY <3>1, PathToIs
  <2>2. Len(p) \in 1..t.height - l /\ t.height + 1 - Len(p) = l + 1 /\ Len(p) - 1 \in 0..Len(p)
    <3>1. Len(p) = t.height - l
      BY <1>1
    <3> QED
      BY ONLY <3>1, <1>4, t.height \in Nat, l \in 0..t.height
  <2>3. p[Len(p)] = Stop(t, l + 1, k)
    BY <2>2, <1>1
  <2> HIDE DEF p, q, S
  <2>4. b \in Seq(S) /\ Len(b) = Len(p) - 1 /\ \A j \in 1..Len(p) - 1 : b[j] = p[j]
    BY <1>1, <2>2, Cut
  <2> HIDE DEF b
  <2>5. Len(b) = Len(q)
    BY <2>1, <2>4, <1>1
  <2>6. ASSUME NEW j \in 1..Len(b) PROVE b[j] = q[j]
    <3>1. j \in 1..t.height - (l + 1) /\ j \in 1..t.height - l /\ j \in 1..Len(p) - 1
      BY <2>1, <2>4, <2>5
    <3> QED
      BY <3>1, <2>1, <2>4, <1>1
  <2>7. b = q
    BY ONLY <2>1, <2>4, <2>5, <2>6, SeqEqual
  <2> QED
    BY <2>3, <2>7 DEF b, p, q
<1> QED
  BY <1>2, <1>3, <1>4

------------------------------------------------------------------------------
(* The steps that write nothing.                                           *)

LEMMA DoneSited ==
    ASSUME NEW t, NEW P, NEW rf, NEW o, NEW R, NEW W, o.pc = "done",
           o.kind = "get" /\ o.seen # 0 => o.res = "ok"
    PROVE  Sited(t, P, rf, o, R, W) /\ ~Busy(o)
BY DEF Sited, Busy

LEMMA ChartReads ==
    ASSUME Framed, Tracked, NEW t, Charted(t), ~Conflict', NEW c \in Clients, Others(c),
           NEW R, Traced(c, R, wrote[c]), UNCHANGED <<pages, last_index, ref>>,
           Busy(cl'[c]) \/ wrote[c] = {},
           Sited(t, pages, ref, cl'[c], R, wrote[c])
    PROVE  Charted(t)'
<1>1. last_index \in Int
  BY MaxPagesNat DEF Framed
<1>2. /\ Mapped(t, ref) /\ t.live \subseteq 1..last_index - 1 /\ wrote[c] \subseteq 0..last_index - 1
  BY DEF Charted
<1>3. Moved(t, pages, ref, t, pages', ref', {})
  BY WritingMoves
<1> DEFINE W == wrote[c]
<1>4. ~Busy(cl'[c]) => \A i \in Indexes : i \in W => pages'[i] = t.page[i]
  OBVIOUS
<1>5. Mapped(t, ref') /\ Sited(t, pages', ref', cl'[c], R, W)
  BY <1>2
<1>6. t.live \subseteq 1..last_index' - 1 /\ W \subseteq 0..last_index' - 1
  BY <1>2
<1>7. Busy(cl[c]) => wrote[c] \subseteq W
  OBVIOUS
<1>8. last_index' \in Int /\ last_index' >= last_index
  BY <1>1
<1>9. Traced(c, R, W)
  OBVIOUS
<1>10. 1..last_index' - 1 \subseteq (1..last_index - 1) \cup W
  OBVIOUS
<1>11. ~Busy(cl'[c]) => W \ {HEADER_INDEX} \subseteq t.live
  OBVIOUS
<1> HIDE DEF W
<1> QED
  BY <1>1, <1>3, <1>4, <1>5, <1>6, <1>7, <1>8, <1>9, <1>10, <1>11, ChartMoves

LEMMA BeginCharted ==
    ASSUME Framed, Tracked, NEW t, Charted(t), ~Conflict', NEW c \in Clients,
           NEW kind \in Kinds, NEW k \in Keys, Begin(c, kind, k)
    PROVE  Charted(t)'
<1> DEFINE o == cl'[c]
<1>1. /\ Others(c) /\ o.pc = "header" /\ o.kind = kind /\ o.key = k /\ o.seen = ref[k]
  BY BeginTracked
<1>2. cl[c].pc = "idle" /\ UNCHANGED <<pages, last_index, ref>> /\ UNCHANGED trace
  BY DEF Begin
<1>3. wrote[c] = {}
  BY <1>2 DEF Charted, Sited
<1>4. Traced(c, read[c], wrote[c])
  BY <1>2, UntouchedTraced
<1>5. Sited(t, pages, ref, o, read[c], wrote[c])
  BY <1>1, <1>3 DEF Sited
<1> QED
  BY <1>1, <1>2, <1>3, <1>4, <1>5, ChartReads

LEMMA EndCharted ==
    ASSUME Framed, Tracked, NEW t, Charted(t), ~Conflict', NEW c \in Clients, End(c)
    PROVE  Charted(t)'
<1>1. Others(c) /\ cl'[c] = Idle /\ Traced(c, {}, {})
  BY EndTracked
<1>2. ~Busy(cl[c]) /\ UNCHANGED <<pages, last_index, ref>>
  BY DEF End, Busy
<1>3. last_index \in Int
  BY MaxPagesNat DEF Framed
<1>4. Mapped(t, ref') /\ t.live \subseteq 1..last_index' - 1
  BY <1>2 DEF Charted
<1>5. Moved(t, pages, ref, t, pages', ref', {})
  BY <1>2, WritingMoves
<1>6. Sited(t, pages', ref', cl'[c], {}, {})
  BY <1>1 DEF Sited, Idle, Busy
<1> DEFINE R == {}
<1>7. /\ Busy(cl[c]) => wrote[c] \subseteq R
      /\ ~Busy(cl'[c]) => \A i \in Indexes : i \in R => pages'[i] = t.page[i]
      /\ R \subseteq 0..last_index' - 1 /\ last_index' \in Int /\ last_index' >= last_index
      /\ R \subseteq R /\ Traced(c, R, R) /\ Sited(t, pages', ref', cl'[c], R, R)
      /\ Moved(t, pages, ref, t, pages', ref', R)
      /\ 1..last_index' - 1 \subseteq (1..last_index - 1) \cup R
      /\ ~Busy(cl'[c]) => R \ {HEADER_INDEX} \subseteq t.live
  BY <1>1, <1>2, <1>3, <1>5, <1>6
<1> HIDE DEF R
<1> QED
  BY <1>1, <1>3, <1>4, <1>7, ChartMoves

LEMMA FetchCharted ==
    ASSUME Framed, Tracked, NEW t, Charted(t), ~Conflict', NEW c \in Clients, Fetch(c)
    PROVE  Charted(t)'
<1>1. Others(c) /\ cl'[c].pc = "done" /\ cl'[c].kind = "get" /\ cl'[c].res = "ok"
  BY FetchTracked
<1>2. cl[c].pc = "value" /\ UNCHANGED <<pages, last_index, ref>> /\ Reads(c, cl[c].at)
  BY DEF Fetch
<1>3. wrote[c] = {}
  BY <1>2 DEF Charted, Sited
<1>4. Traced(c, read[c] \cup {cl[c].at}, wrote[c])
  BY <1>2, ReadsTraced
<1> DEFINE R == read[c] \cup {cl[c].at}
<1>5. Sited(t, pages, ref, cl'[c], R, wrote[c]) /\ Traced(c, R, wrote[c])
  BY <1>1, <1>4, DoneSited
<1> HIDE DEF R
<1> QED
  BY <1>1, <1>2, <1>3, <1>5, ChartReads

LEMMA ReadHeaderCharted ==
    ASSUME Framed, Tracked, NEW t, Charted(t), ~Conflict', NEW c \in Clients, cl[c].path = <<>>, ReadHeader(c)
    PROVE  Charted(t)'
<1> DEFINE o == cl'[c]
           k == cl[c].key
           R == read[c] \cup {HEADER_INDEX}
           r == DecodeRoot(pages[HEADER_INDEX])
<1>1. /\ cl[c].pc = "header" /\ UNCHANGED <<pages, last_index, ref>> /\ Reads(c, HEADER_INDEX)
      /\ Step(c, [pc |-> "down", root |-> r, at |-> r])
  BY DEF ReadHeader
<1>2. /\ wrote[c] = {} /\ Mapped(t, ref)
      /\ cl[c].kind = "get" /\ cl[c].seen # 0 => ref[k] # 0
  BY <1>1 DEF Charted, Sited, Busy
<1>3. Traced(c, R, wrote[c])
  BY <1>1, ReadsTraced
<1>4. Carries(c) /\ k \in Keys
  BY <1>1, StepCarries DEF Tracked, Busy
<1>5. r = DecodeRoot(t.page[HEADER_INDEX])
  <2>1. HEADER_INDEX \in Indexes /\ HEADER_INDEX \in R /\ HEADER_INDEX \notin wrote[c]
    BY <1>2, MaxPagesNat DEF HEADER_INDEX, Indexes
  <2>2. pages[HEADER_INDEX] = t.page[HEADER_INDEX]
    BY <2>1, <1>3, ReadsTree
  <2> QED
    BY <2>2
<1> HIDE DEF r
<1>6. o.pc = "down" /\ o.root = r /\ o.at = r /\ o.path = <<>> /\ o.key = k /\ o.kind = cl[c].kind /\ o.seen = cl[c].seen
  BY <1>1 DEF Step, Idle, Tracked
<1>7. t.height \in Nat /\ t.route[t.height][k] = r
  BY <1>2, <1>4, <1>5 DEF Mapped, Rooted
<1>8. OnPath(t, o, R, t.height)
  <2>1. PathTo(t, k, t.height) = <<>> /\ t.height \in 0..t.height
    BY <1>7, PathSteps
  <2>2. \A i \in t.height + 1..t.height : t.route[i][k] \in R
    BY <1>7
  <2> QED
    BY <2>1, <2>2, <1>5, <1>6, <1>7 DEF OnPath
<1>9. Sited(t, pages, ref, o, R, wrote[c])
  BY <1>2, <1>6, <1>8 DEF Sited, Busy
<1>10. Busy(o) /\ Others(c)
  BY <1>4, <1>6 DEF Busy, Carries
<1> HIDE DEF R
<1> QED
  BY <1>1, <1>3, <1>9, <1>10, ChartReads

DownAt(t, c, l) ==
    /\ OnPath(t, cl[c], read[c], l) /\ pages[cl[c].at] = Node(t, l, cl[c].key)
    /\ cl[c].at = t.route[l][cl[c].key] /\ cl[c].key \in Keys /\ wrote[c] = {}
    /\ HEADER_INDEX \in read[c] /\ Mapped(t, ref) /\ t.height \in Nat
    /\ cl[c].kind = "get" /\ cl[c].seen # 0 => ref[cl[c].key] # 0
    /\ Traced(c, read[c] \cup {cl[c].at}, wrote[c])
    /\ l = 0 => Node(t, l, cl[c].key).type = "leaf"
    /\ l # 0 => Node(t, l, cl[c].key).type = "internal"

\* On the way down a cursor reads a node of the tree.
LEMMA DownReads ==
    ASSUME Framed, Tracked, NEW t, Charted(t), ~Conflict', NEW c \in Clients, cl[c].pc = "down",
           Reads(c, cl[c].at)
    PROVE  \E l \in 0..t.height : DownAt(t, c, l)
<1> DEFINE o == cl[c]
           R == read[c] \cup {o.at}
<1>1. /\ Mapped(t, ref) /\ t.height \in Nat /\ o.key \in Keys
      /\ wrote[c] = {} /\ HEADER_INDEX \in read[c] /\ (o.kind = "get" /\ o.seen # 0 => ref[o.key] # 0)
      /\ \E l : OnPath(t, o, read[c], l)
  BY DEF Charted, Sited, Tracked, Busy, Mapped, Rooted
<1>2. PICK l : OnPath(t, o, read[c], l)
  BY <1>1
<1>3. l \in 0..t.height /\ o.at = t.route[l][o.key]
  BY <1>2 DEF OnPath
<1>4. o.at \in Indexes
  BY <1>1, <1>3, RouteTyped DEF Mapped
<1>5. Traced(c, R, wrote[c])
  BY ReadsTraced
<1>6. pages[o.at] = t.page[o.at]
  BY <1>1, <1>4, <1>5, ReadsTree
<1>7. /\ l = 0 => Node(t, l, o.key).type = "leaf"
      /\ l # 0 => Node(t, l, o.key).type = "internal"
  BY <1>1, <1>3, NodeType
<1> QED
  BY <1>1, <1>2, <1>3, <1>5, <1>6, <1>7 DEF Node, DownAt

LEMMA InvalidNever ==
    ASSUME Framed, Tracked, NEW t, Charted(t), ~Conflict', NEW c \in Clients, Invalid(c)
    PROVE  FALSE
<1>1. cl[c].pc = "down" /\ Reads(c, cl[c].at) /\ pages[cl[c].at].type \notin {"leaf", "internal"}
  BY DEF Invalid
<1>2. PICK l \in 0..t.height : DownAt(t, c, l)
  BY <1>1, DownReads
<1> QED
  BY <1>1, <1>2 DEF DownAt

\* A read that ends its call, not as a get of a present key.
LEMMA ReadReturns ==
    ASSUME Framed, Tracked, NEW t, Charted(t), ~Conflict', NEW c \in Clients, NEW res,
           Return(c, res), Reads(c, cl[c].at), UNCHANGED <<pages, last_index>>,
           wrote[c] = {}, res # "ok", ~(cl[c].kind = "get" /\ cl[c].seen # 0)
    PROVE  Charted(t)'
<1>1. Carries(c) /\ cl'[c].pc = "done" /\ ref' = ref
  BY ReturnCarries
<1> DEFINE R == read[c] \cup {cl[c].at}
<1>2. Traced(c, R, wrote[c])
  BY ReadsTraced
<1>3. Sited(t, pages, ref, cl'[c], R, wrote[c]) /\ Others(c)
  BY <1>1, DoneSited DEF Carries
<1> HIDE DEF R
<1> QED
  BY <1>1, <1>2, <1>3, ChartReads

LEMMA FamilyUnderflowCharted ==
    ASSUME Framed, Tracked, NEW t, Charted(t), ~Conflict', NEW c \in Clients, FamilyUnderflow(c)
    PROVE  Charted(t)'
<1>1. /\ cl[c].pc = "down" /\ cl[c].kind = "delete" /\ Return(c, "panic") /\ Reads(c, cl[c].at)
      /\ UNCHANGED <<pages, last_index>>
  BY DEF FamilyUnderflow
<1>2. wrote[c] = {}
  BY <1>1 DEF Charted, Sited
<1> QED
  BY <1>1, <1>2, ReadReturns

LEMMA DescendCharted ==
    ASSUME Framed, Tracked, NEW t, Charted(t), ~Conflict', NEW c \in Clients, Descend(c)
    PROVE  Charted(t)'
<1> DEFINE o == cl[c]
           u == cl'[c]
           k == o.key
           n == pages[o.at]
           R == read[c] \cup {o.at}
           x == n.children[ChildPos(n, k)]
           q == Append(o.path, [page |-> o.at, node |-> n, slot |-> Below(n, k) + 1])
<1>1. /\ o.pc = "down" /\ n.type = "internal" /\ Reads(c, o.at)
      /\ UNCHANGED <<pages, last_index, ref>>
      /\ Step(c, [at |-> x, path |-> q])
  BY DEF Descend
<1>0. PICK l \in 0..t.height : DownAt(t, c, l)
  BY <1>1, DownReads
<1>2. /\ OnPath(t, o, read[c], l) /\ n = Node(t, l, k)
      /\ o.at = t.route[l][k] /\ k \in Keys /\ wrote[c] = {}
      /\ HEADER_INDEX \in read[c] /\ Mapped(t, ref) /\ t.height \in Nat
      /\ o.kind = "get" /\ o.seen # 0 => ref[k] # 0
      /\ Traced(c, R, wrote[c])
      /\ l = 0 => Node(t, l, k).type = "leaf"
  BY <1>0 DEF DownAt
<1>3. l \in 1..t.height
  <2>1. l # 0
    BY <1>1, <1>2
  <2> QED
    BY <2>1, <1>2
<1>4. x = t.route[l - 1][k]
  <2>1. NodeLinks(t, ref, l, k)
    BY <1>2, <1>3 DEF Mapped, NodesLink
  <2> QED
    BY <2>1, <1>2 DEF NodeLinks
<1>5. q = PathTo(t, k, l - 1)
  <2>1. o.path = PathTo(t, k, l) /\ [page |-> o.at, node |-> n, slot |-> Below(n, k) + 1] = Stop(t, l, k)
    BY <1>2 DEF OnPath, Stop
  <2> QED
    BY <2>1, <1>2, <1>3, PathSteps
<1> HIDE DEF x, q, n
<1>6. /\ u.pc = "down" /\ u.root = o.root /\ u.at = x /\ u.path = q /\ u.key = k
      /\ u.kind = o.kind /\ u.seen = o.seen
  BY <1>1 DEF Step, Idle, Tracked
<1>7. Carries(c)
  BY <1>1, StepCarries
<1>8. OnPath(t, u, R, l - 1)
  <2>1. l - 1 \in 0..t.height /\ \A i \in (l - 1) + 1..t.height : i = l \/ i \in l + 1..t.height
    BY <1>2, <1>3
  <2>2. \A i \in (l - 1) + 1..t.height : t.route[i][k] \in R
    BY <2>1, <1>2 DEF OnPath
  <2>3. o.root = DecodeRoot(t.page[HEADER_INDEX])
    BY <1>2 DEF OnPath
  <2> QED
    BY <2>1, <2>2, <2>3, <1>4, <1>5, <1>6 DEF OnPath
<1>9. Sited(t, pages, ref, u, R, wrote[c])
  BY <1>2, <1>6, <1>8 DEF Sited, Busy
<1>10. Busy(u) /\ Others(c)
  BY <1>6, <1>7 DEF Busy, Carries
<1> HIDE DEF R
<1> QED
  BY <1>1, <1>2, <1>9, <1>10, ChartReads

LEMMA ReadLeafCharted ==
    ASSUME Framed, Tracked, NEW t, Charted(t), ~Conflict', NEW c \in Clients, ReadLeaf(c)
    PROVE  Charted(t)'
<1> DEFINE o == cl[c]
           u == cl'[c]
           k == o.key
           n == pages[o.at]
           R == read[c] \cup {o.at}
           x == n.keys[Below(n, k) + 1].page
<1>1. /\ o.pc = "down" /\ n.type = "leaf" /\ Reads(c, o.at) /\ UNCHANGED <<pages, last_index>>
      /\ \/ Holds(n, k) /\ o.kind # "delete" /\ Step(c, [pc |-> "value", node |-> n, at |-> x]) /\ ref' = ref
         \/ ~Holds(n, k) /\ o.kind = "insert" /\ Step(c, [pc |-> "place", node |-> n]) /\ ref' = ref
         \/ ~Holds(n, k) /\ o.kind # "insert" /\ Return(c, "not_found")
         \/ Holds(n, k) /\ o.kind = "delete" /\ Return(c, "panic")
  BY DEF ReadLeaf
<1>0. PICK l \in 0..t.height : DownAt(t, c, l)
  BY <1>1, DownReads
<1>2. /\ OnPath(t, o, read[c], l) /\ n = Node(t, l, k)
      /\ o.at = t.route[l][k] /\ k \in Keys /\ wrote[c] = {}
      /\ HEADER_INDEX \in read[c] /\ Mapped(t, ref) /\ t.height \in Nat
      /\ o.kind = "get" /\ o.seen # 0 => ref[k] # 0
      /\ Traced(c, R, wrote[c])
      /\ l # 0 => Node(t, l, k).type = "internal"
  BY <1>0 DEF DownAt
<1>3. l = 0
  BY <1>1, <1>2
<1>4. Holds(n, k) <=> ref[k] # 0
  <2>1. LeafHolds(t, ref, k)
    BY <1>2 DEF Mapped, LeavesHold
  <2> QED
    BY <2>1, <1>2, <1>3 DEF LeafHolds
<1>5. x = ValuePage(t, k)
  BY <1>2, <1>3 DEF ValuePage
<1> HIDE DEF n, x
<1>6. CASE Holds(n, k) /\ o.kind # "delete" /\ Step(c, [pc |-> "value", node |-> n, at |-> x]) /\ ref' = ref
  <2>1. u.pc = "value" /\ u.at = x /\ u.key = k /\ u.kind = o.kind /\ u.seen = o.seen
    BY <1>6 DEF Step, Idle, Tracked
  <2>2. Others(c) /\ Busy(u)
    BY <1>6, <2>1, StepCarries DEF Carries, Busy
  <2>3. AtValue(t, u, R)
    BY <2>1, <1>2, <1>3, <1>5, <1>6 DEF AtValue
  <2>4. Sited(t, pages, ref, u, R, wrote[c])
    BY <2>1, <2>3, <1>2 DEF Sited, Busy
  <2> HIDE DEF R
  <2> QED
    BY <2>2, <2>4, <1>1, <1>2, <1>6, ChartReads
<1>7. CASE ~Holds(n, k) /\ o.kind = "insert" /\ Step(c, [pc |-> "place", node |-> n]) /\ ref' = ref
  <2>1. /\ u.pc = "place" /\ u.at = o.at /\ u.key = k /\ u.kind = o.kind /\ u.seen = o.seen
        /\ u.node = n /\ u.path = o.path /\ u.root = o.root
    BY <1>7 DEF Step, Idle, Tracked
  <2>2. Others(c) /\ Busy(u)
    BY <1>7, <2>1, StepCarries DEF Carries, Busy
  <2>3. OnPath(t, u, R, 0)
    BY <2>1, <1>2, <1>3 DEF OnPath
  <2>4. AtPlace(t, u, R)
    BY <2>1, <2>3, <1>2, <1>3, <1>7 DEF AtPlace
  <2>5. Sited(t, pages, ref, u, R, wrote[c])
    BY <2>1, <2>4, <1>2, <1>7 DEF Sited, Busy
  <2> HIDE DEF R
  <2> QED
    BY <2>2, <2>5, <1>1, <1>2, <1>7, ChartReads
<1>8. CASE ~Holds(n, k) /\ o.kind # "insert" /\ Return(c, "not_found")
  BY <1>1, <1>2, <1>4, <1>8, ReadReturns
<1>9. CASE Holds(n, k) /\ o.kind = "delete" /\ Return(c, "panic")
  BY <1>1, <1>2, <1>9, ReadReturns
<1> QED
  BY <1>1, <1>6, <1>7, <1>8, <1>9

------------------------------------------------------------------------------
(* The steps that write.                                                   *)

LEMMA OverwriteCharted ==
    ASSUME Framed, Tracked, NEW t, Charted(t), ~Conflict', NEW c \in Clients, Overwrite(c)
    PROVE  \E t2 : Charted(t2)'
<1> DEFINE o == cl[c]
           k == o.key
           x == ValuePage(t, k)
           W == wrote[c] \cup {x}
<1>1. /\ o.pc = "value" /\ o.kind = "insert" /\ Written(c, o.at, Value(o.val)) /\ Return(c, "ok")
      /\ last_index' = last_index
  BY DEF Overwrite
<1>2. /\ Mapped(t, ref) /\ wrote[c] = {} /\ AtValue(t, o, read[c]) /\ k \in Keys /\ o.val \in Nat \ {0}
      /\ t.live \subseteq 1..last_index - 1 /\ ref \in [Keys -> Nat]
  BY <1>1 DEF Charted, Sited, Tracked, Busy
<1>3. Holds(Node(t, 0, k), k) /\ o.at = x
  BY <1>2 DEF AtValue
<1>4. x \in t.live /\ x \in Indexes /\ x \in 1..last_index - 1
  <2>1. x \in t.live
    BY <1>2, <1>3, ValueFound
  <2> QED
    BY <2>1, <1>2 DEF Mapped, Rooted
<1>5. /\ Traced(c, read[c], W) /\ pages'[x] = Value(o.val)
      /\ \A j \in Indexes : j # x => pages'[j] = pages[j]
  <2> HIDE DEF x
  <2>1. Written(c, x, Value(o.val)) /\ x \in Indexes
    BY <1>1, <1>3, <1>4
  <2> QED
    BY <2>1, WrittenTraced
<1>6. Carries(c) /\ cl'[c].pc = "done" /\ ref' = [ref EXCEPT ![k] = o.val] /\ cl'[c].kind = "insert"
  BY <1>1, ReturnCarries DEF Carries
<1>7. PICK u : u = Revalued(t, x, o.val)
  OBVIOUS
<1> HIDE DEF x
<1>8. Mapped(u, ref')
  BY <1>2, <1>3, <1>6, <1>7, Revaluing DEF x
<1>9. Moved(t, pages, ref, u, pages', ref', {x})
  <2>1. \A i \in Indexes \ {x} : pages'[i] = pages[i]
    BY <1>5
  <2> QED
    BY <2>1, <1>2, <1>3, <1>6, <1>7, RevalueMoves DEF x
<1>10. u.live = t.live /\ u.page[x] = Value(o.val)
  BY <1>4, <1>7 DEF Revalued
<1>11. Sited(u, pages', ref', cl'[c], read[c], W) /\ ~Busy(cl'[c]) /\ Others(c)
  BY <1>6, DoneSited DEF Carries
<1>12. last_index \in Int
  BY MaxPagesNat DEF Framed
<1>13. /\ {x} \subseteq W /\ last_index' \in Int /\ last_index' >= last_index
       /\ u.live \subseteq 1..last_index' - 1 /\ W \subseteq 0..last_index' - 1
       /\ Busy(cl[c]) => wrote[c] \subseteq W
       /\ ~Busy(cl'[c]) => \A i \in Indexes : i \in W => pages'[i] = u.page[i]
  BY <1>1, <1>2, <1>4, <1>5, <1>10, <1>12
<1>14. 1..last_index' - 1 \subseteq (1..last_index - 1) \cup W /\ W \ {HEADER_INDEX} \subseteq u.live
  BY <1>1, <1>2, <1>4, <1>10
<1> HIDE DEF W
<1>15. Charted(u)'
  BY <1>5, <1>8, <1>9, <1>11, <1>12, <1>13, <1>14, ChartMoves
<1> QED
  BY <1>15

\* A node that took a child other than by a new minimum is in order, and so are its halves.
LEMMA HalvesOrdered ==
    ASSUME NEW t, NEW rf, Mapped(t, rf), NEW P, NEW key, NEW val, NEW ch, NEW l \in 0..t.height,
           Climbed(t, P, rf, key, val, ch, l), NEW m, m = Raised(t, key, ch, l),
           NEW at \in Nat, NEW new \in Nat
    PROVE  /\ Ordered(KeysOf(m))
           /\ Len(m.keys) > MaxLen => Ordered(KeysOf(RightOf(m, at))) /\ Ordered(KeysOf(LeftOf(m, new)))
<1>1. SoundLeaf(m) \/ SoundInternal(m)
  BY RaisedSound
<1>2. Len(m.keys) \in Nat
  BY RaisedSound
<1>3. Len(m.keys) > MaxLen => Len(m.keys) >= 3
  BY <1>2, LenAssumption
<1>4. ASSUME SoundLeaf(m), Len(m.keys) >= 3
      PROVE  SoundLeaf(RightOf(m, at)) /\ SoundLeaf(LeftOf(m, new))
  BY <1>4, LeafHalves
<1>5. ASSUME SoundInternal(m), Len(m.keys) >= 3
      PROVE  SoundInternal(RightOf(m, at)) /\ SoundInternal(LeftOf(m, new))
  <2>1. SoundInternal(InternalRight(m)) /\ SoundInternal(InternalLeft(m))
    BY <1>5, NodeHalves
  <2>2. m.type # "leaf"
    BY <1>5, NodeFacts
  <2> QED
    BY <2>1, <2>2 DEF RightOf, LeftOf
<1>6. \A n : SoundLeaf(n) \/ SoundInternal(n) => Ordered(KeysOf(n))
  BY DEF SoundLeaf, SoundInternal
<1> QED
  BY <1>1, <1>3, <1>4, <1>5, <1>6

\* A node on its way back to its page.
LEMMA SettledSited ==
    ASSUME Tracked, NEW c \in Clients, NEW o, o = cl[c], NEW t, NEW rf, NEW P, NEW R, NEW W,
           NEW at, NEW m, NEW path, NEW first, Settle(c, at, m, path, first),
           o.kind = "insert", NEW l \in 0..t.height, NEW ch, m = Raised(t, o.key, ch, l),
           Climbed(t, P, rf, o.key, o.val, ch, l), W = Spread(t, o.key, ch, l),
           o.root = DecodeRoot(t.page[HEADER_INDEX]), at = t.route[l][o.key], at \in R,
           path = PathTo(t, o.key, l), \A i \in l + 1..t.height : t.route[i][o.key] \in R,
           HEADER_INDEX \in R, Mapped(t, rf), first => Least(t, rf, o.key, R)
    PROVE  Sited(t, P, rf, cl'[c], R, W) /\ Busy(cl'[c]) /\ Carries(c)
<1> DEFINE u == cl'[c]
<1>1. /\ Carries(c) /\ u.root = o.root /\ u.at = at /\ u.path = path /\ u.first = first
      /\ \/ Len(m.keys) <= MaxLen /\ u.pc = "write" /\ u.node = m /\ u.new = 0
         \/ /\ ~(Len(m.keys) <= MaxLen) /\ u.pc = "split" /\ u.right = RightOf(m, at)
            /\ u.node = (IF m.type = "leaf" THEN LeafLeft(m) ELSE InternalLeft(m))
            /\ u.sep = SepOf(m)
  BY SettleCarries
<1>2. /\ u.key = o.key /\ u.val = o.val /\ u.kind = "insert"
      /\ u.first => Least(t, rf, u.key, R)
  BY <1>1 DEF Carries
<1>3. OnPath(t, u, R, l) /\ u.at \in R
  BY <1>1, <1>2 DEF OnPath
<1>4. CASE Len(m.keys) <= MaxLen /\ u.pc = "write" /\ u.node = m /\ u.new = 0
  <2>1. AtWhole(t, P, rf, u, R, W, l, ch)
    BY <1>2, <1>3, <1>4 DEF AtWhole
  <2> QED
    BY <2>1, <1>1, <1>2, <1>4 DEF Sited, Busy
<1>5. CASE /\ ~(Len(m.keys) <= MaxLen) /\ u.pc = "split" /\ u.right = RightOf(m, at)
           /\ u.node = (IF m.type = "leaf" THEN LeafLeft(m) ELSE InternalLeft(m))
           /\ u.sep = SepOf(m)
  <2>1. Len(m.keys) > MaxLen
    BY <1>5, LenAssumption
  <2>2. AtSplit(t, P, rf, u, R, W, l, ch)
    BY <2>1, <1>1, <1>2, <1>3, <1>5 DEF AtSplit
  <2>3. Ordered(KeysOf(u.right))
    <3>1. at \in Nat
      <4>1. o.key \in Keys
        BY DEF Climbed
      <4> QED
        BY <4>1, RouteTyped, MaxPagesNat DEF Mapped, Indexes
    <3>2. Ordered(KeysOf(RightOf(m, at)))
      BY <3>1, <2>1, HalvesOrdered
    <3> QED
      BY <3>2, <1>5
  <2> QED
    BY <2>2, <2>3, <1>1, <1>2, <1>5 DEF Sited, Busy
<1> QED
  BY <1>1, <1>4, <1>5

\* The next index is free.
LEMMA NextFresh ==
    ASSUME Framed, NEW t, Charted(t), last_index < MaxPages
    PROVE  /\ last_index \in Fresh(t) /\ last_index \in Nat /\ last_index # 0 /\ last_index \in Indexes
           /\ \A c \in Clients : last_index \notin wrote[c]
<1>1. /\ Mapped(t, ref) /\ t.live \subseteq 1..last_index - 1 /\ last_index \in 0..MaxPages
      /\ \A c \in Clients : wrote[c] \subseteq 0..last_index - 1
  BY DEF Framed, Charted
<1>2. PICK k \in Keys : TRUE
  BY KeysAssumption
<1>3. t.route[0][k] \in t.live
  <2>1. 0 \in 0..t.height
    BY <1>1 DEF Mapped, Rooted
  <2> QED
    BY <2>1, <1>1, RouteTyped DEF Mapped
<1> QED
  BY <1>1, <1>3, MaxPagesNat DEF Fresh, Indexes

\* A key that becomes the first of its leaf goes to page 1, and is the least of the tree.
LEMMA PlaceLeast ==
    ASSUME NEW t, NEW rf, Mapped(t, rf), NEW low, NEW edge, Shaped(low, edge), NEW c \in Clients,
           cl[c].pc = "place", NEW R, AtPlace(t, cl[c], R), cl[c].key \in Keys,
           Below(cl[c].node, cl[c].key) = 0
    PROVE  Least(t, rf, cl[c].key, R)
<1> DEFINE o == cl[c]
           k == o.key
           n == Node(t, 0, k)
<1>1. o.at = 1
  BY DEF Shaped, Local
<1>2. o.node = n /\ ~Holds(n, k) /\ t.route[0][k] = 1 /\ 1 \in R
  BY <1>1 DEF AtPlace, OnPath
<1>3. SoundLeaf(n)
  BY DEF Mapped, LeavesHold, LeafHolds
<1>4. k \in Int /\ \A q \in Keys : q \in Int
  BY KeysInt
<1>5. \A i \in 1..Len(n.keys) : ~(KeyOf(n, i) < k) /\ KeyOf(n, i) \in Int
  <2>1. AnyNode(n) /\ Ordered(KeysOf(n))
    BY <1>3, LeafFacts DEF SoundLeaf
  <2>2. \A i \in 1..Len(n.keys) : KeyOf(n, i) < k <=> i <= 0
    BY <2>1, <1>2, <1>4, BelowCuts
  <2> QED
    BY <2>1, <2>2, KeysTyped
<1> HIDE DEF k
<1>6. ASSUME NEW q \in Keys, q <= k PROVE rf[q] = 0 /\ t.route[0][q] \in R
  <2>1. t.route[0][q] = 1
    <3>1. CASE q = k
      BY <3>1, <1>2
    <3>2. CASE q < k
      BY <3>2, <1>2 DEF Mapped, Fronted, k
    <3> QED
      BY <3>1, <3>2, <1>4, <1>6
  <2>2. ~Holds(n, q)
    <3>1. DOMAIN n.keys = 1..Len(n.keys)
      BY <1>3, LeafFacts, KeysTyped
    <3>2. \A i \in 1..Len(n.keys) : KeyOf(n, i) # q
      <4>1. ASSUME NEW i \in 1..Len(n.keys), KeyOf(n, i) = q PROVE FALSE
        <5>1. q = k
          BY <4>1, <1>4, <1>5, <1>6
        <5> QED
          BY <5>1, <4>1, <3>1, <1>2 DEF Holds
      <4> QED
        BY <4>1
    <3> QED
      BY <3>1, <3>2 DEF Holds
  <2>3. Node(t, 0, q) = n
    BY <2>1, <1>2 DEF Node
  <2>4. LeafHolds(t, rf, q)
    BY DEF Mapped, LeavesHold
  <2> QED
    BY <2>1, <2>2, <2>3, <2>4, <1>2 DEF LeafHolds
<1> QED
  BY <1>6 DEF Least, k

LEMMA PlaceCharted ==
    ASSUME Framed, Tracked, NEW t, Charted(t), ~Conflict', NEW c \in Clients, Place(c),
           NEW low, NEW edge, Shaped(low, edge)
    PROVE  Charted(t)'
<1> DEFINE o == cl[c]
           k == o.key
           y == last_index
           W == wrote[c] \cup {y}
           slot == Below(o.node, k) + 1
           m == WithKey(o.node, slot, k, y)
<1>1. /\ o.pc = "place" /\ Written(c, y, Value(o.val)) /\ y < MaxPages /\ last_index' = y + 1 /\ ref' = ref
      /\ Settle(c, o.at, m, o.path, slot = 1)
  BY DEF Place, Acquire, WithKey
<1>2. /\ Mapped(t, ref) /\ wrote[c] = {} /\ AtPlace(t, o, read[c]) /\ k \in Keys /\ o.kind = "insert"
      /\ o.val \in Nat \ {0} /\ t.live \subseteq 1..y - 1 /\ HEADER_INDEX \in read[c]
  BY <1>1 DEF Charted, Sited, Tracked, Busy
<1>3. y \in Fresh(t) /\ y \in Nat /\ y \in Indexes
  BY <1>1, NextFresh
<1>4. /\ Traced(c, read[c], W) /\ pages'[y] = Value(o.val)
      /\ \A j \in Indexes : j # y => pages'[j] = pages[j]
  BY <1>1, <1>3, WrittenTraced
<1>5. PICK ch : ch = [page |-> y]
  OBVIOUS
<1>6. /\ OnPath(t, o, read[c], 0) /\ o.at \in read[c] /\ o.node = Node(t, 0, k) /\ ~Holds(Node(t, 0, k), k)
  BY <1>2 DEF AtPlace
<1>7. ref[k] = 0
  <2>1. LeafHolds(t, ref, k)
    BY <1>2 DEF Mapped, LeavesHold
  <2> QED
    BY <2>1, <1>6 DEF LeafHolds
<1>8. /\ m = Raised(t, k, ch, 0) /\ Climbed(t, pages', ref, k, o.val, ch, 0)
      /\ W = Spread(t, k, ch, 0) /\ t.height \in Nat
  <2>1. m = Raised(t, k, ch, 0)
    BY <1>5, <1>6 DEF Raised
  <2>2. Climbed(t, pages', ref, k, o.val, ch, 0)
    BY <1>2, <1>3, <1>4, <1>5, <1>7 DEF Climbed
  <2>3. W = Spread(t, k, ch, 0)
    BY <1>2, <1>5 DEF Spread
  <2> QED
    BY <2>1, <2>2, <2>3, <1>2 DEF Mapped, Rooted
<1>9. /\ o.root = DecodeRoot(t.page[HEADER_INDEX]) /\ o.at = t.route[0][k] /\ o.path = PathTo(t, k, 0)
      /\ \A i \in 0 + 1..t.height : t.route[i][k] \in read[c]
  BY <1>6 DEF OnPath
<1> HIDE DEF m, slot
<1>10. Sited(t, pages', ref, cl'[c], read[c], W) /\ Busy(cl'[c]) /\ Carries(c)
  <2>1. 0 \in 0..t.height
    BY <1>8
  <2> QED
    <3>1. PICK first : first = (slot = 1)
      OBVIOUS
    <3>2. Settle(c, o.at, m, o.path, first)
      BY <3>1, <1>1
    <3>2a. first => Least(t, ref, k, read[c])
      <4>1. SUFFICES ASSUME first PROVE Least(t, ref, k, read[c])
        OBVIOUS
      <4>2. Below(o.node, k) = 0
        <5>1. Below(o.node, k) \in Nat
          <6>1. SoundLeaf(o.node)
            BY <1>2, <1>6 DEF Mapped, LeavesHold, LeafHolds
          <6>2. AnyNode(o.node) /\ Ordered(KeysOf(o.node)) /\ Len(o.node.keys) \in Nat
            BY <6>1, LeafFacts DEF SoundLeaf
          <6>3. k \in Int
            BY <1>2, KeysInt
          <6> QED
            BY <6>2, <6>3, BelowCuts
        <5>2. Below(o.node, k) + 1 = 1
          BY <3>1, <4>1 DEF slot
        <5> QED
          BY <5>1, <5>2
      <4> QED
        BY <4>2, <1>1, <1>2, PlaceLeast
    <3>2b. Mapped(t, ref)
      BY <1>2
    <3>3. o.kind = "insert" /\ HEADER_INDEX \in read[c]
      BY <1>2
    <3>4. o.at \in read[c]
      BY <1>6
    <3> HIDE DEF W
    <3> QED
      BY ONLY <2>1, <3>2, <3>3, <3>4, <3>2a, <3>2b, <1>8, <1>9, SettledSited, Tracked, c \in Clients
<1>11. Moved(t, pages, ref, t, pages', ref', {y})
  BY <1>1, <1>4, WritingMoves
<1>12. /\ {y} \subseteq W /\ last_index \in Int /\ last_index' \in Int /\ last_index' >= last_index
       /\ t.live \subseteq 1..last_index' - 1 /\ W \subseteq 0..last_index' - 1
       /\ Busy(cl[c]) => wrote[c] \subseteq W
       /\ ~Busy(cl'[c]) => \A i \in Indexes : i \in W => pages'[i] = t.page[i]
       /\ Sited(t, pages', ref', cl'[c], read[c], W) /\ Others(c) /\ Mapped(t, ref')
  BY <1>1, <1>2, <1>3, <1>10 DEF Carries
<1>13. 1..last_index' - 1 \subseteq (1..last_index - 1) \cup W
  BY <1>1, <1>3
<1> HIDE DEF W
<1> QED
  BY <1>4, <1>10, <1>11, <1>12, <1>13, ChartMoves

\* A climb goes on while pages outside it are written.
LEMMA ClimbedWrites ==
    ASSUME NEW t, NEW rf, Mapped(t, rf), NEW P, NEW P2, NEW X, \A i \in Indexes \ X : P2[i] = P[i],
           NEW key, NEW val, NEW ch, NEW l \in 0..t.height + 1, Climbed(t, P, rf, key, val, ch, l),
           Spread(t, key, ch, l) \cap X = {}
    PROVE  Climbed(t, P2, rf, key, val, ch, l)
<1>1. /\ t.height \in Nat
      /\ key \in Keys /\ rf[key] = 0 /\ val \in Nat \ {0}
      /\ ch.page \in Fresh(t) /\ P[ch.page] = Value(val)
      /\ \A i \in 0..l - 1 : Halved(t, P, rf, key, ch, i)
      /\ \A i \in 0..l - 1 : ch.new[i] \in Fresh(t) /\ ch.new[i] # ch.page
      /\ \A i, j \in 0..l - 1 : ch.new[i] = ch.new[j] => i = j
  BY DEF Climbed, Mapped, Rooted
<1>2. /\ ch.page \notin X
      /\ \A i \in 0..l - 1 : t.route[i][key] \notin X /\ ch.new[i] \notin X /\ i \in 0..t.height
  <2>1. ch.page \in Spread(t, key, ch, l)
        /\ \A i \in 0..l - 1 : t.route[i][key] \in Spread(t, key, ch, l) /\ ch.new[i] \in Spread(t, key, ch, l)
    BY DEF Spread
  <2>2. \A i \in 0..l - 1 : i \in 0..t.height
    BY <1>1
  <2> QED
    BY <2>1, <2>2
<1>3. \A i \in Fresh(t) : i \in Indexes
  BY DEF Fresh
<1>4. P2[ch.page] = Value(val)
  BY <1>1, <1>2, <1>3
<1>5. ASSUME NEW i \in 0..l - 1 PROVE Halved(t, P2, rf, key, ch, i)
  <2>1. t.route[i][key] \in Indexes
    BY <1>1, <1>2, RouteTyped DEF Mapped
  <2>2. P2[t.route[i][key]] = P[t.route[i][key]] /\ P2[ch.new[i]] = P[ch.new[i]]
    BY <2>1, <1>1, <1>2, <1>3
  <2> QED
    BY <2>2, <1>1 DEF Halved
<1> QED
  BY <1>1, <1>4, <1>5 DEF Climbed

\* The page of a node that is not yet written is not of the climb.
LEMMA NotSpread ==
    ASSUME NEW t, NEW rf, Mapped(t, rf), NEW P, NEW key, NEW val, NEW ch, NEW l \in 0..t.height,
           Climbed(t, P, rf, key, val, ch, l)
    PROVE  t.route[l][key] \notin Spread(t, key, ch, l)
<1>1. /\ t.height \in Nat /\ key \in Keys /\ ch.page \in Fresh(t)
      /\ \A i \in 0..l - 1 : ch.new[i] \in Fresh(t)
  BY DEF Climbed, Mapped, Rooted
<1>2. t.route[l][key] \in t.live
  BY <1>1, RouteTyped DEF Mapped
<1>3. t.route[l][key] # ch.page /\ \A i \in 0..l - 1 : t.route[l][key] # ch.new[i]
  BY <1>1, <1>2 DEF Fresh
<1>4. ASSUME NEW i \in 0..l - 1 PROVE t.route[l][key] # t.route[i][key]
  <2>1. i \in 0..t.height /\ i # l
    BY <1>1
  <2> QED
    BY <2>1, <1>1 DEF Mapped, Leveled
<1> QED
  BY <1>3, <1>4 DEF Spread

Higher(ch, l, s, y) ==
    [page |-> ch.page,
     sep |-> [i \in 0..l |-> IF i = l THEN s ELSE ch.sep[i]],
     new |-> [i \in 0..l |-> IF i = l THEN y ELSE ch.new[i]]]

\* One level up: the left half is written where the node was.
LEMMA ClimbsOn ==
    ASSUME NEW t, NEW rf, Mapped(t, rf), NEW P, NEW key, NEW val, NEW ch, NEW l \in 0..t.height,
           Climbed(t, P, rf, key, val, ch, l), NEW m, m = Raised(t, key, ch, l), Len(m.keys) > MaxLen,
           NEW x, x = t.route[l][key], NEW y \in Fresh(t) \ Spread(t, key, ch, l), P[y] = RightOf(m, x),
           NEW P2, \A i \in Indexes \ {x} : P2[i] = P[i], P2[x] = LeftOf(m, y),
           NEW s, s = SepOf(m), NEW c2, c2 = Higher(ch, l, s, y)
    PROVE  /\ Climbed(t, P2, rf, key, val, c2, l + 1)
           /\ Spread(t, key, c2, l + 1) = (Spread(t, key, ch, l) \cup {y}) \cup {x}
           /\ c2.sep[l] = s /\ c2.new[l] = y
<1>1. /\ t.height \in Nat /\ l \in Nat
      /\ key \in Keys /\ rf[key] = 0 /\ val \in Nat \ {0} /\ ch.page \in Fresh(t)
      /\ \A i \in 0..l - 1 : ch.new[i] \in Fresh(t) /\ ch.new[i] # ch.page
      /\ \A i, j \in 0..l - 1 : ch.new[i] = ch.new[j] => i = j
  BY DEF Climbed, Mapped, Rooted
<1>2. x \in t.live /\ x \in Indexes /\ x # y
  BY <1>1, RouteTyped DEF Mapped, Fresh
<1>3. Climbed(t, P2, rf, key, val, ch, l)
  <2>1. Spread(t, key, ch, l) \cap {x} = {}
    BY NotSpread
  <2>2. l \in 0..t.height + 1
    BY <1>1
  <2> QED
    BY <2>1, <2>2, ClimbedWrites
<1>4. /\ c2.page = ch.page /\ c2.sep[l] = s /\ c2.new[l] = y
      /\ \A i \in 0..l - 1 : c2.sep[i] = ch.sep[i] /\ c2.new[i] = ch.new[i]
  <2>1. l \in 0..l /\ \A i \in 0..l - 1 : i \in 0..l /\ i # l
    BY <1>1
  <2> QED
    BY <2>1 DEF Higher
<1>5. \A i \in 0..l : Raised(t, key, c2, i) = Raised(t, key, ch, i)
  <2>1. \A i \in 0..l : i = 0 \/ i - 1 \in 0..l - 1
    BY <1>1
  <2> QED
    BY <2>1, <1>4 DEF Raised
<1>6. \A i \in 0..(l + 1) - 1 : i = l \/ i \in 0..l - 1
  BY <1>1
<1>7. ASSUME NEW i \in 0..(l + 1) - 1 PROVE Halved(t, P2, rf, key, c2, i)
  <2>1. CASE i \in 0..l - 1
    <3>1. Halved(t, P2, rf, key, ch, i) /\ i \in 0..l
      BY <2>1, <1>1, <1>3 DEF Climbed
    <3>2. Raised(t, key, c2, i) = Raised(t, key, ch, i) /\ c2.sep[i] = ch.sep[i] /\ c2.new[i] = ch.new[i]
      BY <3>1, <2>1, <1>4, <1>5
    <3> QED
      BY <3>1, <3>2 DEF Halved
  <2>2. CASE i = l
    <3>1. Raised(t, key, c2, l) = m
      BY <1>1, <1>5
    <3>2. P2[y] = RightOf(m, x)
      BY <1>2 DEF Fresh
    <3>3. SepHome(t, rf, key, s, l)
      BY SepIsHome
    <3> QED
      BY <2>2, <3>1, <3>2, <3>3, <1>4 DEF Halved
  <2> QED
    BY <2>1, <2>2, <1>6
<1>8. \A i \in 0..l - 1 : y # ch.new[i]
  BY DEF Spread
<1>9. y # ch.page
  BY DEF Spread
<1>10. \A i \in 0..(l + 1) - 1 : c2.new[i] \in Fresh(t) /\ c2.new[i] # c2.page
  BY <1>1, <1>4, <1>6, <1>9
<1>11. \A i, j \in 0..(l + 1) - 1 : c2.new[i] = c2.new[j] => i = j
  BY <1>1, <1>4, <1>6, <1>8
<1>12. P2[c2.page] = Value(val)
  BY <1>3, <1>4 DEF Climbed
<1>13. Climbed(t, P2, rf, key, val, c2, l + 1)
  BY <1>1, <1>4, <1>7, <1>10, <1>11, <1>12 DEF Climbed
<1>14. Spread(t, key, c2, l + 1) = (Spread(t, key, ch, l) \cup {y}) \cup {x}
  <2>1. {c2.new[i] : i \in 0..(l + 1) - 1} = {ch.new[i] : i \in 0..l - 1} \cup {y}
    <3>1. l \in 0..(l + 1) - 1 /\ \A i \in 0..l - 1 : i \in 0..(l + 1) - 1
      BY <1>1
    <3> QED
      BY <3>1, <1>4, <1>6
  <2>2. {t.route[i][key] : i \in 0..(l + 1) - 1} = {t.route[i][key] : i \in 0..l - 1} \cup {x}
    <3>1. l \in 0..(l + 1) - 1 /\ \A i \in 0..l - 1 : i \in 0..(l + 1) - 1
      BY <1>1
    <3> QED
      BY <3>1, <1>6
  <2> QED
    BY <2>1, <2>2, <1>4 DEF Spread
<1> QED
  BY <1>4, <1>13, <1>14

\* A new minimum put before the separator of its own leaf.
LEMMA FirstDooms ==
    ASSUME NEW p \in InternalNodes, Len(p.keys) >= 1, NEW sep \in Int, NEW new \in Nat, NEW key \in Int,
           key < sep, Len(p.children) = Len(p.keys) + 1, NEW m, m = WithChild(p, 1, sep, new, TRUE, key)
    PROVE  Doomed(m) /\ Len(m.children) = Len(m.keys) + 1
<1> DEFINE ks == [p.keys EXCEPT ![1] = key]
           ks2 == InsertedAt(ks, 1, sep)
           cs2 == InsertedAt(p.children, 2, new)
<1>1. p.keys \in Seq(Int) /\ Len(p.keys) \in Nat /\ 1 \in 1..Len(p.keys) /\ p.children \in Seq(Nat)
  BY DEF InternalNodes
<1>2. ks \in Seq(Int) /\ Len(ks) = Len(p.keys) /\ ks[1] = key
  BY <1>1, ExceptSeq
<1> HIDE DEF ks
<1>3. Insertion(Int, ks2, ks, 1, sep)
  <2>1. 1 \in 1..Len(ks) + 1
    BY <1>1, <1>2
  <2> QED
    BY <2>1, <1>2, Inserted
<1>4. ks2 \in Seq(Int) /\ Len(ks2) = Len(ks) + 1 /\ ks2[1] = sep /\ ks2[2] = key
  <2>1. 1 \in 1..Len(ks)
    BY <1>1, <1>2
  <2>2. ks2 \in Seq(Int) /\ Len(ks2) = Len(ks) + 1 /\ ks2[1] = sep /\ ks2[1 + 1] = ks[1]
    BY <2>1, <1>3 DEF Insertion
  <2> QED
    BY <2>2, <1>2
<1>5. cs2 \in Seq(Nat) /\ Len(cs2) = Len(p.children) + 1
  <2>1. 2 \in 1..Len(p.children) + 1
    BY <1>1
  <2>2. Insertion(Nat, cs2, p.children, 2, new)
    BY <2>1, <1>1, Inserted
  <2> QED
    BY <2>2 DEF Insertion
<1>6. m = Internal(ks2, cs2)
  BY DEF WithChild, ks
<1> HIDE DEF ks2, cs2
<1>7. m \in InternalNodes /\ m.keys = ks2 /\ m.children = cs2
  BY ONLY <1>4, <1>5, <1>6 DEF Internal, InternalNodes
<1>8. Len(ks2) = Len(p.keys) + 1
  BY <1>2, <1>4
<1>9. Len(m.keys) >= 2 /\ Len(m.children) = Len(m.keys) + 1
  BY ONLY Len(p.keys) >= 1, Len(p.children) = Len(p.keys) + 1, <1>1, <1>5, <1>7, <1>8
<1>10. m.keys[1] > m.keys[2]
  BY <1>4, <1>7
<1> QED
  BY ONLY <1>7, <1>9, <1>10 DEF Doomed

LEMMA DoomedSplits ==
    ASSUME NEW m, Doomed(m), Len(m.keys) > MaxLen, Len(m.children) = Len(m.keys) + 1
    PROVE  Doomed(InternalLeft(m)) /\ m.type = "internal"
<1> DEFINE h == Half(Len(m.keys))
           a == UpTo(m.keys, h)
           b == UpTo(m.children, h + 1)
<1>1. /\ m.type = "internal" /\ m.keys \in Seq(Int) /\ m.children \in Seq(Nat) /\ Len(m.keys) \in Nat
      /\ m.keys[1] > m.keys[2]
  BY DEF Doomed, InternalNodes
<1>2. Len(m.keys) >= 3
  BY <1>1, LenAssumption
<1>3. h \in 2..Len(m.keys) - 1
  BY <1>1, <1>2, HalfBounds
<1>4. InternalLeft(m) = Internal(a, b)
  BY DEF InternalLeft
<1> HIDE DEF h
<1>5. a \in Seq(Int) /\ Len(a) = h /\ \A j \in 1..h : a[j] = m.keys[j]
  <2>1. h \in 0..Len(m.keys)
    BY <1>1, <1>3
  <2> QED
    BY <2>1, <1>1, Cut
<1>6. b \in Seq(Nat)
  <2>1. h + 1 \in 0..Len(m.children)
    BY <1>1, <1>3
  <2> QED
    BY <2>1, <1>1, Cut
<1> HIDE DEF a, b
<1>7. 1 \in 1..h /\ 2 \in 1..h /\ h >= 2
  BY <1>3
<1> QED
  BY <1>1, <1>4, <1>5, <1>6, <1>7 DEF Doomed, Internal, InternalNodes

\* Its right half starts behind both and is in order.
LEMMA DoomedRight ==
    ASSUME NEW p, SoundInternal(p), Len(p.keys) >= 1, NEW sep \in Int, NEW new \in Nat, NEW key \in Int,
           NEW m, m = WithChild(p, 1, sep, new, TRUE, key), Len(m.keys) > MaxLen
    PROVE  Ordered(KeysOf(InternalRight(m)))
<1> DEFINE ks == [p.keys EXCEPT ![1] = key]
           ks2 == InsertedAt(ks, 1, sep)
           cs2 == InsertedAt(p.children, 2, new)
           h == Half(Len(ks2))
           a == From(ks2, h + 2)
           b == From(cs2, h + 2)
<1>1. /\ p.keys \in Seq(Int) /\ Len(p.keys) \in Nat
      /\ \A i, j \in 1..Len(p.keys) : i < j => p.keys[i] < p.keys[j]
  BY NodeFacts
<1>2. /\ ks \in Seq(Int) /\ Len(ks) = Len(p.keys) /\ 1 \in 1..Len(p.keys)
      /\ \A i \in 2..Len(p.keys) : ks[i] = p.keys[i]
  <2>1. 1 \in 1..Len(p.keys) /\ \A i \in 2..Len(p.keys) : i \in 1..Len(p.keys) /\ i # 1
    BY <1>1
  <2> QED
    BY <2>1, <1>1, ExceptSeq
<1>3. Insertion(Int, ks2, ks, 1, sep)
  <2> HIDE DEF ks
  <2>1. 1 \in 1..Len(ks) + 1
    BY <1>1, <1>2
  <2> QED
    BY <2>1, <1>2, Inserted
<1>4. m.keys = ks2 /\ m.children = cs2
  BY DEF WithChild, Internal
<1>5. InternalRight(m) = Internal(a, b)
  BY <1>4 DEF InternalRight
<1> HIDE DEF ks, cs2
<1>6. /\ ks2 \in Seq(Int) /\ Len(ks2) = Len(p.keys) + 1
      /\ \A j \in 1..Len(p.keys) : ks2[j + 1] = ks[j]
  BY <1>2, <1>3 DEF Insertion
<1> HIDE DEF ks2
<1>7. Len(ks2) \in Nat /\ Len(ks2) >= 3
  <2>1. Len(ks2) > MaxLen
    BY <1>4
  <2> QED
    BY ONLY <2>1, <1>1, <1>6, LenAssumption
<1>8. h \in 2..Len(ks2) - 1
  BY <1>7, HalfBounds
<1> HIDE DEF h
<1>9. /\ a \in Seq(Int) /\ Len(a) = Len(ks2) - (h + 2) + 1
      /\ \A j \in 1..Len(ks2) - (h + 2) + 1 : a[j] = ks2[h + 2 + j - 1]
  <2>1. h + 2 \in 1..Len(ks2) + 1
    BY <1>7, <1>8
  <2> QED
    BY <2>1, <1>6, CutRest
<1> HIDE DEF a, b
<1>10. ASSUME NEW j \in 1..Len(a) PROVE a[j] = p.keys[h + j] /\ h + j \in 1..Len(p.keys)
  <2>1. j \in 1..Len(ks2) - (h + 2) + 1
    BY <1>9
  <2>2. /\ h + j \in 2..Len(p.keys) /\ h + j \in 1..Len(p.keys) /\ h + 2 + j - 1 = (h + j) + 1
    BY <2>1, <1>1, <1>6, <1>8
  <2>3. a[j] = ks2[(h + j) + 1]
    BY <2>1, <2>2, <1>9
  <2> QED
    BY <2>2, <2>3, <1>2, <1>6
<1>11. ASSUME NEW i \in 1..Len(a), NEW j \in 1..Len(a), i < j PROVE a[i] < a[j]
  <2>1. /\ a[i] = p.keys[h + i] /\ h + i \in 1..Len(p.keys)
        /\ a[j] = p.keys[h + j] /\ h + j \in 1..Len(p.keys)
    BY <1>10
  <2>2. h + i < h + j
    BY <1>7, <1>8, <1>9, <1>11
  <2> QED
    BY <2>1, <2>2, <1>1
<1>12. KeysOf(InternalRight(m)) = [i \in DOMAIN a |-> a[i]]
  <2>1. KeysOf(Internal(a, b)) = [i \in DOMAIN a |-> a[i]]
    BY ONLY DEF KeysOf, KeyOf, Internal
  <2> QED
    BY <1>5, <2>1
<1>13. DOMAIN a = 1..Len(a)
  BY <1>9
<1> QED
  BY <1>11, <1>12, <1>13 DEF Ordered

\* The last write of an insertion: its key is in the tree.
LEMMA CommitCharted ==
    ASSUME Framed, Tracked, NEW t, Charted(t), ~Conflict', NEW c \in Clients, Busy(cl[c]),
           cl[c].kind = "insert", NEW i \in Indexes, i \in 0..last_index - 1, NEW n, Written(c, i, n),
           Return(c, "ok"), last_index' = last_index, NEW W, W = wrote[c] \cup {i},
           NEW ch, NEW l, NEW top, Ends(t, pages', ref, cl[c].key, cl[c].val, ch, l, top, W)
    PROVE  \E t2 : Charted(t2)'
<1> DEFINE k == cl[c].key
           v == cl[c].val
<1>1. /\ Mapped(t, ref) /\ t.live \subseteq 1..last_index - 1 /\ wrote[c] \subseteq 0..last_index - 1
      /\ ref \in [Keys -> Nat] /\ k \in Keys
  BY DEF Charted, Tracked
<1>2. Traced(c, read[c], W) /\ \A j \in Indexes \ W : pages'[j] = pages[j]
  BY WrittenTraced
<1>3. Carries(c) /\ cl'[c].pc = "done" /\ ref' = [ref EXCEPT ![k] = v] /\ cl'[c].kind = "insert"
  BY ReturnCarries DEF Carries
<1>4. PICK u : u = Committed(t, pages', k, ch, l, top, W)
  OBVIOUS
<1>5. Mapped(u, ref')
  BY <1>1, <1>3, <1>4, MappedAfter
<1>6. Moved(t, pages, ref, u, pages', ref', W)
  BY <1>1, <1>2, <1>3, <1>4, CommitMoves
<1>7. u.live = t.live \cup (W \ {HEADER_INDEX}) /\ \A j \in Indexes : j \in W => pages'[j] = u.page[j]
  BY <1>4 DEF Committed
<1>8. Sited(u, pages', ref', cl'[c], read[c], W) /\ ~Busy(cl'[c]) /\ Others(c)
  BY <1>3, DoneSited DEF Carries
<1>9. last_index \in Int
  BY MaxPagesNat DEF Framed
<1>10. W \subseteq 0..last_index - 1
  BY <1>1
<1>11. u.live \subseteq 1..last_index - 1
  BY <1>1, <1>7, <1>9, <1>10 DEF HEADER_INDEX
<1>12. W \subseteq W /\ wrote[c] \subseteq W /\ last_index' \in Int /\ last_index' >= last_index
  BY <1>9
<1>13. W \ {HEADER_INDEX} \subseteq u.live /\ 1..last_index' - 1 \subseteq (1..last_index - 1) \cup W
  BY <1>7
<1>14. Charted(u)'
  BY <1>2, <1>5, <1>6, <1>7, <1>8, <1>9, <1>10, <1>11, <1>12, <1>13, ChartMoves
<1> QED
  BY <1>14

LEMMA SplitCharted ==
    ASSUME Framed, Tracked, NEW t, Charted(t), ~Conflict', NEW c \in Clients, Split(c)
    PROVE  Charted(t)'
<1> DEFINE o == cl[c]
           u == cl'[c]
           k == o.key
           y == last_index
           n == IF o.node.type = "leaf" THEN [o.node EXCEPT !.next = y] ELSE o.node
           W == wrote[c] \cup {y}
<1>1. /\ o.pc = "split" /\ Written(c, y, o.right) /\ y < MaxPages /\ last_index' = y + 1 /\ ref' = ref
      /\ Step(c, [pc |-> "write", new |-> y, node |-> n])
  BY DEF Split, Acquire
<1>2. /\ Mapped(t, ref) /\ k \in Keys /\ o.kind = "insert" /\ t.live \subseteq 1..y - 1
      /\ HEADER_INDEX \in read[c] /\ wrote[c] \subseteq 0..y - 1
      /\ Undercut(t, ref, o, read[c]) \/ \E l, ch : AtSplit(t, pages, ref, o, read[c], wrote[c], l, ch)
      /\ o.first => Least(t, ref, k, read[c])
  <2>1. /\ Mapped(t, ref) /\ t.live \subseteq 1..y - 1 /\ Sited(t, pages, ref, o, read[c], wrote[c])
        /\ Busy(o) => wrote[c] \subseteq 0..y - 1
    BY DEF Charted, Tracked
  <2>2. Busy(o)
    BY <1>1 DEF Busy
  <2>3. k \in Keys
    BY <2>2 DEF Tracked
  <2> QED
    BY ONLY <2>1, <2>2, <2>3, <1>1 DEF Sited
<1>3. y \in Fresh(t) /\ y \in Nat /\ y \in Indexes /\ y \notin wrote[c]
  BY <1>1, NextFresh
<1>4. /\ Traced(c, read[c], W) /\ pages'[y] = o.right
      /\ \A j \in Indexes : j # y => pages'[j] = pages[j]
  BY <1>1, <1>3, WrittenTraced
<1>5. /\ u.pc = "write" /\ u.new = y /\ u.node = n /\ u.key = k /\ u.val = o.val /\ u.kind = o.kind
      /\ u.at = o.at /\ u.path = o.path /\ u.root = o.root /\ u.sep = o.sep /\ u.seen = o.seen
      /\ u.first = o.first
  BY <1>1 DEF Step, Idle, Tracked
<1>6. Others(c) /\ Busy(u)
  BY <1>1, <1>5, StepCarries DEF Carries, Busy
<1>7. Sited(t, pages', ref, u, read[c], W)
  <2>1. CASE Undercut(t, ref, o, read[c])
    <3>1. Undercut(t, ref, u, read[c])
      <4>1. Doomed(u.node)
        BY <2>1, <1>5 DEF Undercut, Doomed, InternalNodes
      <4> QED
        BY <4>1, <2>1, <1>5 DEF Undercut
    <3> QED
      BY <3>1, <1>2, <1>5 DEF Sited, Busy
  <2>2. CASE \E l, ch : AtSplit(t, pages, ref, o, read[c], wrote[c], l, ch)
    <3>1. PICK l, ch : AtSplit(t, pages, ref, o, read[c], wrote[c], l, ch)
      BY <2>2
    <3>2. PICK m : m = Raised(t, k, ch, l)
      OBVIOUS
    <3>3. /\ OnPath(t, o, read[c], l) /\ o.at \in read[c]
          /\ Climbed(t, pages, ref, k, o.val, ch, l) /\ wrote[c] = Spread(t, k, ch, l)
          /\ Len(m.keys) > MaxLen
          /\ o.node = IF m.type = "leaf" THEN LeafLeft(m) ELSE InternalLeft(m)
          /\ o.right = RightOf(m, o.at) /\ o.sep = SepOf(m)
      BY <3>1, <3>2 DEF AtSplit
    <3>4. OnPath(t, u, read[c], l) /\ u.at \in read[c]
      BY <3>3, <1>5 DEF OnPath
    <3>5. l \in 0..t.height + 1
      BY <3>3, <1>2 DEF OnPath, Mapped, Rooted
    <3>6. Climbed(t, pages', ref, k, o.val, ch, l)
      <4>1. Spread(t, k, ch, l) \cap {y} = {}
        BY <3>3, <1>3
      <4>2. \A j \in Indexes \ {y} : pages'[j] = pages[j]
        BY <1>4
      <4> QED
        BY <4>1, <4>2, <3>3, <3>5, <1>2, ClimbedWrites
    <3>7. u.node = LeftOf(m, y)
      <4>1. LeafLeft(m).type = "leaf" /\ InternalLeft(m).type = "internal"
        BY DEF LeafLeft, Leaf, InternalLeft, Internal
      <4>2. CASE m.type = "leaf"
        BY <4>1, <4>2, <3>3, <1>5 DEF LeftOf
      <4>3. CASE m.type # "leaf"
        BY <4>1, <4>3, <3>3, <1>5 DEF LeftOf
      <4> QED
        BY <4>2, <4>3
    <3>8. y \in Fresh(t) \ Spread(t, k, ch, l) /\ W = Spread(t, k, ch, l) \cup {y}
      BY <3>3, <1>3
    <3>9. AtHalf(t, pages', ref, u, read[c], W, l, ch)
      BY <3>2, <3>3, <3>4, <3>6, <3>7, <3>8, <1>4, <1>5 DEF AtHalf
    <3> QED
      BY <3>9, <1>2, <1>5 DEF Sited, Busy
  <2> QED
    BY <2>1, <2>2, <1>2
<1>8. Moved(t, pages, ref, t, pages', ref', {y})
  BY <1>1, <1>4, WritingMoves
<1>9. /\ {y} \subseteq W /\ last_index \in Int /\ last_index' \in Int /\ last_index' >= last_index
      /\ t.live \subseteq 1..last_index' - 1 /\ W \subseteq 0..last_index' - 1
      /\ Busy(cl[c]) => wrote[c] \subseteq W
      /\ ~Busy(cl'[c]) => \A i \in Indexes : i \in W => pages'[i] = t.page[i]
      /\ Sited(t, pages', ref', cl'[c], read[c], W) /\ Others(c) /\ Mapped(t, ref')
  BY <1>1, <1>2, <1>3, <1>6, <1>7
<1>10. 1..last_index' - 1 \subseteq (1..last_index - 1) \cup W
  BY <1>1, <1>3
<1> HIDE DEF W
<1> QED
  BY <1>4, <1>6, <1>8, <1>9, <1>10, ChartMoves

\* A node that is not split ends the insertion.
LEMMA WholeCharted ==
    ASSUME Framed, Tracked, NEW t, Charted(t), ~Conflict', NEW c \in Clients, Write(c),
           NEW low, NEW edge, Shaped(low, edge), NEW l, NEW ch, AtWhole(t, pages, ref, cl[c], read[c], wrote[c], l, ch)
    PROVE  \E t2 : Charted(t2)'
<1> DEFINE o == cl[c]
           k == o.key
           x == o.at
<1>1. /\ OnPath(t, o, read[c], l) /\ Climbed(t, pages, ref, k, o.val, ch, l)
      /\ wrote[c] = Spread(t, k, ch, l) /\ Len(Raised(t, k, ch, l).keys) <= MaxLen
      /\ o.new = 0 /\ o.node = Raised(t, k, ch, l)
  BY DEF AtWhole
<1>2. /\ o.pc = "write" /\ Written(c, x, o.node) /\ last_index' = last_index /\ Return(c, "ok")
  <2>1. o.pc = "write" /\ Local(low, edge, last_index, o)
    BY DEF Write, Shaped
  <2>2. ~PastSeparators(o)
    BY <2>1, WithinSeparators
  <2> QED
    BY <2>2, <1>1 DEF Write
<1>3. /\ Mapped(t, ref) /\ k \in Keys /\ o.kind = "insert" /\ t.live \subseteq 1..last_index - 1 /\ Busy(o)
  BY <1>2 DEF Charted, Sited, Tracked, Busy
<1>4. l \in 0..t.height /\ x = t.route[l][k] /\ t.height \in Nat
  BY <1>1, <1>3 DEF OnPath, Mapped, Rooted
<1>5. x \in t.live /\ x \in Indexes /\ x \in 0..last_index - 1
  <2>1. x \in t.live
    BY <1>3, <1>4, RouteTyped DEF Mapped
  <2> QED
    BY <2>1, <1>3 DEF Mapped, Rooted
<1>6. x \notin Spread(t, k, ch, l)
  BY <1>1, <1>3, <1>4, NotSpread
<1>7. pages'[x] = o.node /\ \A j \in Indexes \ {x} : pages'[j] = pages[j]
  <2>1. /\ Traced(c, read[c], wrote[c] \cup {x})
        /\ pages'[x] = o.node /\ \A j \in Indexes : j # x => pages'[j] = pages[j]
    BY <1>2, <1>5, WrittenTraced
  <2> QED
    BY <2>1
<1>8. Climbed(t, pages', ref, k, o.val, ch, l)
  <2>1. Spread(t, k, ch, l) \cap {x} = {}
    BY <1>6
  <2>2. l \in 0..t.height + 1
    BY <1>4
  <2>3. Climbed(t, pages, ref, k, o.val, ch, l)
    BY <1>1
  <2>4. Mapped(t, ref) /\ \A j \in Indexes \ {x} : pages'[j] = pages[j]
    BY <1>3, <1>7
  <2> HIDE DEF x, k
  <2> QED
    BY ONLY <2>1, <2>2, <2>3, <2>4, ClimbedWrites
<1>9. PICK W : W = wrote[c] \cup {x}
  OBVIOUS
<1>10. Ends(t, pages', ref, k, o.val, ch, l, 0, W)
  <2>1. l \in 0..t.height + 1 /\ l <= t.height /\ ~(l > t.height)
    BY <1>4
  <2> QED
    BY <2>1, <1>1, <1>4, <1>7, <1>8, <1>9 DEF Ends
<1> QED
  BY <1>2, <1>3, <1>5, <1>9, <1>10, CommitCharted

\* A left half on its page: the climb is one level up.
HalfUp(t, c, l, c2, W) ==
    /\ Mapped(t, ref) /\ cl[c].key \in Keys /\ cl[c].kind = "insert" /\ t.height \in Nat
    /\ l \in 0..t.height /\ HEADER_INDEX \in read[c]
    /\ Climbed(t, pages', ref, cl[c].key, cl[c].val, c2, l + 1) /\ W = Spread(t, cl[c].key, c2, l + 1)
    /\ c2.sep[l] = cl[c].sep /\ c2.new[l] = cl[c].new
    /\ OnPath(t, cl[c], read[c], l) /\ cl[c].new # 0 /\ cl[c].at \in Indexes /\ cl[c].at \in W
    /\ \A j \in Indexes \ {cl[c].at} : pages'[j] = pages[j]
    /\ Traced(c, read[c], W) /\ W \subseteq 0..last_index - 1 /\ wrote[c] \subseteq W
    /\ t.live \subseteq 1..last_index - 1

LEMMA HalfWritten ==
    ASSUME Framed, Tracked, NEW t, Charted(t), NEW c \in Clients, Write(c),
           NEW l, NEW ch, AtHalf(t, pages, ref, cl[c], read[c], wrote[c], l, ch)
    PROVE  \E c2, W : HalfUp(t, c, l, c2, W)
<1> DEFINE o == cl[c]
           k == o.key
           x == o.at
<1>1. PICK m : m = Raised(t, k, ch, l)
  OBVIOUS
<1>2. /\ OnPath(t, o, read[c], l) /\ Climbed(t, pages, ref, k, o.val, ch, l)
      /\ Len(m.keys) > MaxLen /\ o.new \in Fresh(t) \ Spread(t, k, ch, l)
      /\ wrote[c] = Spread(t, k, ch, l) \cup {o.new}
      /\ o.node = LeftOf(m, o.new) /\ pages[o.new] = RightOf(m, x) /\ o.sep = SepOf(m)
  BY <1>1 DEF AtHalf
<1>3. o.pc = "write" /\ Written(c, x, o.node)
  BY DEF Write
<1>4. /\ Mapped(t, ref) /\ k \in Keys /\ o.kind = "insert" /\ t.live \subseteq 1..last_index - 1
      /\ HEADER_INDEX \in read[c] /\ wrote[c] \subseteq 0..last_index - 1
  BY <1>3 DEF Charted, Sited, Tracked, Busy
<1>5. l \in 0..t.height /\ x = t.route[l][k] /\ t.height \in Nat
  BY <1>2, <1>4 DEF OnPath, Mapped, Rooted
<1>6. x \in t.live /\ x \in Indexes /\ x \in 0..last_index - 1
  <2>1. x \in t.live
    BY <1>4, <1>5, RouteTyped DEF Mapped
  <2> QED
    BY <2>1, <1>4 DEF Mapped, Rooted
<1>7. PICK W : W = wrote[c] \cup {x}
  OBVIOUS
<1>8. /\ Traced(c, read[c], W) /\ pages'[x] = o.node
      /\ \A j \in Indexes \ {x} : pages'[j] = pages[j]
  <2>1. /\ Traced(c, read[c], wrote[c] \cup {x})
        /\ pages'[x] = o.node /\ \A j \in Indexes : j # x => pages'[j] = pages[j]
    BY <1>3, <1>6, WrittenTraced
  <2> QED
    BY <2>1, <1>7
<1>9. PICK y : y = o.new
  OBVIOUS
<1>10. PICK s : s = o.sep
  OBVIOUS
<1>11. PICK c2 : c2 = Higher(ch, l, s, y)
  OBVIOUS
<1>12. /\ Climbed(t, pages', ref, k, o.val, c2, l + 1)
       /\ Spread(t, k, c2, l + 1) = (Spread(t, k, ch, l) \cup {y}) \cup {x}
       /\ c2.sep[l] = s /\ c2.new[l] = y
  BY <1>1, <1>2, <1>4, <1>5, <1>8, <1>9, <1>10, <1>11, ClimbsOn
<1>13. W = Spread(t, k, c2, l + 1)
  BY <1>2, <1>7, <1>9, <1>12
<1>14. o.new # 0 /\ x \in W /\ wrote[c] \subseteq W /\ W \subseteq 0..last_index - 1
  BY <1>2, <1>4, <1>6, <1>7 DEF Fresh
<1> QED
  BY <1>2, <1>4, <1>5, <1>6, <1>8, <1>9, <1>10, <1>12, <1>13, <1>14 DEF HalfUp

\* What every write of a left half leads to.
LEMMA HalfCharts ==
    ASSUME Framed, Tracked, NEW t, Charted(t), ~Conflict', NEW c \in Clients,
           NEW l, NEW c2, NEW W, HalfUp(t, c, l, c2, W), last_index' = last_index, ref' = ref,
           Others(c), Busy(cl'[c]), Sited(t, pages', ref, cl'[c], read[c], W)
    PROVE  Charted(t)'
<1> DEFINE x == cl[c].at
<1>1. /\ Mapped(t, ref) /\ x \in Indexes /\ x \in W
      /\ \A j \in Indexes \ {x} : pages'[j] = pages[j]
      /\ Traced(c, read[c], W) /\ W \subseteq 0..last_index - 1 /\ wrote[c] \subseteq W
      /\ t.live \subseteq 1..last_index - 1
  BY DEF HalfUp
<1>2. Moved(t, pages, ref, t, pages', ref', {x})
  BY <1>1, WritingMoves
<1>3. last_index \in Int
  BY MaxPagesNat DEF Framed
<1>4. /\ {x} \subseteq W /\ last_index' \in Int /\ last_index' >= last_index
      /\ t.live \subseteq 1..last_index' - 1 /\ W \subseteq 0..last_index' - 1
      /\ ~Busy(cl'[c]) => \A i \in Indexes : i \in W => pages'[i] = t.page[i]
      /\ Mapped(t, ref') /\ Sited(t, pages', ref', cl'[c], read[c], W)
  BY <1>1, <1>3
<1>5. 1..last_index' - 1 \subseteq (1..last_index - 1) \cup W
  OBVIOUS
<1> QED
  BY <1>1, <1>2, <1>3, <1>4, <1>5, ChartMoves

LEMMA RootNext ==
    ASSUME Framed, Tracked, NEW t, Charted(t), ~Conflict', NEW c \in Clients, Write(c),
           NEW l, NEW c2, NEW W, HalfUp(t, c, l, c2, W), cl[c].path = <<>>
    PROVE  Charted(t)'
<1> DEFINE o == cl[c]
           u == cl'[c]
           k == o.key
<1>1. /\ Mapped(t, ref) /\ o.kind = "insert" /\ t.height \in Nat /\ l \in 0..t.height
      /\ HEADER_INDEX \in read[c] /\ OnPath(t, o, read[c], l) /\ o.new # 0
      /\ Climbed(t, pages', ref, k, o.val, c2, l + 1) /\ W = Spread(t, k, c2, l + 1)
      /\ c2.sep[l] = o.sep /\ c2.new[l] = o.new
  BY DEF HalfUp
<1>2. /\ o.pc = "write" /\ Step(c, [pc |-> "root"]) /\ ref' = ref /\ last_index' = last_index
  BY <1>1 DEF Write, PastSeparators
<1>3. l = t.height
  BY <1>1, PathSteps DEF OnPath
<1>4. /\ u.pc = "root" /\ u.root = o.root /\ u.new = o.new /\ u.sep = o.sep
      /\ u.key = o.key /\ u.kind = o.kind /\ u.val = o.val /\ u.seen = o.seen
  BY <1>2 DEF Step, Idle, Tracked
<1>5. AtRoot(t, pages', ref, u, W, c2)
  BY <1>1, <1>3, <1>4 DEF AtRoot, OnPath
<1>6. Sited(t, pages', ref, u, read[c], W) /\ Busy(u)
  BY <1>1, <1>4, <1>5 DEF Sited, Busy
<1>7. Others(c)
  BY <1>2, StepCarries DEF Carries
<1> QED
  BY <1>2, <1>6, <1>7, HalfCharts

\* A parent that takes a new minimum below its first separator is doomed.
LEMMA DoomedSited ==
    ASSUME Tracked, NEW c \in Clients, NEW at, NEW m, NEW path, NEW first, Settle(c, at, m, path, first),
           Doomed(m), Len(m.children) = Len(m.keys) + 1, cl[c].kind = "insert", ~first,
           Len(m.keys) > MaxLen => Ordered(KeysOf(InternalRight(m))),
           NEW t, NEW P, NEW rf, NEW R, NEW W, HEADER_INDEX \in R, Least(t, rf, cl[c].key, R)
    PROVE  Sited(t, P, rf, cl'[c], R, W) /\ Busy(cl'[c]) /\ Carries(c)
<1> DEFINE u == cl'[c]
<1>1. /\ Carries(c) /\ u.first = first
      /\ \/ Len(m.keys) <= MaxLen /\ u.pc = "write" /\ u.node = m /\ u.new = 0
         \/ /\ ~(Len(m.keys) <= MaxLen) /\ u.pc = "split" /\ u.right = RightOf(m, at)
            /\ u.node = (IF m.type = "leaf" THEN LeafLeft(m) ELSE InternalLeft(m))
            /\ u.sep = SepOf(m)
  BY SettleCarries
<1>2. u.kind = "insert" /\ Least(t, rf, u.key, R)
  BY <1>1 DEF Carries
<1>3. Doomed(u.node) /\ u.pc \in {"write", "split"} /\ (u.pc = "split" => Ordered(KeysOf(u.right)))
  <2>1. CASE Len(m.keys) <= MaxLen /\ u.pc = "write" /\ u.node = m
    BY <2>1
  <2>2. CASE /\ ~(Len(m.keys) <= MaxLen) /\ u.pc = "split" /\ u.right = RightOf(m, at)
             /\ u.node = (IF m.type = "leaf" THEN LeafLeft(m) ELSE InternalLeft(m))
    <3>1. Len(m.keys) > MaxLen
      BY <2>2, LenAssumption DEF Doomed, InternalNodes
    <3>2. Doomed(InternalLeft(m)) /\ m.type = "internal"
      BY <3>1, DoomedSplits
    <3>3. u.right = InternalRight(m)
      BY <3>2, <2>2 DEF RightOf
    <3> QED
      BY <3>1, <3>2, <3>3, <2>2
  <2> QED
    BY <1>1, <2>1, <2>2
<1>4. Undercut(t, rf, u, R)
  BY <1>2, <1>3 DEF Undercut
<1> QED
  BY <1>1, <1>2, <1>3, <1>4 DEF Sited, Busy

LEMMA RaiseCharted ==
    ASSUME Framed, Tracked, NEW t, Charted(t), ~Conflict', NEW c \in Clients, Write(c),
           NEW l, NEW c2, NEW W, HalfUp(t, c, l, c2, W), cl[c].path # <<>>,
           NEW low, NEW edge, Shaped(low, edge)
    PROVE  Charted(t)'
<1> DEFINE o == cl[c]
           u == cl'[c]
           k == o.key
<1>1. /\ Mapped(t, ref) /\ o.kind = "insert" /\ t.height \in Nat /\ l \in 0..t.height /\ k \in Keys
      /\ HEADER_INDEX \in read[c] /\ OnPath(t, o, read[c], l) /\ o.new # 0
      /\ Climbed(t, pages', ref, k, o.val, c2, l + 1) /\ W = Spread(t, k, c2, l + 1)
      /\ c2.sep[l] = o.sep /\ c2.new[l] = o.new
  BY DEF HalfUp
<1>2. /\ o.pc = "write" /\ Raise(c) /\ last_index' = last_index
  <2>1. o.pc = "write" /\ Local(low, edge, last_index, o)
    BY DEF Write, Shaped
  <2>2. ~PastSeparators(o)
    BY <2>1, WithinSeparators
  <2> QED
    BY <2>2, <1>1 DEF Write
<1>3. /\ o.path = PathTo(t, k, l) /\ o.root = DecodeRoot(t.page[HEADER_INDEX])
      /\ \A i \in l + 1..t.height : t.route[i][k] \in read[c]
  BY <1>1 DEF OnPath
<1>4. /\ l # t.height /\ o.path[Len(o.path)] = Stop(t, l + 1, k)
      /\ UpTo(o.path, Len(o.path) - 1) = PathTo(t, k, l + 1)
  BY <1>1, <1>3, PathSteps
<1>5. l + 1 \in 0..t.height /\ l + 1 # 0 /\ l + 1 \in l + 1..t.height /\ (l + 1) - 1 = l
  BY <1>1, <1>4
<1>6. PICK p : p = Node(t, l + 1, k)
  OBVIOUS
<1>7. PICK at : at = t.route[l + 1][k]
  OBVIOUS
<1>8. PICK slot : slot = Below(p, k) + 1
  OBVIOUS
<1>9. PICK path : path = PathTo(t, k, l + 1)
  OBVIOUS
<1>10. at \in read[c] /\ \A i \in (l + 1) + 1..t.height : t.route[i][k] \in read[c]
  <2>1. \A i \in (l + 1) + 1..t.height : i \in l + 1..t.height
    BY <1>1
  <2> QED
    BY <2>1, <1>3, <1>5, <1>7
<1>11. SoundInternal(p)
  BY <1>1, <1>5, <1>6, NodeType
<1>12. /\ p \in InternalNodes /\ Len(p.keys) \in Nat /\ Len(p.children) = Len(p.keys) + 1
  BY <1>11, NodeFacts
<1>13. /\ o.first => slot = 1 /\ Len(p.keys) >= 1 /\ k < o.sep
       /\ o.sep \in Int /\ o.new \in Nat /\ k \in Int
  <2>1. Local(low, edge, last_index, o)
    BY DEF Shaped
  <2>2. /\ o.first => FirstChild(o.path) /\ k < o.sep
        /\ o.sep \in Int /\ o.new \in Nat /\ k \in Int
    BY <2>1, <1>1, <1>2 DEF Local, NewPage
  <2>3. o.path[Len(o.path)].slot = slot /\ o.path[Len(o.path)].node = p
    BY <1>4, <1>6, <1>8 DEF Stop
  <2> QED
    BY <2>2, <2>3 DEF FirstChild
<1>13a. Raise(c)
  BY <1>2
<1>14. /\ Settle(c, at, WithChild(p, slot, o.sep, o.new, o.first, k), path, FALSE) /\ ref' = ref
  <2> DEFINE q == o.path[Len(o.path)]
  <2>1. q.page = at /\ q.node = p /\ q.slot = slot
    BY <1>4, <1>6, <1>7, <1>8 DEF Stop
  <2>3. /\ Settle(c, q.page, WithChild(q.node, q.slot, o.sep, o.new, o.first, k),
                  UpTo(o.path, Len(o.path) - 1), FALSE)
        /\ ref' = ref
    BY ONLY <1>13a DEF Raise, WithChild
  <2> HIDE DEF q
  <2> QED
    BY <2>1, <2>3, <1>4, <1>9
<1>15. PICK m : m = WithChild(p, slot, o.sep, o.new, o.first, k)
  OBVIOUS
<1>16. Settle(c, at, m, path, FALSE)
  BY <1>14, <1>15
<1>17. Sited(t, pages', ref, u, read[c], W) /\ Busy(u) /\ Carries(c)
  <2>1. CASE o.first
    <3>1. m = WithChild(p, 1, o.sep, o.new, TRUE, k)
      BY <2>1, <1>13, <1>15 DEF WithChild
    <3>2. Doomed(m) /\ Len(m.children) = Len(m.keys) + 1
      BY <2>1, <3>1, <1>12, <1>13, FirstDooms
    <3>3. Len(m.keys) > MaxLen => Ordered(KeysOf(InternalRight(m)))
      BY <2>1, <3>1, <1>11, <1>13, DoomedRight
    <3>4. Least(t, ref, k, read[c])
      BY <2>1, <1>2 DEF Charted, Sited
    <3> QED
      BY <3>2, <3>3, <3>4, <1>1, <1>16, DoomedSited
  <2>2. CASE ~o.first
    <3>1. m = Raised(t, k, c2, l + 1)
      BY <2>2, <1>1, <1>5, <1>6, <1>8, <1>15 DEF Raised, WithChild
    <3>2. PICK j : j = l + 1
      OBVIOUS
    <3> QED
      BY <3>1, <3>2, <1>1, <1>3, <1>5, <1>7, <1>9, <1>10, <1>16, SettledSited
  <2> QED
    BY <2>1, <2>2
<1> QED
  BY <1>2, <1>14, <1>17, HalfCharts DEF Carries

LEMMA WriteCharted ==
    ASSUME Framed, Tracked, NEW t, Charted(t), ~Conflict', NEW c \in Clients, Write(c), ~mangled',
           NEW low, NEW edge, Shaped(low, edge)
    PROVE  \E t2 : Charted(t2)'
<1>1. cl[c].pc = "write" /\ Ordered(KeysOf(cl[c].node))
  BY DEF Write
<1>2. ~Doomed(cl[c].node)
  BY <1>1, OrderedFits
<1>3. \/ \E l, ch : AtWhole(t, pages, ref, cl[c], read[c], wrote[c], l, ch)
      \/ \E l, ch : AtHalf(t, pages, ref, cl[c], read[c], wrote[c], l, ch)
  BY <1>1, <1>2 DEF Charted, Sited, Undercut
<1>4. CASE \E l, ch : AtWhole(t, pages, ref, cl[c], read[c], wrote[c], l, ch)
  BY <1>4, WholeCharted
<1>5. CASE \E l, ch : AtHalf(t, pages, ref, cl[c], read[c], wrote[c], l, ch)
  <2>1. PICK l, ch : AtHalf(t, pages, ref, cl[c], read[c], wrote[c], l, ch)
    BY <1>5
  <2>2. PICK c2, W : HalfUp(t, c, l, c2, W)
    BY <2>1, HalfWritten
  <2>3. Charted(t)'
    BY <2>2, RootNext, RaiseCharted
  <2> QED
    BY <2>3
<1> QED
  BY <1>3, <1>4, <1>5

LEMMA NewRootCharted ==
    ASSUME Framed, Tracked, NEW t, Charted(t), ~Conflict', NEW c \in Clients, NewRoot(c)
    PROVE  Charted(t)'
<1> DEFINE o == cl[c]
           u == cl'[c]
           k == o.key
           y == last_index
           n == Internal(<<o.sep>>, <<o.root, o.new>>)
           W == wrote[c] \cup {y}
           h == t.height
<1>1. /\ o.pc = "root" /\ Written(c, y, n) /\ y < MaxPages /\ last_index' = y + 1 /\ ref' = ref
      /\ Step(c, [pc |-> "set_root", new |-> y])
  BY DEF NewRoot, Acquire
<1>2. /\ Mapped(t, ref) /\ k \in Keys /\ o.kind = "insert" /\ t.live \subseteq 1..y - 1
      /\ HEADER_INDEX \in read[c] /\ wrote[c] \subseteq 0..y - 1
      /\ \E ch : AtRoot(t, pages, ref, o, wrote[c], ch)
  BY <1>1 DEF Charted, Sited, Tracked, Busy
<1>3. y \in Fresh(t) /\ y \in Nat /\ y \in Indexes /\ y \notin wrote[c]
  BY <1>1, NextFresh
<1>4. /\ Traced(c, read[c], W) /\ pages'[y] = n
      /\ \A j \in Indexes : j # y => pages'[j] = pages[j]
  BY <1>1, <1>3, WrittenTraced
<1>5. u.pc = "set_root" /\ u.new = y /\ u.key = k /\ u.val = o.val /\ u.kind = o.kind /\ u.seen = o.seen
  BY <1>1 DEF Step, Idle, Tracked
<1>6. Others(c) /\ Busy(u)
  BY <1>1, <1>5, StepCarries DEF Carries, Busy
<1>7. PICK ch : AtRoot(t, pages, ref, o, wrote[c], ch)
  BY <1>2
<1>8. /\ Climbed(t, pages, ref, k, o.val, ch, h + 1) /\ wrote[c] = Spread(t, k, ch, h + 1)
      /\ o.root = DecodeRoot(t.page[HEADER_INDEX]) /\ o.new = ch.new[h] /\ o.sep = ch.sep[h]
  BY <1>7 DEF AtRoot
<1>9. h \in Nat /\ h + 1 \in 0..h + 1 /\ o.root = t.route[h][k]
  BY <1>2, <1>8 DEF Mapped, Rooted
<1>10. Climbed(t, pages', ref, k, o.val, ch, h + 1)
  <2>1. Spread(t, k, ch, h + 1) \cap {y} = {}
    BY <1>3, <1>8
  <2>2. \A j \in Indexes \ {y} : pages'[j] = pages[j]
    BY <1>4
  <2>3. PICK l : l = h + 1
    OBVIOUS
  <2>4. l \in 0..t.height + 1 /\ Climbed(t, pages, ref, k, o.val, ch, l) /\ Spread(t, k, ch, l) \cap {y} = {}
    BY <2>1, <2>3, <1>8, <1>9
  <2>5. Climbed(t, pages', ref, k, o.val, ch, l)
    BY <2>2, <2>4, <1>2, ClimbedWrites
  <2> QED
    BY <2>3, <2>5
<1>11. y \in Fresh(t) \ Spread(t, k, ch, h + 1) /\ W = Spread(t, k, ch, h + 1) \cup {y}
  BY <1>3, <1>8
<1>12. AtSetRoot(t, pages', ref, u, W, ch)
  BY <1>4, <1>5, <1>8, <1>9, <1>10, <1>11 DEF AtSetRoot
<1>13. Sited(t, pages', ref, u, read[c], W)
  BY <1>2, <1>5, <1>12 DEF Sited, Busy
<1>14. Moved(t, pages, ref, t, pages', ref', {y})
  BY <1>1, <1>4, WritingMoves
<1>15. /\ {y} \subseteq W /\ last_index \in Int /\ last_index' \in Int /\ last_index' >= last_index
       /\ t.live \subseteq 1..last_index' - 1 /\ W \subseteq 0..last_index' - 1
       /\ Busy(cl[c]) => wrote[c] \subseteq W
       /\ ~Busy(cl'[c]) => \A i \in Indexes : i \in W => pages'[i] = t.page[i]
       /\ Sited(t, pages', ref', cl'[c], read[c], W) /\ Others(c) /\ Mapped(t, ref')
  BY <1>1, <1>2, <1>3, <1>6, <1>13
<1>16. 1..last_index' - 1 \subseteq (1..last_index - 1) \cup W
  BY <1>1, <1>3
<1> HIDE DEF W
<1> QED
  BY <1>4, <1>6, <1>14, <1>15, <1>16, ChartMoves

LEMMA SetRootCharted ==
    ASSUME Framed, Tracked, NEW t, Charted(t), ~Conflict', NEW c \in Clients, SetRoot(c)
    PROVE  \E t2 : Charted(t2)'
<1> DEFINE o == cl[c]
           k == o.key
           x == HEADER_INDEX
           h == t.height
<1>1. /\ o.pc = "set_root" /\ Written(c, x, Header(o.new)) /\ Return(c, "ok") /\ last_index' = last_index
  BY DEF SetRoot
<1>2. /\ Mapped(t, ref) /\ k \in Keys /\ o.kind = "insert" /\ t.live \subseteq 1..last_index - 1
      /\ wrote[c] \subseteq 0..last_index - 1 /\ Busy(o)
      /\ \E ch : AtSetRoot(t, pages, ref, o, wrote[c], ch)
  BY <1>1 DEF Charted, Sited, Tracked, Busy
<1>3. PICK ch : AtSetRoot(t, pages, ref, o, wrote[c], ch)
  BY <1>2
<1>4. PICK l : l = h + 1
  OBVIOUS
<1>5. /\ Climbed(t, pages, ref, k, o.val, ch, l) /\ o.new \in Fresh(t) \ Spread(t, k, ch, l)
      /\ wrote[c] = Spread(t, k, ch, l) \cup {o.new}
      /\ pages[o.new] = Internal(<<ch.sep[h]>>, <<t.route[h][k], ch.new[h]>>)
  BY <1>3, <1>4 DEF AtSetRoot
<1>6. h \in Nat /\ l \in 0..h + 1 /\ l > h /\ ~(l <= h)
  BY <1>2, <1>4 DEF Mapped, Rooted
<1>7. x \in Indexes /\ x \in 0..last_index - 1 /\ o.new # x /\ o.new \in Indexes
  <2>1. last_index \in Int /\ o.new \in 0..last_index - 1 /\ MaxPages \in Nat
    BY <1>2, <1>5, MaxPagesNat DEF Framed
  <2> QED
    BY <2>1, <1>5 DEF HEADER_INDEX, Indexes, Fresh
<1>8. x \notin Spread(t, k, ch, l)
  <2>1. ch.page # x /\ \A i \in 0..l - 1 : ch.new[i] # x
    BY <1>5 DEF Climbed, Fresh, HEADER_INDEX
  <2>2. \A i \in 0..l - 1 : t.route[i][k] # x
    <3>1. \A i \in 0..l - 1 : i \in 0..h
      BY <1>4, <1>6
    <3> QED
      BY <3>1, <1>2, RouteTyped DEF Mapped, HEADER_INDEX
  <2> QED
    BY <2>1, <2>2 DEF Spread
<1>9. pages'[x] = Header(o.new) /\ \A j \in Indexes \ {x} : pages'[j] = pages[j]
  <2>1. pages'[x] = Header(o.new) /\ \A j \in Indexes : j # x => pages'[j] = pages[j]
    BY <1>1, <1>7, WrittenTraced
  <2> QED
    BY <2>1
<1>10. Climbed(t, pages', ref, k, o.val, ch, l)
  <2>1. Spread(t, k, ch, l) \cap {x} = {}
    BY <1>8
  <2> HIDE DEF x
  <2> QED
    BY <2>1, <1>2, <1>5, <1>6, <1>9, ClimbedWrites
<1>11. PICK W : W = wrote[c] \cup {x}
  OBVIOUS
<1>12. PICK top : top = o.new
  OBVIOUS
<1>13. W = Spread(t, k, ch, l) \cup {top, HEADER_INDEX}
  BY <1>5, <1>11, <1>12
<1>14. Ends(t, pages', ref, k, o.val, ch, l, top, W)
  BY <1>5, <1>6, <1>7, <1>9, <1>10, <1>12, <1>13 DEF Ends
<1> HIDE DEF x
<1> QED
  BY <1>1, <1>2, <1>7, <1>11, <1>14, CommitCharted

\* A tree that is charted is not empty.
LEMMA ChartedShaped ==
    ASSUME TreeInv, ~mangled, NEW t, Charted(t)
    PROVE  Framed /\ \E low, edge : Shaped(low, edge)
<1>1. Framed /\ (Blank \/ \E low, edge : Shaped(low, edge))
  BY DEF TreeInv
<1>2. CASE Blank
  <2>1. pages[HEADER_INDEX] = Zero /\ HEADER_INDEX \in Indexes
    BY <1>2, MaxPagesNat DEF Blank, HEADER_INDEX, Indexes
  <2>2. \A c \in Clients : Busy(cl[c]) => wrote[c] = {}
    BY <1>2 DEF Blank, Rootless, Charted, Sited, Busy
  <2>3. t.page[HEADER_INDEX] = Zero
    BY <2>1, <2>2 DEF Charted
  <2>4. PICK k \in Keys : TRUE
    BY KeysAssumption
  <2>5. Rooted(t, ref) /\ t.height \in Nat
    BY DEF Charted, Mapped, Rooted
  <2>6. t.route[t.height][k] # 0
    <3>1. t.height \in 0..t.height
      BY <2>5
    <3> QED
      BY <3>1, <2>4, <2>5, RouteTyped
  <2>7. t.route[t.height][k] = 0
    BY <2>3, <2>4, <2>5 DEF Rooted, DecodeRoot, Zero
  <2> QED
    BY <2>6, <2>7
<1> QED
  BY <1>1, <1>2

LEMMA CursorCharted ==
    ASSUME Framed, Tracked, NEW t, Charted(t), ~Conflict', NEW c \in Clients, Cursor(c), ~mangled',
           NEW low, NEW edge, Shaped(low, edge)
    PROVE  \E t2 : Charted(t2)'
<1>1. CASE \E kind \in Kinds, k \in Keys : Begin(c, kind, k)
  <2>1. Charted(t)'
    BY <1>1, BeginCharted
  <2> QED
    BY <2>1
<1>2. CASE ReadHeader(c)
  <2>1. cl[c].path = <<>>
    BY <1>2 DEF ReadHeader, Shaped, Local
  <2>2. Charted(t)'
    BY <2>1, <1>2, ReadHeaderCharted
  <2> QED
    BY <2>2
<1>3. CASE Invalid(c)
  BY <1>3, InvalidNever
<1>4. CASE Descend(c) \/ FamilyUnderflow(c) \/ ReadLeaf(c) \/ Fetch(c)
  <2>1. Charted(t)'
    BY <1>4, DescendCharted, FamilyUnderflowCharted, ReadLeafCharted, FetchCharted
  <2> QED
    BY <2>1
<1>5. CASE Overwrite(c) \/ Write(c) \/ SetRoot(c)
  BY <1>5, OverwriteCharted, WriteCharted, SetRootCharted
<1>6. CASE Place(c) \/ Split(c) \/ NewRoot(c) \/ End(c)
  <2>1. Charted(t)'
    BY <1>6, PlaceCharted, SplitCharted, NewRootCharted, EndCharted
  <2> QED
    BY <2>1
<1> QED
  BY <1>1, <1>2, <1>3, <1>4, <1>5, <1>6 DEF Cursor

------------------------------------------------------------------------------
(* The chart is kept.                                                      *)

LEMMA TraceGrows ==
    ASSUME Tracked, NEW c \in Clients, NEW i,
           Reads(c, i) \/ \E n : Written(c, i, n)
    PROVE  \A d \in Clients : read[d] \subseteq read'[d] /\ wrote[d] \subseteq wrote'[d]
  BY DEF Tracked, Reads, Written

\* Once two operations are in each other's way they stay so.
LEMMA ConflictStays == Tracked /\ Conflict /\ [Next]_vars => Conflict'
<1> SUFFICES ASSUME Tracked, Conflict, [Next]_vars PROVE Conflict'
  OBVIOUS
<1>1. \A d \in Clients : read[d] \subseteq read'[d] /\ wrote[d] \subseteq wrote'[d]
  <2>1. CASE UNCHANGED trace
    BY <2>1 DEF trace
  <2>2. ASSUME NEW c \in Clients, NEW i, Reads(c, i) \/ \E n : Written(c, i, n)
        PROVE  \A d \in Clients : read[d] \subseteq read'[d] /\ wrote[d] \subseteq wrote'[d]
    BY <2>2, TraceGrows
  <2>3. ASSUME NEW c \in Clients, Cursor(c)
        PROVE  \/ UNCHANGED trace
               \/ \E i : Reads(c, i) \/ \E n : Written(c, i, n)
    BY <2>3 DEF Cursor, Begin, ReadHeader, Invalid, Descend, FamilyUnderflow, ReadLeaf, Fetch,
                Overwrite, Place, Split, Write, NewRoot, SetRoot, End
  <2>4. UNCHANGED trace \/ \E c \in Clients : Cursor(c)
    BY DEF Next, vars, Initialize, Done
  <2> QED
    BY <2>1, <2>2, <2>3, <2>4
<1> QED
  BY <1>1 DEF Conflict

\* Nothing is found in an empty file, and nothing is put there.
LEMMA UnmappedStep ==
    ASSUME Framed, Tracked, Unmapped, NEW c \in Clients, Cursor(c)
    PROVE  Unmapped'
<1>1. Blank'
  BY BlankCursor DEF Unmapped
<1>2. /\ cl[c].pc \in {"idle", "header", "down", "done"} /\ cl[c].pc = "down" => cl[c].at = 0
      /\ pages = [i \in Indexes |-> Zero] /\ 0 \in Indexes
      /\ \A k \in Keys : ref[k] = 0
      /\ \A d \in Clients : cl[d].seen = 0
  BY MaxPagesNat DEF Unmapped, Blank, Rootless, Indexes
<1>3. /\ ~Descend(c) /\ ~FamilyUnderflow(c) /\ ~ReadLeaf(c) /\ ~Fetch(c) /\ ~Overwrite(c)
      /\ ~Place(c) /\ ~Split(c) /\ ~Write(c) /\ ~NewRoot(c) /\ ~SetRoot(c)
  <2>1. cl[c].pc = "down" => pages[cl[c].at].type = "zero"
    BY <1>2 DEF Zero
  <2>2. ~Descend(c) /\ ~FamilyUnderflow(c) /\ ~ReadLeaf(c)
    BY <2>1 DEF Descend, FamilyUnderflow, ReadLeaf
  <2>3. /\ ~Fetch(c) /\ ~Overwrite(c) /\ ~Place(c) /\ ~Split(c) /\ ~Write(c)
        /\ ~NewRoot(c) /\ ~SetRoot(c)
    BY <1>2 DEF Fetch, Overwrite, Place, Split, Write, NewRoot, SetRoot
  <2> QED
    BY <2>2, <2>3
<1>4. ref' = ref /\ Others(c) /\ cl'[c].seen = 0
  <2>1. CASE \E kind \in Kinds, k \in Keys : Begin(c, kind, k)
    <3>1. PICK kind \in Kinds, k \in Keys : Begin(c, kind, k)
      BY <2>1
    <3>2. ref' = ref
      BY <3>1 DEF Begin
    <3> QED
      BY <3>1, <3>2, <1>2, BeginTracked
  <2>2. CASE ReadHeader(c)
    <3>1. ref' = ref
      BY <2>2 DEF ReadHeader
    <3> QED
      BY <2>2, <3>1, <1>2, CursorCarries DEF Carries
  <2>3. CASE Invalid(c)
    <3>1. ref' = ref
      BY <2>3 DEF Invalid, Return
    <3> QED
      BY <2>3, <3>1, <1>2, CursorCarries DEF Carries
  <2>4. CASE End(c)
    <3>1. ref' = ref
      BY <2>4 DEF End
    <3> QED
      BY <2>4, <3>1, EndTracked DEF Idle
  <2> QED
    BY <2>1, <2>2, <2>3, <2>4, <1>3 DEF Cursor
<1> QED
  BY <1>1, <1>2, <1>4 DEF Unmapped, Others

\* The tree of a file that holds its first leaf, and nothing else.
LEMMA SeedMapped ==
    ASSUME NEW rf, \A k \in Keys : rf[k] = 0, NEW P, P[HEADER_INDEX] = Header(1), P[1] = Leaf(<<>>, 0, 0),
           NEW t, t = [page |-> P, height |-> 0, route |-> [l \in 0..0 |-> [k \in Keys |-> 1]],
                       own |-> [i \in Indexes |-> 0], live |-> {1}]
    PROVE  Mapped(t, rf)
<1>1. 1 \in Indexes \ {0}
  BY BoundAssumption DEF Indexes, MaxPages
<1>2. /\ t.height = 0 /\ t.live = {1} /\ t.page = P /\ \A k \in Keys : t.route[0][k] = 1
      /\ t.route \in [0..t.height -> [Keys -> t.live]]
  OBVIOUS
<1>3. Rooted(t, rf)
  <2>1. Present(rf) = {} /\ Cardinality({}) = 0
    BY FS_EmptySet DEF Present
  <2> QED
    BY <2>1, <1>1, <1>2 DEF Rooted, DecodeRoot, Header
<1>4. ASSUME NEW k \in Keys PROVE LeafHolds(t, rf, k)
  <2>1. PICK n : n = Node(t, 0, k)
    OBVIOUS
  <2>2. n = Leaf(<<>>, 0, 0)
    BY <2>1, <1>2 DEF Node
  <2>3. SoundLeaf(n) /\ n.keys = <<>>
    <3>1. <<>> \in Seq([key : Int, page : Nat]) /\ Len(<<>>) = 0 /\ 0 \in Nat
      OBVIOUS
    <3>2. \A i, j \in 1..Len(<<>>) : i < j => <<>>[i].key < <<>>[j].key
      BY <3>1
    <3> QED
      BY <3>1, <3>2, <2>2, LeafSound
  <2>4. Entries(n) = {} /\ ~Holds(n, k)
    BY <2>3 DEF Entries, Holds
  <2> QED
    BY <2>1, <2>3, <2>4 DEF LeafHolds
<1> QED
  <2>1. LeavesHold(t, rf)
    BY <1>4 DEF LeavesHold
  <2>2. 1..t.height = {} /\ \A i \in 0..t.height : i = 0
    BY <1>2
  <2>3. NodesLink(t, rf) /\ Nested(t)
    BY <2>2 DEF NodesLink, Nested
  <2>4. Leveled(t)
    BY <2>2 DEF Leveled
  <2>5. \A k \in Keys : Node(t, 0, k).keys = <<>> /\ Node(t, 0, k).next = 0
    BY <1>2 DEF Node, Leaf
  <2>6. Filled(t)
    <3>1. Len(<<>>) = 0 /\ ~(0 < t.height) /\ 0 <= MaxLen
      BY <1>2, LenAssumption
    <3> QED
      BY <2>2, <2>5, <3>1 DEF Filled
  <2>7. Convex(t) /\ Fronted(t) /\ Chained(t)
    BY <1>2, <2>5 DEF Convex, Fronted, Chained, LinksOn
  <2>8. Owned(t)
    <3>1. PICK k : k \in Keys
      BY KeysAssumption
    <3>2. 0 \in 0..t.height
      BY <1>2
    <3> QED
      BY <1>2, <3>1, <3>2 DEF Owned, IsNode
  <2> QED
    BY <1>3, <2>1, <2>3, <2>4, <2>6, <2>7, <2>8 DEF Mapped

LEMMA InitMapInv == Init => MapInv
<1> SUFFICES ASSUME Init PROVE MapInv
  OBVIOUS
<1>1. Tracked
  BY BudgetsAssumption DEF Init, Tracked, Idle, Busy
<1>2. /\ \A k \in Keys : ref[k] = 0
      /\ \A c \in Clients : cl[c] = Idle /\ read[c] = {} /\ wrote[c] = {}
  BY DEF Init
<1>3. CASE pages = [i \in Indexes |-> Zero]
  <2>1. Unmapped
    BY <1>2, <1>3 DEF Unmapped, Blank, Rootless, Idle
  <2> QED
    BY <2>1, <1>1 DEF MapInv
<1>4. CASE /\ last_index = 2
           /\ pages = [i \in Indexes |-> CASE i = HEADER_INDEX -> Header(1)
                                          [] i = 1 -> Leaf(<<>>, 0, 0)
                                          [] OTHER -> Zero]
  <2>1. pages[HEADER_INDEX] = Header(1) /\ pages[1] = Leaf(<<>>, 0, 0)
    BY <1>4, BoundAssumption DEF Indexes, MaxPages, HEADER_INDEX
  <2>2. PICK t : t = [page |-> pages, height |-> 0, route |-> [l \in 0..0 |-> [k \in Keys |-> 1]],
                      own |-> [i \in Indexes |-> 0], live |-> {1}]
    OBVIOUS
  <2>3. Mapped(t, ref)
    BY <2>1, <2>2, <1>2, SeedMapped
  <2>4. t.live = {1} /\ t.page = pages
    BY <2>2
  <2>5. Charted(t)
    <3>1. Claimed(t)
      BY <2>4, <1>4 DEF Claimed
    <3> QED
      BY <2>3, <2>4, <3>1, <1>2, <1>4 DEF Charted, Sited, Idle, Busy
  <2> QED
    BY <2>5, <1>1 DEF MapInv
<1> QED
  BY <1>3, <1>4 DEF Init

LEMMA MapStep == TreeInv /\ MapInv /\ [Next]_vars => MapInv'
<1> SUFFICES ASSUME TreeInv, MapInv, [Next]_vars, ~mangled', ~Conflict'
             PROVE  Unmapped' \/ (\E t : Charted(t))'
  BY TrackedStep DEF MapInv
<1>1. Tracked /\ ~mangled /\ ~Conflict
  BY MangledStays, ConflictStays DEF MapInv
<1>2. Unmapped \/ \E t : Charted(t)
  BY <1>1 DEF MapInv
<1>3. Framed /\ (Blank \/ \E low, edge : Shaped(low, edge))
  BY <1>1 DEF TreeInv
<1>4. DecodeRoot(pages[HEADER_INDEX]) # NotFound
  <2>1. CASE Blank
    BY <2>1, MaxPagesNat DEF Blank, DecodeRoot, Zero, NotFound, HEADER_INDEX, Indexes
  <2>2. CASE \E low, edge : Shaped(low, edge)
    <3>1. PICK low, edge : Shaped(low, edge)
      BY <2>2
    <3>2. DecodeRoot(pages[HEADER_INDEX]) \in 1..last_index - 1
      BY <3>1 DEF Shaped, PagesFit
    <3> QED
      BY <3>2 DEF NotFound
  <2> QED
    BY <1>3, <2>1, <2>2
<1>5. CASE UNCHANGED <<pages, last_index, cl, trace, ref>>
  <2>1. ASSUME NEW t, Charted(t) PROVE Charted(t)'
    BY <2>1, <1>5 DEF Charted, Claimed, trace
  <2>2. Unmapped => Unmapped'
    BY <1>5 DEF Unmapped, Blank
  <2> QED
    BY <2>1, <2>2, <1>2
<1>6. ASSUME NEW c \in Clients, Cursor(c) PROVE Unmapped' \/ (\E t : Charted(t))'
  <2>1. CASE Unmapped
    BY <2>1, <1>1, <1>3, <1>6, UnmappedStep
  <2>2. ASSUME NEW t, Charted(t) PROVE \E t2 : Charted(t2)'
    <3>1. PICK low, edge : Shaped(low, edge)
      BY <2>2, <1>1, ChartedShaped
    <3> QED
      BY <3>1, <2>2, <1>1, <1>3, <1>6, CursorCharted
  <2> QED
    BY <2>1, <2>2, <1>2
<1>7. Initialize \/ Done \/ UNCHANGED vars => UNCHANGED <<pages, last_index, cl, trace, ref>>
  BY <1>4 DEF Initialize, Done, vars
<1> QED
  BY <1>5, <1>6, <1>7 DEF Next

\* While no operation got in another's way and no node is mangled there is a
\* map of the tree that says where each key is, and every cursor is on it.
THEOREM MapInvariant == Spec => []MapInv
<1>1. Init => TreeInv /\ MapInv
  BY InitInv, InitMapInv
<1>2. (TreeInv /\ MapInv) /\ [Next]_vars => (TreeInv /\ MapInv)'
  BY StepInv, MapStep
<1> QED
  BY <1>1, <1>2, PTL DEF Spec

------------------------------------------------------------------------------
(* What a reader of the whole tree finds between operations.               *)

IdleClean == \A c \in Clients : cl[c].pc = "idle" => wrote[c] = {}

LEMMA IdleCleanStep == Tracked /\ IdleClean /\ [Next]_vars => IdleClean'
<1> SUFFICES ASSUME Tracked, IdleClean, [Next]_vars PROVE IdleClean'
  OBVIOUS
<1>1. CASE UNCHANGED <<cl, trace>>
  BY <1>1 DEF IdleClean, trace
<1>2. ASSUME NEW c \in Clients, Cursor(c) PROVE IdleClean'
  <2>1. CASE End(c)
    BY <2>1 DEF End, IdleClean, Tracked
  <2>2. CASE \E kind \in Kinds, k \in Keys : Begin(c, kind, k)
    BY <2>2 DEF Begin, IdleClean, Tracked, trace
  <2>3. CASE Fetch(c)
    BY <2>3 DEF Fetch, Reads, IdleClean, Tracked
  <2>4. ASSUME \/ ReadHeader(c) \/ Invalid(c) \/ Descend(c) \/ FamilyUnderflow(c) \/ ReadLeaf(c)
               \/ Overwrite(c) \/ Place(c) \/ Split(c) \/ Write(c) \/ NewRoot(c) \/ SetRoot(c)
        PROVE  IdleClean'
    <3>1. Others(c)
      BY <2>4, CursorCarries DEF Carries
    <3>2. \A d \in Clients : d # c => wrote'[d] = wrote[d]
      BY <2>4 DEF ReadHeader, Invalid, Descend, FamilyUnderflow, ReadLeaf, Overwrite, Place, Split, Write,
                  NewRoot, SetRoot, Reads, Written, Tracked
    <3>3. cl'[c].pc # "idle"
      <4>1. \A res : Return(c, res) => cl'[c].pc = "done"
        BY ReturnCarries
      <4>2. \A at, n, path, first : Settle(c, at, n, path, first) => cl'[c].pc \in {"write", "split"}
        BY SettleCarries
      <4>3. CASE ReadHeader(c)
        BY <4>3 DEF ReadHeader, Step, Idle, Tracked
      <4>4. CASE Descend(c)
        BY <4>4 DEF Descend, Step, Idle, Tracked
      <4>5. CASE ReadLeaf(c)
        BY <4>5, <4>1 DEF ReadLeaf, Step, Idle, Tracked
      <4>6. CASE Invalid(c) \/ FamilyUnderflow(c) \/ Overwrite(c) \/ SetRoot(c)
        <5>1. \E res : Return(c, res)
          BY <4>6 DEF Invalid, FamilyUnderflow, Overwrite, SetRoot
        <5> QED
          BY ONLY <5>1, <4>1
      <4>7. CASE Place(c)
        BY <4>7, <4>2 DEF Place
      <4>8. CASE Split(c) \/ NewRoot(c)
        BY <4>8 DEF Split, NewRoot, Step, Idle, Tracked
      <4>9. CASE Write(c)
        BY <4>9, <4>1, <4>2 DEF Write, Raise, Step, Idle, Tracked
      <4> QED
        BY <2>4, <4>3, <4>4, <4>5, <4>6, <4>7, <4>8, <4>9
    <3> QED
      BY <3>1, <3>2, <3>3 DEF IdleClean, Others
  <2> QED
    BY <1>2, <2>1, <2>2, <2>3, <2>4 DEF Cursor
<1>3. Initialize \/ Done \/ UNCHANGED vars => UNCHANGED <<cl, trace>>
  BY DEF Initialize, Done, vars
<1> QED
  BY <1>1, <1>2, <1>3 DEF Next

\* The function Lookup defines in its LET.
Way(k) ==
    CHOOSE at : at = [d \in Levels |->
        IF d = 0 THEN Root
        ELSE LET n == pages[at[d - 1]] IN
             IF n.type = "internal" THEN n.children[ChildPos(n, k)] ELSE at[d - 1]]

LEMMA LookupIsWay ==
    ASSUME NEW k
    PROVE  Lookup(k) = LET leaf == pages[Way(k)[Cardinality(Keys)]] IN
                       IF leaf.type = "leaf" /\ Holds(leaf, k)
                       THEN pages[leaf.keys[Below(leaf, k) + 1].page].val ELSE 0
  BY DEF Lookup, Way

\* A tree at rest is what its map says it is.
AtRest(t) ==
    /\ Mapped(t, ref) /\ ref \in [Keys -> Nat] /\ \A i \in Indexes : pages[i] = t.page[i]

LEMMA RestMoves ==
    ASSUME NEW t, AtRest(t), NEW l \in 0..t.height, NEW k \in Keys, NEW n, n = pages[t.route[l][k]]
    PROVE  /\ n = Node(t, l, k)
           /\ l # 0 => n.type = "internal" /\ n.children[ChildPos(n, k)] = t.route[l - 1][k]
           /\ l = 0 => n.type = "leaf"
<1>1. t.height \in Nat /\ t.route[l][k] \in Indexes
  BY RouteTyped DEF AtRest, Mapped, Rooted
<1>2. n = Node(t, l, k)
  BY <1>1 DEF AtRest, Node
<1>3. l # 0 => n.type = "internal" /\ n.children[ChildPos(n, k)] = t.route[l - 1][k]
  <2>1. l # 0 => l \in 1..t.height
    BY <1>1
  <2>2. l # 0 => NodeLinks(t, ref, l, k)
    BY <2>1 DEF AtRest, Mapped, NodesLink
  <2> QED
    BY <1>2, <2>2, NodeType DEF NodeLinks, AtRest
<1>4. l = 0 => n.type = "leaf"
  BY <1>2, NodeType DEF AtRest
<1> QED
  BY <1>2, <1>3, <1>4

LEMMA WayIs ==
    ASSUME NEW t, AtRest(t), NEW k \in Keys
    PROVE  Way(k)[Cardinality(Keys)] = t.route[0][k]
<1> DEFINE Turn(f, d) == IF d = 0 THEN Root
                         ELSE LET n == pages[f[d - 1]] IN
                              IF n.type = "internal" THEN n.children[ChildPos(n, k)] ELSE f[d - 1]
           g == [d \in Levels |-> IF d <= t.height THEN t.route[t.height - d][k] ELSE t.route[0][k]]
           f == Way(k)
<1>0. t.height \in Nat /\ Cardinality(Keys) \in Nat /\ t.height <= Cardinality(Keys)
  <2>1. Present(ref) \in SUBSET Keys /\ IsFiniteSet(Keys)
    BY KeysAssumption DEF Present
  <2>2. Cardinality(Present(ref)) <= Cardinality(Keys) /\ Cardinality(Keys) \in Nat
    BY <2>1, FS_Subset, FS_CardinalityType
  <2>3. Cardinality(Present(ref)) \in Nat
    BY <2>1, FS_Subset, FS_CardinalityType
  <2> QED
    BY <2>2, <2>3 DEF AtRest, Mapped, Rooted
<1>1. ASSUME NEW d \in Levels PROVE g[d] = Turn(g, d)
  <2>0. d \in Nat
    BY <1>0 DEF Levels
  <2>1. CASE d = 0
    <3>1. 0 \in Indexes
      BY MaxPagesNat DEF Indexes
    <3>2. Root = t.route[t.height][k]
      BY <3>1 DEF AtRest, Mapped, Rooted, Root, HEADER_INDEX
    <3>3. g[d] = t.route[t.height][k]
      BY <2>1, <1>0
    <3> QED
      BY <2>1, <3>2, <3>3
  <2>2. CASE d # 0 /\ d <= t.height
    <3>1. d - 1 \in Levels /\ d - 1 <= t.height /\ t.height - (d - 1) \in 0..t.height /\ t.height - (d - 1) # 0
          /\ (t.height - (d - 1)) - 1 = t.height - d
      BY <2>0, <2>2, <1>0 DEF Levels
    <3>2. PICK l : l = t.height - (d - 1)
      OBVIOUS
    <3>3. g[d - 1] = t.route[l][k]
      BY <3>1, <3>2
    <3>4. PICK n : n = pages[t.route[l][k]]
      OBVIOUS
    <3>5. n.type = "internal" /\ n.children[ChildPos(n, k)] = t.route[l - 1][k]
      BY <3>1, <3>2, <3>4, RestMoves
    <3>6. Turn(g, d) = t.route[l - 1][k]
      BY <2>2, <3>3, <3>4, <3>5
    <3>7. g[d] = t.route[t.height - d][k]
      BY <2>2
    <3> QED
      BY <3>1, <3>2, <3>6, <3>7
  <2>3. CASE ~(d <= t.height)
    <3>1. d # 0 /\ d - 1 \in Levels /\ (d - 1 <= t.height => t.height - (d - 1) = 0)
      BY <2>0, <2>3, <1>0 DEF Levels
    <3>2. g[d - 1] = t.route[0][k] /\ g[d] = t.route[0][k]
      BY <3>1, <2>3
    <3>3. PICK n : n = pages[t.route[0][k]]
      OBVIOUS
    <3>4. n.type = "leaf"
      <4>1. 0 \in 0..t.height
        BY <1>0
      <4> QED
        BY <4>1, <3>3, RestMoves
    <3>5. Turn(g, d) = t.route[0][k]
      BY <3>1, <3>2, <3>3, <3>4
    <3> QED
      BY <3>2, <3>5
  <2> QED
    BY <2>1, <2>2, <2>3
<1>2. g = [d \in Levels |-> Turn(g, d)]
  <2> HIDE DEF Turn
  <2> QED
    BY <1>1
<1>3. f = [d \in Levels |-> Turn(f, d)]
  BY <1>2 DEF Way
<1>4. \A d \in Levels : f[d] = Turn(f, d)
  <2> HIDE DEF Turn, f
  <2> QED
    BY <1>3
<1> DEFINE T == {d \in Levels : f[d] # g[d]}
<1>5. T = {}
  <2> SUFFICES ASSUME T # {} PROVE FALSE
    OBVIOUS
  <2>1. T \subseteq Nat
    BY DEF Levels
  <2>2. PICK d \in T : \A m \in T : d <= m
    BY <2>1, LeastNat
  <2>3. d # 0
    BY <1>1, <1>4, <2>2
  <2>4. d - 1 \in Levels /\ d - 1 < d /\ d \in Nat
    BY <2>1, <2>2, <2>3, <1>0 DEF Levels
  <2>5. d - 1 \notin T
    BY <2>2, <2>4
  <2>6. f[d - 1] = g[d - 1]
    BY <2>4, <2>5
  <2>7. Turn(f, d) = Turn(g, d)
    BY <2>3, <2>6
  <2>8. f[d] = g[d]
    BY <1>1, <1>4, <2>2, <2>7
  <2> QED
    BY <2>2, <2>8
<1>6. Cardinality(Keys) \in Levels
  BY <1>0 DEF Levels
<1>7. f[Cardinality(Keys)] = g[Cardinality(Keys)]
  <2> HIDE DEF f, g
  <2> QED
    BY <1>5, <1>6
<1>8. Cardinality(Keys) <= t.height => t.height - Cardinality(Keys) = 0
  BY <1>0
<1>9. g[Cardinality(Keys)] = t.route[0][k]
  BY <1>6, <1>8
<1> QED
  BY <1>7, <1>9

LEMMA RestFinds ==
    ASSUME NEW t, AtRest(t), NEW k \in Keys
    PROVE  Lookup(k) = ref[k]
<1>1. PICK n : n = pages[t.route[0][k]]
  OBVIOUS
<1>2. 0 \in 0..t.height
  BY DEF AtRest, Mapped, Rooted
<1>3. n = Node(t, 0, k) /\ n.type = "leaf"
  BY <1>1, <1>2, RestMoves
<1>4. Lookup(k) = IF Holds(n, k) THEN pages[n.keys[Below(n, k) + 1].page].val ELSE 0
  BY <1>1, <1>3, LookupIsWay, WayIs
<1>5. LeafHolds(t, ref, k)
  BY DEF AtRest, Mapped, LeavesHold
<1>6. Holds(n, k) <=> ref[k] # 0
  BY <1>3, <1>5 DEF LeafHolds
<1>7. CASE Holds(n, k)
  <2>1. PICK x : x = n.keys[Below(n, k) + 1].page
    OBVIOUS
  <2>2. x = ValuePage(t, k)
    BY <2>1, <1>3 DEF ValuePage
  <2>3. x \in t.live /\ t.page[x] = Value(ref[k])
    BY <2>2, <1>3, <1>7, ValueFound DEF AtRest
  <2>4. pages[x] = Value(ref[k])
    BY <2>3 DEF AtRest, Mapped, Rooted
  <2> QED
    BY <2>1, <2>4, <1>4, <1>7 DEF Value
<1>8. CASE ~Holds(n, k)
  BY <1>4, <1>6, <1>8
<1> QED
  BY <1>7, <1>8

\* Between operations nothing is under way, so the map is of the pages.
LEMMA QuietRests ==
    ASSUME TreeInv, MapInv, IdleClean, Quiet
    PROVE  \E t : AtRest(t) /\ Charted(t)
<1>1. ~mangled /\ Root # 0 /\ \A c \in Clients : cl[c].pc = "idle" /\ wrote[c] = {}
  BY DEF Quiet, IdleClean
<1>2. ~Conflict
  BY <1>1 DEF Conflict
<1>3. ~Unmapped
  BY <1>1, MaxPagesNat DEF Unmapped, Blank, Root, DecodeRoot, Zero, HEADER_INDEX, Indexes
<1>4. PICK t : Charted(t)
  BY <1>1, <1>2, <1>3 DEF MapInv
<1>5. AtRest(t)
  BY <1>1, <1>4 DEF AtRest, Charted, MapInv, Tracked
<1> QED
  BY <1>4, <1>5

THEOREM RestInvariant == Spec => [](TreeInv /\ MapInv /\ IdleClean)
<1>1. Init => TreeInv /\ MapInv /\ IdleClean
  BY InitInv, InitMapInv DEF Init, IdleClean
<1>2. (TreeInv /\ MapInv /\ IdleClean) /\ [Next]_vars => (TreeInv /\ MapInv /\ IdleClean)'
  BY StepInv, MapStep, IdleCleanStep DEF MapInv
<1> QED
  BY <1>1, <1>2, PTL DEF Spec

\* Between operations every key is found from the root with the value last
\* inserted under it.
THEOREM MapIsCorrect == Spec => []MapCorrect
<1>1. TreeInv /\ MapInv /\ IdleClean => MapCorrect
  BY QuietRests, RestFinds DEF MapCorrect
<1> QED
  BY <1>1, RestInvariant, PTL

\* A get that begins after an insertion of its key returned finds it.
THEOREM InsertedStaysFound == Spec => []InsertedIsFound
<1>1. MapInv => InsertedIsFound
  BY DEF MapInv, InsertedIsFound, Unmapped, Charted, Sited
<1> QED
  BY <1>1, MapInvariant, PTL

------------------------------------------------------------------------------
(* The nodes of a tree at rest, level by level.                            *)

NodesOn(t, l) == {t.route[l][k] : k \in Keys}

LEMMA RestRoot ==
    ASSUME NEW t, AtRest(t)
    PROVE  /\ t.height \in Nat /\ Cardinality(Keys) \in Nat /\ t.height <= Cardinality(Keys)
           /\ \A k \in Keys : t.route[t.height][k] = Root
<1>1. Present(ref) \in SUBSET Keys /\ IsFiniteSet(Keys)
  BY KeysAssumption DEF Present
<1>2. Cardinality(Present(ref)) <= Cardinality(Keys) /\ Cardinality(Keys) \in Nat
  BY <1>1, FS_Subset, FS_CardinalityType
<1>3. Cardinality(Present(ref)) \in Nat
  BY <1>1, FS_Subset, FS_CardinalityType
<1>4. 0 \in Indexes
  BY MaxPagesNat DEF Indexes
<1> QED
  BY <1>2, <1>3, <1>4 DEF AtRest, Mapped, Rooted, Root, HEADER_INDEX

Heirs(t, l, i) == {t.route[l - 1][q] : q \in {q \in Keys : t.route[l][q] = i}}

\* The children of a node are where its keys go next.
LEMMA RestChildren ==
    ASSUME NEW t, AtRest(t), NEW l \in 1..t.height, NEW k \in Keys, NEW i, i = t.route[l][k]
    PROVE  ChildrenOf(i) = Heirs(t, l, i)
<1>1. PICK n : n = pages[i]
  OBVIOUS
<1>2. t.height \in Nat /\ l \in 0..t.height /\ l # 0
  BY RestRoot
<1>3. /\ n = Node(t, l, k) /\ n.type = "internal" /\ SoundInternal(n)
      /\ \A q \in Keys : t.route[l][q] = i => n.children[ChildPos(n, q)] = t.route[l - 1][q]
  <2>1. n = Node(t, l, k) /\ n.type = "internal"
    BY <1>1, <1>2, RestMoves
  <2>2. SoundInternal(Node(t, l, k))
    BY <1>2, NodeType DEF AtRest
  <2>3. ASSUME NEW q \in Keys, t.route[l][q] = i PROVE n.children[ChildPos(n, q)] = t.route[l - 1][q]
    <3>1. n = pages[t.route[l][q]]
      BY <1>1, <2>3
    <3> QED
      BY <3>1, <1>2, RestMoves
  <2> QED
    BY <2>1, <2>2, <2>3
<1>4. n.children \in Seq(Nat) /\ Len(n.children) = Len(n.keys) + 1 /\ Len(n.keys) \in Nat
  BY <1>3, NodeFacts
<1>5. DOMAIN n.children = 1..Len(n.children)
  BY <1>4
<1>6. ChildrenOf(i) = {n.children[j] : j \in 1..Len(n.children)}
  BY <1>1, <1>3, <1>5 DEF ChildrenOf
<1>7. ASSUME NEW j \in 1..Len(n.children)
      PROVE  \E q \in Keys : t.route[l][q] = i /\ n.children[j] = t.route[l - 1][q]
  <2>1. NodeLinks(t, ref, l, k)
    BY DEF AtRest, Mapped, NodesLink
  <2>2. \E q \in Keys : t.route[l][q] = t.route[l][k] /\ ChildPos(n, q) = j
    BY <2>1, <1>3 DEF NodeLinks
  <2> QED
    BY <2>2, <1>3
<1>8. ASSUME NEW q \in Keys, t.route[l][q] = i
      PROVE  \E j \in 1..Len(n.children) : n.children[j] = t.route[l - 1][q]
  <2>1. ChildPos(n, q) \in 1..Len(n.children)
    BY <1>3, <1>4, ChildPosIs, KeysInt DEF IsChildOf
  <2> QED
    BY <2>1, <1>3, <1>8
<1> DEFINE S == {q \in Keys : t.route[l][q] = i}
<1>9. \A x \in ChildrenOf(i) : x \in {t.route[l - 1][q] : q \in S}
  BY <1>6, <1>7
<1>10. \A q \in S : t.route[l - 1][q] \in ChildrenOf(i)
  BY <1>6, <1>8
<1> QED
  <2> HIDE DEF S
  <2>1. ChildrenOf(i) = {t.route[l - 1][q] : q \in S}
    BY <1>9, <1>10
  <2> QED
    BY <2>1 DEF S, Heirs

LEMMA RestLeaf ==
    ASSUME NEW t, AtRest(t), NEW k \in Keys
    PROVE  /\ pages[t.route[0][k]] = Node(t, 0, k) /\ Node(t, 0, k).type = "leaf"
           /\ SoundLeaf(Node(t, 0, k)) /\ ChildrenOf(t.route[0][k]) = {}
<1>1. 0 \in 0..t.height
  BY RestRoot
<1>2. pages[t.route[0][k]] = Node(t, 0, k) /\ Node(t, 0, k).type = "leaf"
  BY <1>1, RestMoves
<1>3. SoundLeaf(Node(t, 0, k))
  BY <1>1, NodeType DEF AtRest
<1> QED
  BY <1>2, <1>3 DEF ChildrenOf

LEMMA LevelBelow ==
    ASSUME NEW t, AtRest(t), NEW l \in 0..t.height
    PROVE  UNION {ChildrenOf(i) : i \in NodesOn(t, l)} = IF l = 0 THEN {} ELSE NodesOn(t, l - 1)
<1>1. CASE l = 0
  <2>1. \A i \in NodesOn(t, l) : ChildrenOf(i) = {}
    BY <1>1, RestLeaf DEF NodesOn
  <2> QED
    BY <1>1, <2>1
<1>2. CASE l # 0
  <2>1. l \in 1..t.height
    BY <1>2, RestRoot
  <2>2. ASSUME NEW i \in NodesOn(t, l)
        PROVE  ChildrenOf(i) = Heirs(t, l, i)
    <3>1. PICK k \in Keys : i = t.route[l][k]
      BY DEF NodesOn
    <3> QED
      BY <3>1, <2>1, RestChildren
  <2>3. ASSUME NEW i \in NodesOn(t, l), NEW x \in ChildrenOf(i) PROVE x \in NodesOn(t, l - 1)
    BY <2>2, <2>3 DEF NodesOn, Heirs
  <2>4. ASSUME NEW x \in NodesOn(t, l - 1) PROVE \E i \in NodesOn(t, l) : x \in ChildrenOf(i)
    <3>1. PICK q \in Keys : x = t.route[l - 1][q]
      BY DEF NodesOn
    <3>2. PICK i : i = t.route[l][q]
      OBVIOUS
    <3>3. i \in NodesOn(t, l)
      BY <3>2 DEF NodesOn
    <3> QED
      BY <3>1, <3>2, <3>3, <2>2 DEF Heirs
  <2> QED
    BY <2>3, <2>4, <1>2
<1> QED
  BY <1>1, <1>2

\* The levels that the code's links spell out are those of the routes.
LEMMA LevelIs ==
    ASSUME NEW t, AtRest(t), NEW e \in Levels
    PROVE  Level[e] = IF e <= t.height THEN NodesOn(t, t.height - e) ELSE {}
<1> DEFINE Next1(f, d) == IF d = 0 THEN {Root} ELSE UNION {ChildrenOf(i) : i \in f[d - 1]}
           g == [d \in Levels |-> IF d <= t.height THEN NodesOn(t, t.height - d) ELSE {}]
<1>0. /\ t.height \in Nat /\ Cardinality(Keys) \in Nat /\ t.height <= Cardinality(Keys)
      /\ \A k \in Keys : t.route[t.height][k] = Root
  BY RestRoot
<1>1. ASSUME NEW d \in Levels PROVE g[d] = Next1(g, d)
  <2>0. d \in Nat
    BY <1>0 DEF Levels
  <2>1. CASE d = 0
    <3>1. d <= t.height /\ t.height - d = t.height
      BY <2>1, <1>0
    <3>2. g[d] = NodesOn(t, t.height)
      BY <3>1
    <3>3. NodesOn(t, t.height) = {Root}
      BY <1>0, KeysAssumption DEF NodesOn
    <3> QED
      BY <2>1, <3>2, <3>3
  <2>2. CASE d # 0 /\ d - 1 <= t.height
    <3>1. d - 1 \in Levels /\ t.height - (d - 1) \in 0..t.height
          /\ (t.height - (d - 1) = 0 <=> ~(d <= t.height))
          /\ (t.height - (d - 1)) - 1 = t.height - d
      BY <2>0, <2>2, <1>0 DEF Levels
    <3>2. PICK l : l = t.height - (d - 1)
      OBVIOUS
    <3>3. g[d - 1] = NodesOn(t, l)
      BY <3>1, <3>2, <2>2
    <3>4. Next1(g, d) = UNION {ChildrenOf(i) : i \in NodesOn(t, l)}
      BY <2>2, <3>3
    <3>5. UNION {ChildrenOf(i) : i \in NodesOn(t, l)} = IF l = 0 THEN {} ELSE NodesOn(t, l - 1)
      BY <3>1, <3>2, LevelBelow
    <3>6. g[d] = IF l = 0 THEN {} ELSE NodesOn(t, l - 1)
      BY <3>1, <3>2
    <3> QED
      BY <3>4, <3>5, <3>6
  <2>3. CASE d # 0 /\ ~(d - 1 <= t.height)
    <3>1. d - 1 \in Levels /\ ~(d <= t.height)
      BY <2>0, <2>3, <1>0 DEF Levels
    <3>2. g[d - 1] = {} /\ g[d] = {}
      BY <3>1, <2>3
    <3>3. Next1(g, d) = UNION {ChildrenOf(i) : i \in g[d - 1]}
      BY <2>3
    <3>4. {ChildrenOf(i) : i \in g[d - 1]} = {}
      BY <3>2
    <3>5. UNION {} = {}
      OBVIOUS
    <3> QED
      BY <3>2, <3>3, <3>4, <3>5
  <2> QED
    BY <2>1, <2>2, <2>3
<1>2. g = [d \in Levels |-> Next1(g, d)]
  <2> HIDE DEF Next1
  <2> QED
    BY <1>1
<1>3. Level = CHOOSE f : f = [d \in Levels |-> Next1(f, d)]
  BY DEF Level
<1>4. Level = [d \in Levels |-> Next1(Level, d)]
  <2> HIDE DEF Next1, g
  <2> QED
    BY <1>2, <1>3
<1>5. \A d \in Levels : Level[d] = Next1(Level, d)
  <2> HIDE DEF Next1
  <2> QED
    BY <1>4
<1> DEFINE T == {d \in Levels : Level[d] # g[d]}
<1>6. T = {}
  <2> SUFFICES ASSUME T # {} PROVE FALSE
    OBVIOUS
  <2>1. T \subseteq Nat
    BY DEF Levels
  <2>2. PICK d \in T : \A m \in T : d <= m
    BY <2>1, LeastNat
  <2>3. d # 0
    BY <1>1, <1>5, <2>2
  <2>4. d - 1 \in Levels /\ d - 1 < d /\ d \in Nat
    BY <2>1, <2>2, <2>3, <1>0 DEF Levels
  <2>5. d - 1 \notin T
    BY <2>2, <2>4
  <2>6. Level[d - 1] = g[d - 1]
    BY <2>4, <2>5
  <2>7. Next1(Level, d) = Next1(g, d)
    BY <2>3, <2>6
  <2>8. Level[d] = g[d]
    BY <1>1, <1>5, <2>2, <2>7
  <2> QED
    BY <2>2, <2>8
<1>7. Level[e] = g[e]
  <2> HIDE DEF g
  <2> QED
    BY <1>6
<1> QED
  BY <1>7

LEMMA RestNodes ==
    ASSUME NEW t, AtRest(t)
    PROVE  /\ TreeNodes = {i \in t.live : IsNode(t, i)}
           /\ Leaves = NodesOn(t, 0)
           /\ \A i \in Internals : \E l \in 1..t.height, k \in Keys : i = t.route[l][k]
           /\ t.height \in Levels /\ Level[t.height] = NodesOn(t, 0)
<1>0. t.height \in Nat /\ Cardinality(Keys) \in Nat /\ t.height <= Cardinality(Keys)
  BY RestRoot
<1>1. t.height \in Levels /\ Level[t.height] = NodesOn(t, 0)
  <2>1. t.height \in Levels /\ t.height <= t.height /\ t.height - t.height = 0
    BY <1>0 DEF Levels
  <2> QED
    BY <2>1, LevelIs
<1>2. ASSUME NEW d \in Levels, NEW i \in Level[d] PROVE IsNode(t, i)
  <2>1. d <= t.height /\ i \in NodesOn(t, t.height - d)
    BY <1>2, LevelIs
  <2>2. t.height - d \in 0..t.height
    BY <2>1, <1>0 DEF Levels
  <2> QED
    BY <2>1, <2>2 DEF NodesOn, IsNode
<1>3. ASSUME NEW l \in 0..t.height, NEW k \in Keys PROVE t.route[l][k] \in TreeNodes
  <2>1. t.height - l \in Levels /\ t.height - l <= t.height /\ t.height - (t.height - l) = l
    BY <1>0 DEF Levels
  <2>2. PICK d : d = t.height - l
    OBVIOUS
  <2>3. Level[d] = NodesOn(t, l)
    BY <2>1, <2>2, LevelIs
  <2>4. t.route[l][k] \in Level[d]
    BY <2>3 DEF NodesOn
  <2> QED
    BY <2>1, <2>2, <2>4 DEF TreeNodes
<1>4. ASSUME NEW i, IsNode(t, i) PROVE i \in t.live /\ i \in TreeNodes
  BY <1>3, <1>4, RouteTyped DEF IsNode, AtRest, Mapped
<1>5. TreeNodes = {i \in t.live : IsNode(t, i)}
  BY <1>2, <1>4 DEF TreeNodes
<1>6. ASSUME NEW l \in 0..t.height, NEW k \in Keys
      PROVE  /\ l = 0 => pages[t.route[l][k]].type = "leaf"
             /\ l # 0 => pages[t.route[l][k]].type = "internal"
  BY RestMoves
<1>7. Leaves = NodesOn(t, 0)
  <2>1. ASSUME NEW i \in Leaves PROVE i \in NodesOn(t, 0)
    <3>1. IsNode(t, i) /\ pages[i].type = "leaf"
      BY <1>5 DEF Leaves
    <3> QED
      BY <3>1, <1>6 DEF IsNode, NodesOn
  <2>2. ASSUME NEW i \in NodesOn(t, 0) PROVE i \in Leaves
    <3>1. 0 \in 0..t.height
      BY <1>0
    <3> QED
      BY <3>1, <1>3, <1>6 DEF NodesOn, Leaves
  <2> QED
    BY <2>1, <2>2
<1>8. ASSUME NEW i \in Internals PROVE \E l \in 1..t.height, k \in Keys : i = t.route[l][k]
  <2>1. IsNode(t, i) /\ pages[i].type = "internal"
    BY <1>5 DEF Internals
  <2>2. PICK l \in 0..t.height, k \in Keys : i = t.route[l][k]
    BY <2>1 DEF IsNode
  <2>3. l # 0
    BY <2>1, <2>2, <1>6
  <2>4. l \in 1..t.height
    BY <2>3, <1>0
  <2> QED
    BY <2>2, <2>4
<1> QED
  BY <1>1, <1>5, <1>7, <1>8

------------------------------------------------------------------------------
(* What its nodes hold then.                                               *)

LEMMA RestBalanced ==
    ASSUME NEW t, AtRest(t)
    PROVE  /\ \E d \in Levels : Leaves = Level[d]
           /\ \A i \in TreeNodes : Len(pages[i].keys) <= MaxLen
           /\ \A i \in Leaves \ {Root} : Len(pages[i].keys) >= MaxLen + 1 - Half(MaxLen + 1)
           /\ \A i \in Internals \ {Root} : Len(pages[i].keys) >= MaxLen - Half(MaxLen + 1)
<1>0. t.height \in Nat /\ \A k \in Keys : t.route[t.height][k] = Root
  BY RestRoot
<1>1. ASSUME NEW l \in 0..t.height, NEW k \in Keys, NEW i, i = t.route[l][k]
      PROVE  /\ Len(pages[i].keys) <= MaxLen
             /\ i # Root => Len(pages[i].keys) >= LeastLen(l)
  <2>1. pages[i] = Node(t, l, k)
    BY <1>1, RestMoves
  <2>2. i # Root => l < t.height
    BY <1>0, <1>1
  <2> QED
    BY <2>1, <2>2 DEF AtRest, Mapped, Filled
<1>2. \E d \in Levels : Leaves = Level[d]
  BY RestNodes
<1>3. \A i \in TreeNodes : Len(pages[i].keys) <= MaxLen
  BY <1>1, RestNodes DEF IsNode
<1>4. \A i \in Leaves \ {Root} : Len(pages[i].keys) >= MaxLen + 1 - Half(MaxLen + 1)
  <2>1. 0 \in 0..t.height
    BY <1>0
  <2> QED
    BY <2>1, <1>1, RestNodes DEF NodesOn, LeastLen
<1>5. \A i \in Internals \ {Root} : Len(pages[i].keys) >= MaxLen - Half(MaxLen + 1)
  <2>1. \A l \in 1..t.height : l \in 0..t.height /\ l # 0
    BY <1>0
  <2>2. ASSUME NEW i \in Internals, i # Root PROVE Len(pages[i].keys) >= MaxLen - Half(MaxLen + 1)
    <3>1. PICK l \in 1..t.height, k \in Keys : i = t.route[l][k]
      BY RestNodes
    <3>2. LeastLen(l) = MaxLen - Half(MaxLen + 1)
      BY <2>1 DEF LeastLen
    <3> QED
      BY <3>1, <3>2, <2>1, <2>2, <1>1
  <2> QED
    BY <2>2
<1> QED
  BY <1>2, <1>3, <1>4, <1>5

\* The first key of a leaf leads to it.
LEMMA FirstKey ==
    ASSUME NEW t, AtRest(t), t.height # 0, NEW i \in Leaves
    PROVE  KeyOf(pages[i], 1) \in Keys /\ t.route[0][KeyOf(pages[i], 1)] = i
<1>1. PICK k \in Keys : i = t.route[0][k]
  BY RestNodes DEF NodesOn
<1>2. PICK n : n = Node(t, 0, k)
  OBVIOUS
<1>3. pages[i] = n /\ SoundLeaf(n)
  BY <1>1, <1>2, RestLeaf
<1>4. Len(n.keys) >= 1
  <2>1. 0 \in 0..t.height /\ 0 < t.height
    BY RestRoot
  <2>2. Len(n.keys) >= LeastLen(0)
    BY <2>1, <1>2 DEF AtRest, Mapped, Filled
  <2>3. PICK m : m = MaxLen + 1
    OBVIOUS
  <2>4. PICK h : h = Half(m)
    OBVIOUS
  <2>5. LeastLen(0) \in Nat /\ LeastLen(0) >= 1
    BY <2>3, <2>4, HalfLeast
  <2>6. Len(n.keys) \in Nat
    BY <1>3, LeafFacts
  <2> QED
    BY <2>2, <2>5, <2>6
<1>5. 1 \in 1..Len(n.keys) /\ KeyOf(n, 1) = n.keys[1].key
  <2>1. Len(n.keys) \in Nat
    BY <1>3, LeafFacts
  <2>2. 1 \in 1..Len(n.keys)
    BY <1>4, <2>1
  <2> QED
    BY <2>2, <1>3, LeafFacts
<1>6. n.keys[1] \in Entries(n)
  BY <1>5 DEF Entries
<1>7. n.keys[1].key \in Keys /\ t.route[0][n.keys[1].key] = t.route[0][k]
  <2>1. LeafHolds(t, ref, k)
    BY DEF AtRest, Mapped, LeavesHold
  <2> QED
    BY <2>1, <1>2, <1>6 DEF LeafHolds
<1> QED
  BY <1>1, <1>3, <1>5, <1>7

LEMMA RestChain ==
    ASSUME NEW t, AtRest(t), NEW i \in Leaves,
           NEW next, next = pages[i].next,
           NEW later, later = {j \in Leaves : j # i /\ KeyOf(pages[j], 1) > KeyOf(pages[i], 1)}
    PROVE  IF next = 0 THEN later = {}
           ELSE next \in later /\ \A j \in later : KeyOf(pages[next], 1) <= KeyOf(pages[j], 1)
<1> DEFINE R(k) == t.route[0][k]
           F(j) == KeyOf(pages[j], 1)
<1>1. \A k \in Keys : R(k) \in Leaves /\ k \in Int
  BY RestNodes, KeysInt DEF NodesOn
<1>2. ASSUME NEW k \in Keys, R(k) = i
      PROVE  \/ next = 0 /\ \A q \in Keys : k < q => R(q) = i
             \/ \E q \in Keys : /\ k < q /\ R(q) = next /\ next # i
                                /\ \A r \in Keys : k < r /\ r < q => R(r) = i
  <2>1. Node(t, 0, k).next = next
    BY <1>2, RestLeaf
  <2>2. LinksOn(t, k)
    BY DEF AtRest, Mapped, Chained
  <2> QED
    BY <2>1, <2>2, <1>2 DEF LinksOn
<1>3. CASE t.height = 0
  <2>1. \A k \in Keys : R(k) = Root
    BY <1>3, RestRoot
  <2>2. \A j \in Leaves : j = Root
    BY <2>1, RestNodes DEF NodesOn
  <2>3. PICK k \in Keys : R(k) = i
    BY RestNodes DEF NodesOn
  <2>4. next = 0
    BY <2>1, <2>2, <2>3, <1>2
  <2> QED
    BY <2>2, <2>4
<1>4. CASE t.height # 0
  <2>1. \A j \in Leaves : F(j) \in Keys /\ R(F(j)) = j
    BY <1>4, FirstKey
  <2>2. \A a, b, c \in Keys : a < b /\ b < c /\ R(a) = R(c) => R(b) = R(a)
    BY DEF AtRest, Mapped, Convex
  <2>3. later = {j \in Leaves : j # i /\ F(j) > F(i)}
    OBVIOUS
  <2> HIDE DEF R, F
  <2>4. CASE next = 0 /\ \A q \in Keys : F(i) < q => R(q) = i
    <3>1. \A j \in later : F(i) < F(j) /\ F(j) \in Keys /\ R(F(j)) = j /\ j # i
      BY <2>1, <2>3, <1>1
    <3>2. later = {}
      BY <3>1, <2>4
    <3> QED
      BY <3>2, <2>4
  <2>5. ASSUME NEW q \in Keys, F(i) < q, R(q) = next, next # i,
               \A r \in Keys : F(i) < r /\ r < q => R(r) = i
        PROVE  next \in later /\ \A j \in later : F(next) <= F(j)
    <3>1. /\ next \in Leaves /\ F(next) \in Keys /\ R(F(next)) = next
          /\ F(i) \in Keys /\ R(F(i)) = i /\ F(i) \in Int /\ F(next) \in Int /\ q \in Int
      BY <2>1, <2>5, <1>1
    <3>2. F(next) > F(i)
      <4>1. F(next) # F(i)
        BY <3>1, <2>5
      <4>2. ~(F(next) < F(i))
        <5>1. SUFFICES ASSUME F(next) < F(i) PROVE FALSE
          OBVIOUS
        <5>2. R(F(i)) = R(F(next))
          BY <5>1, <3>1, <2>2, <2>5
        <5> QED
          BY <5>2, <3>1, <2>5
      <4> QED
        BY <4>1, <4>2, <3>1
    <3>3. next \in later
      BY <3>1, <3>2, <2>3, <2>5
    <3>4. ASSUME NEW j \in later PROVE F(next) <= F(j)
      <4>1. SUFFICES ASSUME ~(F(next) <= F(j)) PROVE FALSE
        OBVIOUS
      <4>2. j # i /\ F(j) > F(i) /\ F(j) \in Keys /\ R(F(j)) = j /\ F(j) \in Int
        BY <2>1, <2>3, <1>1
      <4>3. F(j) < F(next) /\ j # next
        BY <4>1, <4>2, <3>1
      <4>4. ~(F(j) < q)
        BY <4>2, <2>5
      <4>5. F(j) # q
        BY <4>2, <4>3, <2>5
      <4>6. q < F(j)
        BY <4>2, <4>4, <4>5, <3>1
      <4>7. R(F(j)) = R(q)
        BY <4>2, <4>3, <4>6, <3>1, <2>2, <2>5
      <4> QED
        BY <4>2, <4>3, <4>7, <2>5
    <3> QED
      BY <3>3, <3>4
  <2>6. next # 0 => \E q \in Keys : /\ F(i) < q /\ R(q) = next /\ next # i
                                    /\ \A r \in Keys : F(i) < r /\ r < q => R(r) = i
    BY <2>1, <1>2
  <2>7. next = 0 => \A q \in Keys : F(i) < q => R(q) = i
    <3>1. \A q \in Keys : R(q) # 0
      <4>1. \A q \in Keys : t.route[0][q] # 0
        BY RestRoot, RouteTyped DEF AtRest, Mapped
      <4> QED
        BY <4>1 DEF R
    <3> QED
      BY <3>1, <2>1, <1>2
  <2>8. next # 0 => next \in later /\ \A j \in later : F(next) <= F(j)
    BY <2>5, <2>6
  <2>9. next = 0 => later = {}
    BY <2>4, <2>7
  <2> QED
    BY <2>8, <2>9 DEF F
<1> QED
  BY <1>3, <1>4

LEMMA RestValues ==
    ASSUME NEW t, AtRest(t), NEW i \in Leaves, NEW x \in ValuePages(i)
    PROVE  /\ t.route[0][t.own[x]] = i /\ x \in t.live /\ pages[x].type = "value"
<1>1. PICK k \in Keys : i = t.route[0][k]
  BY RestNodes DEF NodesOn
<1>2. PICK n : n = Node(t, 0, k)
  OBVIOUS
<1>3. pages[i] = n /\ SoundLeaf(n)
  BY <1>1, <1>2, RestLeaf
<1>4. DOMAIN n.keys = 1..Len(n.keys)
  BY <1>3, LeafFacts
<1>5. PICK e \in Entries(n) : e.page = x
  BY <1>3, <1>4 DEF ValuePages, Entries
<1>6. /\ e.key \in Keys /\ t.route[0][e.key] = t.route[0][k]
      /\ x \in t.live /\ t.own[x] = e.key /\ t.page[x] = Value(ref[e.key])
  <2>1. LeafHolds(t, ref, k)
    BY DEF AtRest, Mapped, LeavesHold
  <2> QED
    BY <2>1, <1>2, <1>5 DEF LeafHolds
<1>7. pages[x] = t.page[x]
  BY <1>6 DEF AtRest, Mapped, Rooted
<1> QED
  BY <1>1, <1>6, <1>7 DEF Value

LEMMA ValueOfLeaf ==
    ASSUME NEW t, AtRest(t), NEW x, IsValue(t, x)
    PROVE  \E i \in Leaves : x \in ValuePages(i)
<1>1. PICK k \in Keys : \E e \in Entries(Node(t, 0, k)) : e.page = x
  BY DEF IsValue
<1>2. PICK n : n = Node(t, 0, k)
  OBVIOUS
<1>3. PICK i : i = t.route[0][k]
  OBVIOUS
<1>4. pages[i] = n /\ SoundLeaf(n) /\ i \in Leaves
  BY <1>2, <1>3, RestLeaf, RestNodes DEF NodesOn
<1>5. DOMAIN n.keys = 1..Len(n.keys)
  BY <1>4, LeafFacts
<1>6. PICK j \in 1..Len(n.keys) : n.keys[j].page = x
  BY <1>1, <1>2 DEF Entries
<1> QED
  BY <1>4, <1>5, <1>6 DEF ValuePages

LEMMA RestOwned ==
    ASSUME NEW t, AtRest(t), t.live = 1..last_index - 1, last_index \in Nat \ {0}
    PROVE  /\ Cardinality(TreeNodes) + Cardinality(UNION {ValuePages(i) : i \in Leaves}) + 1 = last_index
           /\ \A i, j \in Leaves : i # j => ValuePages(i) \cap ValuePages(j) = {}
           /\ \A i, j \in Internals : i # j => ChildrenOf(i) \cap ChildrenOf(j) = {}
<1>1. PICK S : S = TreeNodes
  OBVIOUS
<1>2. PICK V : V = UNION {ValuePages(i) : i \in Leaves}
  OBVIOUS
<1>3. S = {i \in t.live : IsNode(t, i)}
  BY <1>1, RestNodes
<1>4. \A x \in V : x \in t.live /\ pages[x].type = "value"
  BY <1>2, RestValues
<1>5. t.live = S \cup V
  <2>1. \A x \in t.live : IsNode(t, x) \/ IsValue(t, x)
    BY DEF AtRest, Mapped, Owned
  <2>2. \A x : IsValue(t, x) => x \in V
    BY <1>2, ValueOfLeaf
  <2> QED
    BY <2>1, <2>2, <1>3, <1>4
<1>6. S \cap V = {}
  <2>1. ASSUME NEW x \in S PROVE pages[x].type # "value"
    <3>1. PICK l \in 0..t.height, k \in Keys : x = t.route[l][k]
      BY <1>3, <2>1 DEF IsNode
    <3>2. /\ l = 0 => pages[x].type = "leaf"
          /\ l # 0 => pages[x].type = "internal"
      BY <3>1, RestMoves
    <3> QED
      BY <3>2
  <2> QED
    BY <2>1, <1>4
<1>7. Cardinality(S) + Cardinality(V) + 1 = last_index
  <2>1. IsFiniteSet(t.live) /\ Cardinality(t.live) = last_index - 1
    <3>1. last_index - 1 \in Int /\ 1 \in Int
      OBVIOUS
    <3>2. /\ IsFiniteSet(1..last_index - 1)
          /\ Cardinality(1..last_index - 1) = IF 1 > last_index - 1 THEN 0 ELSE (last_index - 1) - 1 + 1
      BY <3>1, FS_Interval
    <3>3. (IF 1 > last_index - 1 THEN 0 ELSE (last_index - 1) - 1 + 1) = last_index - 1
      OBVIOUS
    <3> QED
      BY <3>2, <3>3
  <2>2. IsFiniteSet(S) /\ IsFiniteSet(V)
    BY <2>1, <1>5, FS_Subset
  <2>3. Cardinality(S) \in Nat /\ Cardinality(V) \in Nat
    BY <2>2, FS_CardinalityType
  <2>4. Cardinality(S \cup V) = Cardinality(S) + Cardinality(V) - Cardinality(S \cap V)
    BY <2>2, FS_Union
  <2>5. Cardinality(S \cap V) = 0
    BY <1>6, FS_EmptySet
  <2>6. PICK a, b, e : a = Cardinality(S) /\ b = Cardinality(V) /\ e = Cardinality(S \cup V)
    OBVIOUS
  <2>7. e = last_index - 1
    BY <2>1, <2>6, <1>5, Zenon
  <2>8. e = a + b - 0
    BY <2>4, <2>5, <2>6, Zenon
  <2>9. a \in Nat /\ b \in Nat
    BY <2>3, <2>6
  <2>10. a + b + 1 = last_index
    BY ONLY <2>7, <2>8, <2>9, last_index \in Nat \ {0}
  <2> QED
    BY <2>6, <2>10, Zenon
<1>8. ASSUME NEW i \in Leaves, NEW j \in Leaves, i # j PROVE ValuePages(i) \cap ValuePages(j) = {}
  BY <1>8, RestValues
<1>9. ASSUME NEW i \in Internals, NEW j \in Internals, NEW x \in ChildrenOf(i), x \in ChildrenOf(j) PROVE i = j
  <2>1. PICK a \in 1..t.height, p \in Keys : i = t.route[a][p]
    BY RestNodes
  <2>2. PICK b \in 1..t.height, q \in Keys : j = t.route[b][q]
    BY RestNodes
  <2>3. ChildrenOf(i) = Heirs(t, a, i)
    BY <2>1, RestChildren
  <2>4. ChildrenOf(j) = Heirs(t, b, j)
    BY <2>2, RestChildren
  <2>5. PICK p2 \in Keys : t.route[a][p2] = i /\ x = t.route[a - 1][p2]
    BY <2>3, <1>9 DEF Heirs
  <2>6. PICK q2 \in Keys : t.route[b][q2] = j /\ x = t.route[b - 1][q2]
    BY <2>4, <1>9 DEF Heirs
  <2>7. a - 1 \in 0..t.height /\ b - 1 \in 0..t.height /\ a \in Int /\ b \in Int
    BY RestRoot
  <2>8. a - 1 = b - 1
    <3>1. Leveled(t)
      BY DEF AtRest, Mapped
    <3> QED
      BY ONLY <3>1, <2>5, <2>6, <2>7 DEF Leveled
  <2>9. a = b
    BY <2>7, <2>8
  <2>10. \A k1, k2 \in Keys : t.route[a - 1][k1] = t.route[a - 1][k2] => t.route[a][k1] = t.route[a][k2]
    BY DEF AtRest, Mapped, Nested
  <2>11. t.route[a][q2] = j /\ x = t.route[a - 1][q2]
    BY <2>6, <2>9, Zenon
  <2> QED
    BY <2>5, <2>10, <2>11, Zenon
<1>10. \A i, j \in Internals : i # j => ChildrenOf(i) \cap ChildrenOf(j) = {}
  BY <1>9
<1> QED
  BY <1>1, <1>2, <1>7, <1>8, <1>10

\* Between operations all leaves are on one level, no node is too long and none
\* but the root shorter than a split leaves it.
THEOREM AlwaysBalanced == Spec => []Balanced
<1>1. TreeInv /\ MapInv /\ IdleClean => Balanced
  BY QuietRests, RestBalanced DEF Balanced
<1> QED
  BY <1>1, RestInvariant, PTL

\* Between operations the leaves are chained in the order of their keys.
THEOREM LeavesChained == Spec => []LeafChain
<1>1. TreeInv /\ MapInv /\ IdleClean /\ Quiet =>
        \A i \in Leaves :
          LET next == pages[i].next
              later == {j \in Leaves : j # i /\ KeyOf(pages[j], 1) > KeyOf(pages[i], 1)}
          IN  IF next = 0 THEN later = {}
              ELSE next \in later /\ \A j \in later : KeyOf(pages[next], 1) <= KeyOf(pages[j], 1)
  BY QuietRests, RestChain
<1>2. TreeInv /\ MapInv /\ IdleClean => LeafChain
  BY <1>1 DEF LeafChain
<1> QED
  BY <1>2, RestInvariant, PTL

\* Between operations each page that was handed out is a node with one parent
\* or the value of one key: none leaks, none is shared.
THEOREM OwnedOnce == Spec => []PagesOwnedOnce
<1>1. ASSUME TreeInv, MapInv, IdleClean, Quiet
      PROVE  \E t : AtRest(t) /\ t.live = 1..last_index - 1 /\ last_index \in Nat \ {0}
  <2>1. PICK t : AtRest(t) /\ Charted(t)
    BY <1>1, QuietRests
  <2>2. \A c \in Clients : ~Busy(cl[c])
    BY <1>1 DEF Quiet, Busy
  <2>3. t.live = 1..last_index - 1
    BY <2>1, <2>2 DEF Charted, Claimed
  <2>4. last_index \in Int
    BY <1>1, MaxPagesNat DEF TreeInv, Framed, Quiet
  <2>5. Root \in t.live
    <3>1. PICK k : k \in Keys
      BY KeysAssumption
    <3>2. t.height \in 0..t.height /\ t.route[t.height][k] = Root
      BY <2>1, <3>1, RestRoot
    <3> QED
      BY <2>1, <3>1, <3>2, RouteTyped DEF AtRest, Mapped
  <2>6. last_index \in Nat \ {0}
    BY <2>3, <2>4, <2>5
  <2> QED
    BY <2>1, <2>3, <2>6
<1>2. TreeInv /\ MapInv /\ IdleClean => PagesOwnedOnce
  BY <1>1, RestOwned DEF PagesOwnedOnce
<1> QED
  BY <1>2, RestInvariant, PTL

------------------------------------------------------------------------------
(* How a node gets out of order.                                           *)

Flag == mangled \in BOOLEAN

LEMMA MangledStep ==
    mangled \in BOOLEAN /\ [Next]_vars =>
        /\ mangled' \in BOOLEAN
        /\ mangled' # mangled => ~mangled /\ \E c \in Clients : Split(c) \/ Write(c)
<1> SUFFICES ASSUME mangled \in BOOLEAN, [Next]_vars
             PROVE  /\ mangled' \in BOOLEAN
                    /\ mangled' # mangled => ~mangled /\ \E c \in Clients : Split(c) \/ Write(c)
  OBVIOUS
<1>1. ASSUME NEW c \in Clients, Cursor(c)
      PROVE  mangled' = mangled \/ Split(c) \/ Write(c)
  BY <1>1 DEF Cursor, Begin, ReadHeader, Invalid, Descend, FamilyUnderflow, ReadLeaf, Fetch, Overwrite,
              Place, NewRoot, SetRoot, End
<1>2. Initialize \/ Done \/ UNCHANGED vars => mangled' = mangled
  BY DEF Initialize, Done, vars
<1>3. ASSUME NEW c \in Clients, Split(c) \/ Write(c)
      PROVE  mangled' \in BOOLEAN /\ (mangled => mangled' = mangled)
  <2>1. PICK s : mangled' = (mangled \/ ~Ordered(s))
    BY <1>3 DEF Split, Write
  <2> QED
    BY <2>1
<1>4. mangled' = mangled \/ \E c \in Clients : Split(c) \/ Write(c)
  BY <1>1, <1>2 DEF Next
<1> QED
  BY <1>3, <1>4

LEMMA UndercutWrites ==
    ASSUME TreeInv, MapInv, ~mangled, ~Conflict, NEW c \in Clients, Split(c) \/ Write(c), mangled' # mangled,
           mangled \in BOOLEAN
    PROVE  /\ cl[c].pc = "write" /\ cl[c].node.type = "internal"
           /\ \A k \in Keys : ref[k] # 0 => cl[c].key < k
<1> DEFINE o == cl[c]
<1>1. o.pc \in {"split", "write"}
  BY DEF Split, Write
<1>2. Tracked /\ ~Unmapped
  BY <1>1 DEF MapInv, Unmapped, Blank, Rootless
<1>3. PICK t : Charted(t)
  BY <1>2 DEF MapInv
<1>4. o.key \in Keys
  BY <1>1, <1>2 DEF Tracked, Busy
<1>5. Mapped(t, ref) /\ Sited(t, pages, ref, o, read[c], wrote[c])
  BY <1>3 DEF Charted
<1>6. ~Split(c)
  <2>1. SUFFICES ASSUME Split(c) PROVE FALSE
    OBVIOUS
  <2>2. o.pc = "split" /\ mangled' = (mangled \/ ~Ordered(KeysOf(o.right)))
    BY <2>1 DEF Split
  <2>3. Ordered(KeysOf(o.right))
    BY <2>2, <1>5 DEF Sited
  <2> QED
    BY <2>2, <2>3
<1>7. o.pc = "write" /\ ~Ordered(KeysOf(o.node))
  BY <1>6 DEF Write
<1>8. ASSUME NEW l, NEW ch, AtWhole(t, pages, ref, o, read[c], wrote[c], l, ch) PROVE FALSE
  <2>1. /\ l \in 0..t.height /\ Climbed(t, pages, ref, o.key, o.val, ch, l)
        /\ o.node = Raised(t, o.key, ch, l)
    BY <1>8 DEF AtWhole, OnPath
  <2>2. PICK at \in Nat : TRUE
    OBVIOUS
  <2>3. Ordered(KeysOf(o.node))
    BY <2>1, <2>2, <1>5, HalvesOrdered
  <2> QED
    BY <2>3, <1>7
<1>9. ASSUME NEW l, NEW ch, AtHalf(t, pages, ref, o, read[c], wrote[c], l, ch) PROVE FALSE
  <2>1. PICK m : m = Raised(t, o.key, ch, l)
    OBVIOUS
  <2>2. /\ l \in 0..t.height /\ Climbed(t, pages, ref, o.key, o.val, ch, l)
        /\ Len(m.keys) > MaxLen /\ o.new \in Fresh(t) /\ o.node = LeftOf(m, o.new)
    BY <2>1, <1>9 DEF AtHalf, OnPath
  <2>3. o.new \in Nat
    BY <2>2, MaxPagesNat DEF Fresh, Indexes
  <2>4. Ordered(KeysOf(o.node))
    BY <2>1, <2>2, <2>3, <1>5, HalvesOrdered
  <2> QED
    BY <2>4, <1>7
<1>10. Undercut(t, ref, o, read[c])
  BY <1>5, <1>7, <1>8, <1>9 DEF Sited
<1>11. o.node.type = "internal"
  BY <1>10 DEF Undercut, Doomed, InternalNodes
<1>12. ASSUME NEW k \in Keys, ref[k] # 0 PROVE o.key < k
  <2>1. ~(k <= o.key)
    BY <1>10, <1>12 DEF Undercut, Least
  <2> QED
    BY <2>1, <1>4, KeysInt
<1> QED
  BY <1>7, <1>11, <1>12

\* While no two operations are in each other's way a node gets out of order in
\* one way only: an internal node takes a new minimum, the key of an insertion
\* that is below every key of the tree.
THEOREM OnlyNewMinimumMangles == Spec => MangledByNewMinimum
<1>1. Init => Flag
  BY DEF Init, Flag
<1>2. Flag /\ [Next]_vars => Flag'
  BY MangledStep DEF Flag
<1>3. TreeInv /\ MapInv /\ Flag /\ [Next]_vars =>
        [mangled' # mangled /\ ~Conflict =>
           \E c \in Clients :
             /\ cl[c].pc = "write" /\ cl[c].node.type = "internal"
             /\ \A k \in Keys : ref[k] # 0 => cl[c].key < k]_vars
  <2> SUFFICES ASSUME TreeInv, MapInv, mangled \in BOOLEAN, [Next]_vars, mangled' # mangled, ~Conflict
               PROVE  \E c \in Clients :
                        /\ cl[c].pc = "write" /\ cl[c].node.type = "internal"
                        /\ \A k \in Keys : ref[k] # 0 => cl[c].key < k
    BY DEF Flag
  <2>1. ~mangled /\ \E c \in Clients : Split(c) \/ Write(c)
    BY MangledStep
  <2>2. PICK c \in Clients : Split(c) \/ Write(c)
    BY <2>1
  <2> QED
    BY <2>1, <2>2, UndercutWrites
<1> QED
  BY <1>1, <1>2, <1>3, TreeInvariant, MapInvariant, PTL DEF Spec, MangledByNewMinimum
==============================================================================
