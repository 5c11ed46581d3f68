---------------------------- MODULE LinkedCache -----------------------------
(***************************************************************************)
(* buffer/lru.rs over buffer/list.rs: LRUCache<K, V>, a hash table of raw  *)
(* pointers to boxed nodes that are linked, oldest first, in a list.  A    *)
(* node is an address; `box` holds what is allocated there, `table` the    *)
(* pointer of each key, and `list` the links, which outlive the box as     *)
(* whatever the allocator leaves there (Nil here).                         *)
(***************************************************************************)
EXTENDS Sequences, Integers, FiniteSets

CONSTANTS
  Keys, Values, NoValue,
  Nodes,   \* addresses the allocator hands out, a freed one again
  Nil      \* the pointer None, and an address with no box


VARIABLES box, table, list, ret
vars == <<box, table, list, ret>>

Bucket == [key : Keys, value : Values]

ASSUME NilAssumption == Nil \notin Nodes \cup Bucket
ASSUME NodesAssumption == IsFiniteSet(Nodes)

EmptyList == [head |-> Nil, tail |-> Nil, len |-> 0,
              next |-> [n \in Nodes |-> Nil], prev |-> [n \in Nodes |-> Nil]]

Init ==
  /\ box = [n \in Nodes |-> Nil]
  /\ table = [k \in Keys |-> Nil]
  /\ list = EmptyList
  /\ ret = NoValue

-----------------------------------------------------------------------------
(* DoubleLinkedList                                                        *)

(* push_back: the node's own links are overwritten, whatever they held.    *)
PushBack(l, n) ==
  [head |-> IF l.tail = Nil THEN n ELSE l.head,
   tail |-> n,
   len  |-> l.len + 1,
   next |-> [m \in Nodes |-> IF m = n THEN Nil ELSE IF m = l.tail THEN n ELSE l.next[m]],
   prev |-> [l.prev EXCEPT ![n] = l.tail]]

(* Mutant of Unlink: the successor still points back.                      *)
UnlinkOneWay(l, n) ==
  LET p == l.prev[n]  s == l.next[n] IN
    [head |-> IF p = Nil THEN s ELSE l.head,
     tail |-> IF s = Nil THEN p ELSE l.tail,
     len  |-> l.len - 1,
     next |-> [m \in Nodes |-> IF m = p THEN s ELSE l.next[m]],
     prev |-> l.prev]

(* remove: the neighbours are joined, the node keeps its links.            *)
Unlink(l, n) ==
  LET p == l.prev[n]  s == l.next[n] IN
    [head |-> IF p = Nil THEN s ELSE l.head,
     tail |-> IF s = Nil THEN p ELSE l.tail,
     len  |-> l.len - 1,
     next |-> [m \in Nodes |-> IF m = p THEN s ELSE l.next[m]],
     prev |-> [m \in Nodes |-> IF m = s THEN p ELSE l.prev[m]]]

(* Entries::move_back                                                      *)
MoveBack(l, n) == PushBack(Unlink(l, n), n)

(* pop_front of a list that is not empty.                                  *)
PopFront(l) ==
  LET s == l.next[l.head] IN
    [head |-> s,
     tail |-> IF s = Nil THEN Nil ELSE l.tail,
     len  |-> l.len - 1,
     next |-> l.next,
     prev |-> [m \in Nodes |-> IF m = s THEN Nil ELSE l.prev[m]]]

Forget(l, n) == [l EXCEPT !.next[n] = Nil, !.prev[n] = Nil]

-----------------------------------------------------------------------------
(* LRUCache                                                                *)

Has(k) == table[k] # Nil
Found(k) == IF Has(k) THEN box[table[k]].value ELSE NoValue

Get(k) ==
  /\ ret' = Found(k)
  /\ list' = IF Has(k) THEN MoveBack(list, table[k]) ELSE list
  /\ UNCHANGED <<box, table>>

GetOnly(k) == ret' = Found(k) /\ UNCHANGED <<box, table, list>>

GetMut(k, v) ==
  /\ ret' = Found(k)
  /\ box' = IF Has(k) THEN [box EXCEPT ![table[k]].value = v] ELSE box
  /\ UNCHANGED <<table, list>>

(* new_ptr, insert_in_slot and Entries::add.                               *)
Allocate(k, v) ==
  \E n \in Nodes :
    /\ box[n] = Nil
    /\ box' = [box EXCEPT ![n] = [key |-> k, value |-> v]]
    /\ table' = [table EXCEPT ![k] = n]
    /\ list' = PushBack(list, n)

(* Mutant of Replace: a new value that is not a use.                       *)
ReplaceInPlace(k, v) ==
  /\ box' = [box EXCEPT ![table[k]].value = v]
  /\ UNCHANGED <<table, list>>

Replace(k, v) ==
  /\ list' = MoveBack(list, table[k])
  /\ box' = [box EXCEPT ![table[k]].value = v]
  /\ UNCHANGED table

Insert(k, v) ==
  /\ ret' = Found(k)
  /\ (Has(k) /\ Replace(k, v)) \/ (~Has(k) /\ Allocate(k, v))

(* Mutant of Release: the entry of the key left in the hash table.         *)
ReleaseKeepsEntry(k) ==
  /\ list' = Forget(Unlink(list, table[k]), table[k])
  /\ box' = [box EXCEPT ![table[k]] = Nil]
  /\ UNCHANGED table

(* remove_entry, Entries::remove and the box turned back into its bucket.  *)
Release(k) ==
  /\ table' = [table EXCEPT ![k] = Nil]
  /\ list' = Forget(Unlink(list, table[k]), table[k])
  /\ box' = [box EXCEPT ![table[k]] = Nil]

Remove(k) ==
  /\ ret' = Found(k)
  /\ (Has(k) /\ Release(k)) \/ (~Has(k) /\ UNCHANGED <<box, table, list>>)

Oldest == box[list.head]

(* pop_old hashes the key found in the oldest node to remove its entry.    *)
PopOld ==
  \/ list.head = Nil /\ ret' = NoValue /\ UNCHANGED <<box, table, list>>
  \/ /\ list.head # Nil
     /\ ret' = <<Oldest.key, Oldest.value>>
     /\ Release(Oldest.key)

PeekOld ==
  /\ ret' = IF list.head = Nil THEN NoValue ELSE <<Oldest.key, Oldest.value>>
  /\ UNCHANGED <<box, table, list>>

(* entry(k).and_modify(|x| *x = v).or_insert(v)                            *)
Modify(k, v) ==
  /\ ret' = v
  /\ (Has(k) /\ Replace(k, v)) \/ (~Has(k) /\ Allocate(k, v))

(* entry(k).or_insert(v)                                                   *)
OrInsert(k, v) ==
  \/ Has(k) /\ ret' = Found(k) /\ UNCHANGED <<box, table, list>>
  \/ ~Has(k) /\ ret' = v /\ Allocate(k, v)

(* What a number of turns of Drop's loop leave of the cache c.             *)
FreeOne(c) ==
  IF c.list.head = Nil THEN c
  ELSE [list |-> Forget(PopFront(c.list), c.list.head), box |-> [c.box EXCEPT ![c.list.head] = Nil]]

Turns(c) ==
  LET after[i \in 0..Cardinality(Nodes)] == IF i = 0 THEN c ELSE FreeOne(after[i - 1])
  IN  after

(* Drop: pop_front until it returns None frees the boxes; the hash table   *)
(* frees no pointer.  The next cache starts from nothing.                  *)
Drop ==
  /\ LET c == Turns([list |-> list, box |-> box])[Cardinality(Nodes)]
     IN  list' = c.list /\ box' = c.box
  /\ table' = [k \in Keys |-> Nil]
  /\ ret' = NoValue

Next ==
  \/ \E k \in Keys : Get(k) \/ GetOnly(k) \/ Remove(k)
  \/ \E k \in Keys, v \in Values :
       GetMut(k, v) \/ Insert(k, v) \/ Modify(k, v) \/ OrInsert(k, v)
  \/ PopOld \/ PeekOld \/ Drop

Spec == Init /\ [][Next]_vars

-----------------------------------------------------------------------------
(* Properties                                                              *)

(* The nodes met from `start` along `link`, at most one per address.       *)
Path(start, link) ==
  LET at[i \in 0..Cardinality(Nodes)] ==
        IF i = 0 THEN start ELSE IF at[i - 1] = Nil THEN Nil ELSE link[at[i - 1]]
  IN  at
Walk(start, link) ==
  LET met == {i \in 1..Cardinality(Nodes) : Path(start, link)[i - 1] # Nil}
  IN  [i \in 1..Cardinality(met) |-> Path(start, link)[i - 1]]

Forward == Walk(list.head, list.next)
Backward == Walk(list.tail, list.prev)
Allocated == {n \in Nodes : box[n] # Nil}

TypeOK ==
  /\ box \in [Nodes -> Bucket \cup {Nil}] /\ table \in [Keys -> Nodes \cup {Nil}]
  /\ list.head \in Nodes \cup {Nil} /\ list.tail \in Nodes \cup {Nil}
  /\ list.len \in 0..Cardinality(Nodes)
  /\ list.next \in [Nodes -> Nodes \cup {Nil}] /\ list.prev \in [Nodes -> Nodes \cup {Nil}]

(* The list is the same read from either end, and reaches each box that is *)
(* allocated exactly once: no node leaks and no freed node is reachable.   *)
WellLinked ==
  /\ TypeOK
  /\ Len(Forward) = list.len /\ list.len = Cardinality(Allocated)
  /\ {Forward[i] : i \in DOMAIN Forward} = Allocated
  /\ Backward = [i \in 1..list.len |-> Forward[list.len + 1 - i]]

(* The hash table and the boxes name each other: no entry is dangling and  *)
(* two keys never share a node.                                            *)
TableMatches ==
  /\ \A k \in Keys : Has(k) => box[table[k]] # Nil /\ box[table[k]].key = k
  /\ \A n \in Allocated : table[box[n].key] = n

(* Seen from outside, through what calls return, the pointer structure is  *)
(* the map in least-recently-used order.                                   *)
Order == [i \in DOMAIN Forward |-> box[Forward[i]].key]
Value == [k \in {j \in Keys : Has(j)} |-> box[table[k]].value]

Reference == INSTANCE LRU WITH order <- Order, value <- Value
Implements == Reference!Spec
=============================================================================
