-------------------------------- MODULE LRU ---------------------------------
(***************************************************************************)
(* What buffer/lru.rs promises the block cache and the undo cache: a map   *)
(* whose keys are kept in the order of their last use, the oldest first.   *)
(* `ret` is what the last call returned.                                   *)
(***************************************************************************)
EXTENDS Sequences, Integers

CONSTANTS Keys, Values, NoValue

VARIABLES
  order,  \* the keys, least recently used first
  value,  \* the value of each key in the map
  ret

vars == <<order, value, ret>>

Has(k) == k \in DOMAIN value
Place(k) == CHOOSE i \in DOMAIN order : order[i] = k
Without(k) ==
  IF Has(k) THEN [i \in 1..(Len(order) - 1) |-> IF i < Place(k) THEN order[i] ELSE order[i + 1]]
  ELSE order
Used(k) == Append(Without(k), k)
With(k, v) == [j \in DOMAIN value \cup {k} |-> IF j = k THEN v ELSE value[j]]
Less(k) == [j \in DOMAIN value \ {k} |-> value[j]]
Found(k) == IF Has(k) THEN value[k] ELSE NoValue

Init == order = <<>> /\ value = [k \in {} |-> NoValue] /\ ret = NoValue

Get(k) ==
  /\ ret' = Found(k)
  /\ order' = IF Has(k) THEN Used(k) ELSE order
  /\ UNCHANGED value

GetOnly(k) == ret' = Found(k) /\ UNCHANGED <<order, value>>

(* get_mut: the caller writes through the reference; the order stays.      *)
GetMut(k, v) ==
  /\ ret' = Found(k)
  /\ value' = IF Has(k) THEN With(k, v) ELSE value
  /\ UNCHANGED order

Insert(k, v) ==
  /\ ret' = Found(k)
  /\ order' = Used(k) /\ value' = With(k, v)

Remove(k) ==
  /\ ret' = Found(k)
  /\ order' = Without(k) /\ value' = Less(k)

PopOld ==
  \/ order = <<>> /\ ret' = NoValue /\ UNCHANGED <<order, value>>
  \/ /\ order # <<>>
     /\ ret' = <<Head(order), value[Head(order)]>>
     /\ order' = Tail(order) /\ value' = Less(Head(order))

PeekOld ==
  /\ ret' = IF order = <<>> THEN NoValue ELSE <<Head(order), value[Head(order)]>>
  /\ UNCHANGED <<order, value>>

(* entry(k).and_modify(f).or_insert(v), with f writing v.                  *)
Modify(k, v) ==
  /\ order' = Used(k) /\ value' = With(k, v)
  /\ ret' = v

(* entry(k).or_insert(v): a hit is not a use.                              *)
OrInsert(k, v) ==
  /\ order' = IF Has(k) THEN order ELSE Append(order, k)
  /\ value' = IF Has(k) THEN value ELSE With(k, v)
  /\ ret' = IF Has(k) THEN value[k] ELSE v

(* The cache is dropped and a new one made.                                *)
Drop == order' = <<>> /\ value' = [k \in {} |-> NoValue] /\ ret' = NoValue

Next ==
  \/ \E k \in Keys : Get(k) \/ GetOnly(k) \/ Remove(k)
  \/ \E k \in Keys, v \in Values :
       GetMut(k, v) \/ Insert(k, v) \/ Modify(k, v) \/ OrInsert(k, v)
  \/ PopOld \/ PeekOld \/ Drop

Spec == Init /\ [][Next]_vars
=============================================================================
