-------------------------------- MODULE Tree --------------------------------
(***************************************************************************)
(* cursor/cursor.rs and cursor/entry.rs: the B+tree of the engine, with    *)
(* the page allocator of disk/free.rs.  A cursor works on its own copies   *)
(* of the nodes and touches shared pages only by reading or writing one,   *)
(* so each page access is a step and whatever lies between two is local.   *)
(* No page is latched: cursors interleave freely.  What a cursor read and  *)
(* wrote is recorded, to tell when one got in the way of another.          *)
(*                                                                         *)
(* A page here is its newest version.  That is what BufferPool::get gives  *)
(* a cursor while no other transaction commits between its begin and its   *)
(* last access: an uncommitted block has commit index 0, which every       *)
(* snapshot covers.  BufferPool::insert is taken to succeed: the undo log, *)
(* which with the sizes in the code refuses the second update of a page,   *)
(* is another component (README).  The None of a leaf's prev and next is   *)
(* 0, as on disk.                                                          *)
(***************************************************************************)
EXTENDS Integers, Sequences, FiniteSets

CONSTANTS
  Clients,      \* threads with a cursor
  Keys,         \* a finite set of integers in the place of byte strings
  MaxLen,       \* MAX_NODE_LEN
  InitialFiles, \* what data.db may hold when the engine opens it
  MaxOps,       \* bound: insertions in a behaviour
  Budgets       \* bounds, one of which an execution takes

ASSUME KeysAssumption == Keys \subseteq Int /\ IsFiniteSet(Keys) /\ Keys # {}
ASSUME LenAssumption == MaxLen \in Nat /\ MaxLen >= 2
ASSUME FilesAssumption == InitialFiles \subseteq {"empty", "tree"}
ASSUME BoundAssumption == MaxOps \in Nat

VARIABLES
  booted,      \* initialize has run
  pages,       \* per index: the content of the page
  last_index,  \* FreeList::last_index
  cl,          \* per client: its operation
  read, wrote, \* per client: the pages its operation read, and wrote
  left,        \* what is left of the bounds
  ref,         \* history: the value last inserted under each key
  mangled      \* history: a node was written with its keys out of order

trace == <<read, wrote>>
vars == <<booted, pages, last_index, cl, trace, left, ref, mangled>>

Kinds == {"insert", "get", "delete"}

ASSUME BudgetsAssumption ==
  Budgets \subseteq [clients : SUBSET Clients, kinds : SUBSET Kinds, keys : SUBSET Keys, ops : 0..MaxOps]

HEADER_INDEX == 0
MaxPages == 4 + 3 * MaxOps
Indexes == 0..MaxPages

Zero == [type |-> "zero"]
Header(r) == [type |-> "header", root |-> r]
Value(v) == [type |-> "value", val |-> v]
Leaf(keys, prev, next) == [type |-> "leaf", keys |-> keys, prev |-> prev, next |-> next]
Internal(keys, children) == [type |-> "internal", keys |-> keys, children |-> children]

(* TreeHeader::deserialize of a page that was never written reads root 0;  *)
(* no content makes it return NotFound.                                    *)
NotFound == -1
DecodeRoot(page) == IF page.type = "header" THEN page.root ELSE 0

Idle == [pc |-> "idle", kind |-> "none", key |-> 0, val |-> 0, root |-> 0, at |-> 0,
         path |-> <<>>, node |-> Zero, right |-> Zero, sep |-> 0, new |-> 0, first |-> FALSE,
         seen |-> 0, res |-> "none"]

Init ==
  /\ booted = FALSE
  /\ \/ /\ "empty" \in InitialFiles /\ last_index = 0
        /\ pages = [i \in Indexes |-> Zero]
     \/ /\ "tree" \in InitialFiles /\ last_index = 2
        /\ pages = [i \in Indexes |-> CASE i = HEADER_INDEX -> Header(1)
                                       [] i = 1 -> Leaf(<<>>, 0, 0)
                                       [] OTHER -> Zero]
  /\ cl = [c \in Clients |-> Idle]
  /\ read = [c \in Clients |-> {}] /\ wrote = [c \in Clients |-> {}]
  /\ left \in Budgets
  /\ ref = [k \in Keys |-> 0]
  /\ mangled = FALSE

-----------------------------------------------------------------------------
(* Nodes                                                                   *)

KeyOf(node, i) == IF node.type = "leaf" THEN node.keys[i].key ELSE node.keys[i]
KeysOf(node) == [i \in DOMAIN node.keys |-> KeyOf(node, i)]

(* binary_search over sorted keys: how many are below k, and whether the   *)
(* next one is k.                                                          *)
Below(node, k) == Cardinality({i \in DOMAIN node.keys : KeyOf(node, i) < k})
Holds(node, k) == \E i \in DOMAIN node.keys : KeyOf(node, i) = k

(* Mutant of ChildPos: the child to the left of a separator equal to k.    *)
ChildPosLeft(node, k) == Below(node, k) + 1

(* InternalNode::next: the child to the right of a separator equal to k.   *)
ChildPos(node, k) == Below(node, k) + (IF Holds(node, k) THEN 2 ELSE 1)

InsertedAt(s, i, e) == SubSeq(s, 1, i - 1) \o <<e>> \o SubSeq(s, i, Len(s))
From(s, i) == SubSeq(s, i, Len(s))
UpTo(s, i) == SubSeq(s, 1, i)
Half(n) == (n + 1) \div 2
Ordered(s) == \A i, j \in DOMAIN s : i < j => s[i] < s[j]

(* The right half goes to a new page, the separator to the parent.         *)
LeafRight(node, page) == Leaf(From(node.keys, Half(Len(node.keys)) + 1), page, node.next)
LeafLeft(node) == Leaf(UpTo(node.keys, Half(Len(node.keys))), node.prev, 0)

InternalRight(node) ==
  LET h == Half(Len(node.keys)) IN
    Internal(From(node.keys, h + 2), From(node.children, h + 2))
InternalLeft(node) ==
  LET h == Half(Len(node.keys)) IN
    Internal(UpTo(node.keys, h), UpTo(node.children, h + 1))

-----------------------------------------------------------------------------
(* Steps of an operation                                                   *)

Step(c, fields) ==
  cl' = [cl EXCEPT ![c] = [f \in DOMAIN Idle |-> IF f \in DOMAIN fields THEN fields[f] ELSE cl[c][f]]]

Return(c, res) ==
  /\ Step(c, [pc |-> "done", res |-> res, root |-> 0, at |-> 0, path |-> <<>>, node |-> Zero,
              right |-> Zero, sep |-> 0, new |-> 0, first |-> FALSE])
  /\ ref' = IF cl[c].kind = "insert" /\ res = "ok" THEN [ref EXCEPT ![cl[c].key] = cl[c].val] ELSE ref

(* FreeList::acquire: the list of free pages is always empty.              *)
Acquire == last_index < MaxPages /\ last_index' = last_index + 1

Reads(c, i) == read' = [read EXCEPT ![c] = @ \cup {i}] /\ UNCHANGED wrote

Written(c, i, content) ==
  /\ pages' = [pages EXCEPT ![i] = content]
  /\ wrote' = [wrote EXCEPT ![c] = @ \cup {i}]
  /\ UNCHANGED read

(* One operation wrote a page that another one, under way, had read or     *)
(* written, or read one that it had written: nothing in the code waits.    *)
Conflict ==
  \E c, d \in Clients : c # d /\ wrote[c] \cap (read[d] \cup wrote[d]) # {}

(* Engine::bootstrap: initialize writes the header and the root only when  *)
(* the header page decodes to NotFound.                                    *)
Initialize ==
  /\ ~booted /\ booted' = TRUE
  /\ pages' = IF DecodeRoot(pages[HEADER_INDEX]) = NotFound
              THEN [pages EXCEPT ![HEADER_INDEX] = Header(1), ![1] = Leaf(<<>>, 0, 0)]
              ELSE pages
  /\ UNCHANGED <<last_index, cl, trace, left, ref, mangled>>

(* What a binary search finds among keys out of order is up to the         *)
(* standard library: the model stops at a mangled node.                    *)
Begin(c, kind, k) ==
  /\ booted /\ cl[c].pc = "idle" /\ ~mangled
  /\ c \in left.clients /\ kind \in left.kinds /\ k \in left.keys
  /\ kind = "insert" => left.ops > 0
  /\ left' = IF kind = "insert" THEN [left EXCEPT !.ops = @ - 1] ELSE left
  /\ cl' = [cl EXCEPT ![c] = [Idle EXCEPT !.pc = "header", !.kind = kind, !.key = k,
                                 !.val = IF kind = "insert" THEN MaxOps + 1 - left.ops ELSE 0,
                                 !.seen = ref[k]]]
  /\ UNCHANGED <<booted, pages, last_index, trace, ref, mangled>>

(* The call is over for its caller, with a result or a panic.  The model   *)
(* stops at a conflict as well.                                            *)
End(c) ==
  /\ cl[c].pc = "done" /\ ~Conflict
  /\ cl' = [cl EXCEPT ![c] = Idle]
  /\ read' = [read EXCEPT ![c] = {}] /\ wrote' = [wrote EXCEPT ![c] = {}]
  /\ UNCHANGED <<booted, pages, last_index, left, ref, mangled>>

ReadHeader(c) ==
  /\ cl[c].pc = "header"
  /\ LET r == DecodeRoot(pages[HEADER_INDEX]) IN
       Step(c, [pc |-> "down", root |-> r, at |-> r])
  /\ Reads(c, HEADER_INDEX)
  /\ UNCHANGED <<booted, pages, last_index, left, ref, mangled>>

(* A page that is neither kind of node: Error::Invalid.                    *)
Invalid(c) ==
  /\ cl[c].pc = "down" /\ pages[cl[c].at].type \notin {"leaf", "internal"}
  /\ Return(c, "invalid")
  /\ Reads(c, cl[c].at)
  /\ UNCHANGED <<booted, pages, last_index, left, mangled>>

(* The path keeps the node as read and the slot the search returned.       *)
Descend(c) ==
  LET o == cl[c]  n == pages[o.at] IN
  /\ o.pc = "down" /\ n.type = "internal"
  /\ Step(c, [at |-> n.children[ChildPos(n, o.key)],
              path |-> Append(o.path, [page |-> o.at, node |-> n, slot |-> Below(n, o.key) + 1])])
  /\ Reads(c, o.at)
  /\ UNCHANGED <<booted, pages, last_index, left, ref, mangled>>

(* find_family: i.sub(1) underflows below the first separator, which       *)
(* panics in a build with overflow checks and wraps in one without.        *)
FamilyUnderflow(c) ==
  LET o == cl[c]  n == pages[o.at] IN
  /\ o.pc = "down" /\ o.kind = "delete" /\ n.type = "internal" /\ ~Holds(n, o.key) /\ Below(n, o.key) = 0
  /\ Return(c, "panic")
  /\ Reads(c, o.at)
  /\ UNCHANGED <<booted, pages, last_index, left, mangled>>

ReadLeaf(c) ==
  LET o == cl[c]  n == pages[o.at] IN
  /\ o.pc = "down" /\ n.type = "leaf"
  /\ \/ Holds(n, o.key) /\ o.kind # "delete"
        /\ Step(c, [pc |-> "value", node |-> n, at |-> n.keys[Below(n, o.key) + 1].page])
        /\ ref' = ref
     \/ ~Holds(n, o.key) /\ o.kind = "insert"
        /\ Step(c, [pc |-> "place", node |-> n]) /\ ref' = ref
     \/ ~Holds(n, o.key) /\ o.kind # "insert" /\ Return(c, "not_found")
     \/ Holds(n, o.key) /\ o.kind = "delete" /\ Return(c, "panic")  \* release is unimplemented!()
  /\ Reads(c, o.at)
  /\ UNCHANGED <<booted, pages, last_index, left, mangled>>

Fetch(c) ==
  LET o == cl[c] IN
  /\ o.pc = "value" /\ o.kind = "get"
  /\ cl' = [cl EXCEPT ![c] = [Idle EXCEPT !.pc = "done", !.kind = "get", !.key = o.key, !.seen = o.seen, !.res = "ok",
               !.val = IF pages[o.at].type = "value" THEN pages[o.at].val ELSE 0]]
  /\ Reads(c, o.at)
  /\ UNCHANGED <<booted, pages, last_index, left, ref, mangled>>

Overwrite(c) ==
  LET o == cl[c] IN
  /\ o.pc = "value" /\ o.kind = "insert"
  /\ Written(c, o.at, Value(o.val))
  /\ Return(c, "ok")
  /\ UNCHANGED <<booted, last_index, left, mangled>>

(* Mutant of Settle: a node is split one key too late.                     *)
SettleLate(c, at, n, path, first) ==
  IF Len(n.keys) <= MaxLen + 1
  THEN Step(c, [pc |-> "write", at |-> at, node |-> n, path |-> path, new |-> 0, first |-> first])
  ELSE IF n.type = "leaf"
  THEN Step(c, [pc |-> "split", at |-> at, node |-> LeafLeft(n), right |-> LeafRight(n, at),
                sep |-> KeyOf(n, Half(Len(n.keys)) + 1), path |-> path, first |-> first])
  ELSE Step(c, [pc |-> "split", at |-> at, node |-> InternalLeft(n), right |-> InternalRight(n),
                sep |-> KeyOf(n, Half(Len(n.keys)) + 1), path |-> path, first |-> first])

(* A node goes back to its page at once, or splits first.                  *)
Settle(c, at, n, path, first) ==
  IF Len(n.keys) <= MaxLen
  THEN Step(c, [pc |-> "write", at |-> at, node |-> n, path |-> path, new |-> 0, first |-> first])
  ELSE IF n.type = "leaf"
  THEN Step(c, [pc |-> "split", at |-> at, node |-> LeafLeft(n), right |-> LeafRight(n, at),
                sep |-> KeyOf(n, Half(Len(n.keys)) + 1), path |-> path, first |-> first])
  ELSE Step(c, [pc |-> "split", at |-> at, node |-> InternalLeft(n), right |-> InternalRight(n),
                sep |-> KeyOf(n, Half(Len(n.keys)) + 1), path |-> path, first |-> first])

(* Mutants of Place: an index handed out twice, every key a new minimum.   *)
PlaceNoAdvance(c) ==
  LET o == cl[c]  slot == Below(o.node, o.key) + 1 IN
  /\ o.pc = "place" /\ last_index < MaxPages
  /\ Written(c, last_index, Value(o.val))
  /\ Settle(c, o.at,
            [o.node EXCEPT !.keys = InsertedAt(@, slot, [key |-> o.key, page |-> last_index])],
            o.path, slot = 1)
  /\ UNCHANGED <<booted, last_index, left, ref, mangled>>

PlaceAlwaysFirst(c) ==
  LET o == cl[c]  slot == Below(o.node, o.key) + 1 IN
  /\ o.pc = "place"
  /\ Written(c, last_index, Value(o.val))
  /\ Acquire
  /\ Settle(c, o.at,
            [o.node EXCEPT !.keys = InsertedAt(@, slot, [key |-> o.key, page |-> last_index])],
            o.path, TRUE)
  /\ UNCHANGED <<booted, left, ref, mangled>>

(* The value gets a page of its own and its key a place in the leaf.       *)
Place(c) ==
  LET o == cl[c]  slot == Below(o.node, o.key) + 1 IN
  /\ o.pc = "place"
  /\ Written(c, last_index, Value(o.val))
  /\ Acquire
  /\ Settle(c, o.at,
            [o.node EXCEPT !.keys = InsertedAt(@, slot, [key |-> o.key, page |-> last_index])],
            o.path, slot = 1)
  /\ UNCHANGED <<booted, left, ref, mangled>>

(* Mutant of Split: set_next forgotten.                                    *)
SplitUnlinked(c) ==
  LET o == cl[c] IN
  /\ o.pc = "split"
  /\ Written(c, last_index, o.right)
  /\ Acquire
  /\ Step(c, [pc |-> "write", new |-> last_index])
  /\ mangled' = (mangled \/ ~Ordered(KeysOf(o.right)))
  /\ UNCHANGED <<booted, left, ref>>

(* writer.insert of the right half; a left leaf is linked to it.           *)
Split(c) ==
  LET o == cl[c] IN
  /\ o.pc = "split"
  /\ Written(c, last_index, o.right)
  /\ Acquire
  /\ Step(c, [pc |-> "write", new |-> last_index,
              node |-> IF o.node.type = "leaf" THEN [o.node EXCEPT !.next = last_index] ELSE o.node])
  /\ mangled' = (mangled \/ ~Ordered(KeysOf(o.right)))
  /\ UNCHANGED <<booted, left, ref>>

(* Mutant of Raise: the separator put after the slot of the split child.   *)
RaiseAfter(c) ==
  LET o == cl[c]
      p == o.path[Len(o.path)]
      i == IF p.slot > Len(p.node.keys) THEN p.slot ELSE p.slot + 1
      n == Internal(InsertedAt(p.node.keys, i, o.sep), InsertedAt(p.node.children, p.slot + 1, o.new))
  IN  Settle(c, p.page, n, UpTo(o.path, Len(o.path) - 1), FALSE) /\ ref' = ref

(* The parent, as read on the way down, takes the new child.  A key that   *)
(* became the minimum of its leaf replaces the separator in that slot.     *)
Raise(c) ==
  LET o == cl[c]
      p == o.path[Len(o.path)]
      keys == IF o.first THEN [p.node.keys EXCEPT ![p.slot] = o.key] ELSE p.node.keys
      n == Internal(InsertedAt(keys, p.slot, o.sep), InsertedAt(p.node.children, p.slot + 1, o.new))
  IN  Settle(c, p.page, n, UpTo(o.path, Len(o.path) - 1), FALSE) /\ ref' = ref

(* The parent takes the new minimum of its leaf whether the leaf split or  *)
(* not: node.keys[i] = k panics when no separator is in that slot.  If the *)
(* leaf did not split the parent is dropped as it is, unwritten.           *)
PastSeparators(o) ==
  /\ o.first /\ o.path # <<>>
  /\ o.path[Len(o.path)].slot > Len(o.path[Len(o.path)].node.keys)

(* update(current, node) and what the callers do with what it returns.     *)
Write(c) ==
  LET o == cl[c] IN
  /\ o.pc = "write"
  /\ Written(c, o.at, o.node)
  /\ mangled' = (mangled \/ ~Ordered(KeysOf(o.node)))
  /\ CASE PastSeparators(o) -> Return(c, "panic")
       [] ~PastSeparators(o) /\ o.new = 0 -> Return(c, "ok")
       [] ~PastSeparators(o) /\ o.new # 0 /\ o.path # <<>> -> Raise(c)
       [] OTHER -> Step(c, [pc |-> "root"]) /\ ref' = ref
  /\ UNCHANGED <<booted, last_index, left>>

(* The root split: a new root, then the header as read at the start.       *)
NewRoot(c) ==
  LET o == cl[c] IN
  /\ o.pc = "root"
  /\ Written(c, last_index, Internal(<<o.sep>>, <<o.root, o.new>>))
  /\ Acquire
  /\ Step(c, [pc |-> "set_root", new |-> last_index])
  /\ UNCHANGED <<booted, left, ref, mangled>>

(* Mutant of SetRoot: the header written back as it was read.              *)
SetRootStale(c) ==
  /\ cl[c].pc = "set_root"
  /\ Written(c, HEADER_INDEX, Header(cl[c].root))
  /\ Return(c, "ok")
  /\ UNCHANGED <<booted, last_index, left, mangled>>

SetRoot(c) ==
  /\ cl[c].pc = "set_root"
  /\ Written(c, HEADER_INDEX, Header(cl[c].new))
  /\ Return(c, "ok")
  /\ UNCHANGED <<booted, last_index, left, mangled>>

-----------------------------------------------------------------------------
Cursor(c) ==
  \/ \E kind \in Kinds, k \in Keys : Begin(c, kind, k)
  \/ ReadHeader(c) \/ Invalid(c) \/ Descend(c) \/ FamilyUnderflow(c) \/ ReadLeaf(c)
  \/ Fetch(c) \/ Overwrite(c) \/ Place(c) \/ Split(c) \/ Write(c) \/ NewRoot(c) \/ SetRoot(c) \/ End(c)

(* The bound on insertions is used up, or the model stops.                 *)
Done ==
  /\ booted
  /\ \/ (left.ops = 0 \/ mangled) /\ \A c \in Clients : cl[c].pc = "idle"
     \/ Conflict /\ \A c \in Clients : cl[c].pc \in {"idle", "done"}
  /\ UNCHANGED vars

Next == Initialize \/ (\E c \in Clients : Cursor(c)) \/ Done

Spec == Init /\ [][Next]_vars

-----------------------------------------------------------------------------
(* Properties                                                              *)

Root == DecodeRoot(pages[HEADER_INDEX])
Quiet == booted /\ Root # 0 /\ ~mangled /\ \A c \in Clients : cl[c].pc = "idle"
Levels == 0..Cardinality(Keys)

ChildrenOf(i) ==
  IF pages[i].type = "internal" THEN {pages[i].children[j] : j \in DOMAIN pages[i].children} ELSE {}

(* The nodes on each level below the root.                                 *)
Level[d \in Levels] ==
  IF d = 0 THEN {Root} ELSE UNION {ChildrenOf(i) : i \in Level[d - 1]}

TreeNodes == UNION {Level[d] : d \in Levels}
Leaves == {i \in TreeNodes : pages[i].type = "leaf"}
Internals == {i \in TreeNodes : pages[i].type = "internal"}
ValuePages(i) == {pages[i].keys[j].page : j \in DOMAIN pages[i].keys}

(* get_index, then the value page.                                         *)
Lookup(k) ==
  LET at[d \in Levels] ==
        IF d = 0 THEN Root
        ELSE LET n == pages[at[d - 1]] IN
             IF n.type = "internal" THEN n.children[ChildPos(n, k)] ELSE at[d - 1]
      leaf == pages[at[Cardinality(Keys)]]
  IN  IF leaf.type = "leaf" /\ Holds(leaf, k)
      THEN pages[leaf.keys[Below(leaf, k) + 1].page].val ELSE 0

(* Between operations the tree is the map the insertions built: every key  *)
(* is found from the root, with the value last inserted under it, however  *)
(* operations interleaved, as long as none of them wrote a page that       *)
(* another one under way had read or written, and no node is mangled       *)
(* (MangledByNewMinimum says when one is).                                 *)
MapCorrect == Quiet => \A k \in Keys : Lookup(k) = ref[k]

(* All leaves are on one level, no node is over-full, and a split leaves   *)
(* its halves full enough; the right half of an internal node gives its    *)
(* first key away and may be one key short of MIN_NODE_LEN.                *)
Balanced ==
  Quiet =>
    /\ \E d \in Levels : Leaves = Level[d]
    /\ \A i \in TreeNodes : Len(pages[i].keys) <= MaxLen
    /\ \A i \in Leaves \ {Root} : Len(pages[i].keys) >= MaxLen + 1 - Half(MaxLen + 1)
    /\ \A i \in Internals \ {Root} : Len(pages[i].keys) >= MaxLen - Half(MaxLen + 1)

(* Each allocated page has one owner, the header, a parent or a key, so    *)
(* none leaks and none is shared.                                          *)
PagesOwnedOnce ==
  Quiet =>
    /\ Cardinality(TreeNodes) + Cardinality(UNION {ValuePages(i) : i \in Leaves}) + 1 = last_index
    /\ \A i, j \in Leaves : i # j => ValuePages(i) \cap ValuePages(j) = {}
    /\ \A i, j \in Internals : i # j => ChildrenOf(i) \cap ChildrenOf(j) = {}

(* Following next from the leftmost leaf meets every leaf, in key order.   *)
LeafChain ==
  Quiet =>
    \A i \in Leaves :
      LET next == pages[i].next
          later == {j \in Leaves : j # i /\ KeyOf(pages[j], 1) > KeyOf(pages[i], 1)}
      IN  IF next = 0 THEN later = {}
          ELSE next \in later /\ \A j \in later : KeyOf(pages[next], 1) <= KeyOf(pages[j], 1)

(* No insertion indexes past the separators, whether its leaf splits or    *)
(* not: a key that becomes the first of its leaf went down the leftmost    *)
(* child, which has one to its right.                                      *)
(* Once a node is mangled a cursor already on its way may: the search in   *)
(* keys out of order can lead a key to the right of where it belongs.      *)
InsertNeverPanics ==
  ~mangled => \A c \in Clients : cl[c].kind = "insert" => cl[c].res # "panic"

(* While no two operations are in each other's way separators get out of   *)
(* order in one way only: the inserted key is below every key of the tree  *)
(* and its leaf, full and not the root, splits.  After a conflict a write  *)
(* that was lost may hide a smaller key that had been inserted.            *)
MangledByNewMinimum ==
  [][mangled' # mangled /\ ~Conflict =>
       \E c \in Clients :
         /\ cl[c].pc = "write" /\ cl[c].node.type = "internal"
         /\ \A k \in Keys : ref[k] # 0 => cl[c].key < k]_vars

(* A key whose insertion had returned when a get began is found by that    *)
(* get, as examples/multi_thread.rs unwraps it, though other operations    *)
(* are under way, unless two of them are on one page or a node is mangled. *)
InsertedIsFound ==
  \A c \in Clients : ~Conflict /\ ~mangled /\ cl[c].pc = "done" /\ cl[c].kind = "get" /\ cl[c].seen # 0 => cl[c].res = "ok"

(* Once bootstrap is over an insertion with a key and a value that fit a   *)
(* page succeeds: initialize says it makes the header that is missing, and *)
(* examples/multi_thread.rs unwraps a get of a key it inserted.            *)
InsertSucceeds ==
  \A c \in Clients : cl[c].pc = "done" /\ cl[c].kind = "insert" => cl[c].res = "ok"
=============================================================================
