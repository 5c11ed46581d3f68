---------------------------- MODULE MCBufferPool ----------------------------
(* TLC instances of BufferPool: the sizes of the code, and sizes with room *)
(* for every header.                                                       *)
EXTENDS BufferPool

CodeSizes == [page |-> 4072, block |-> 4096, undo |-> 4104]
RoomySizes == [page |-> 4072, block |-> 4104, undo |-> 4112]
CodeLayout == {CodeSizes}
BothLayouts == {CodeSizes, RoomySizes}
Small == [tx |-> 1, pages |-> {1}, inserts |-> 2, errors |-> 0, flushes |-> 1]
TwoPages == [tx |-> 2, pages |-> {1, 2}, inserts |-> 2, errors |-> 1, flushes |-> 1]
LongChain == [tx |-> 3, pages |-> {1}, inserts |-> 3, errors |-> 0, flushes |-> 0]
OneSmall == {Small}
WideAndDeep == {TwoPages, LongChain}
ClientSymmetry == Permutations(Clients)
=============================================================================
