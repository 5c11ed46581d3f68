--------------------------- MODULE MCWriteAheadLog ---------------------------
(* Instances of WriteAheadLog for TLC.  An entry has room for an insert and    *)
(* two marks, as a real one has for three inserts and a few marks.             *)
EXTENDS WriteAheadLog, TLC

CONSTANTS c1, c2

MCClients == {c1, c2}
MCRecordSize == [o \in Operations |-> IF o = "insert" THEN 3 ELSE 1]
ClientSymmetry == Permutations(MCClients)
==============================================================================
