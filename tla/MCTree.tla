------------------------------- MODULE MCTree -------------------------------
(* TLC instances of Tree: one client and many keys, two clients and few.   *)
EXTENDS Tree

CONSTANTS c1, c2

Either == {c1, c2}
FiveKeys == 1..5
Alone == [clients |-> {c1}, kinds |-> Kinds, keys |-> FiveKeys, ops |-> 5]
Together == [clients |-> Either, kinds |-> {"insert", "get"}, keys |-> 1..4, ops |-> 4]
AloneOrTogether == {Alone, Together}
Fresh == {[clients |-> {c1}, kinds |-> {"insert"}, keys |-> 1..2, ops |-> 2]}
=============================================================================
