------------------------------ MODULE MCEngine ------------------------------
(* TLC instances of Engine: a run that crashes, and two that end in a drop *)
(* of the engine while cursors go on, with two transactions, or with one   *)
(* that writes before and after a flush.                                   *)
EXTENDS Engine
Crashing == [tx |-> 2, writes |-> 3, crashes |-> 1, drops |-> 0]
Closing == [tx |-> 2, writes |-> 1, crashes |-> 0, drops |-> 1]
ClosingLone == [tx |-> 1, writes |-> 2, crashes |-> 0, drops |-> 1]
CrashOrClose == {Crashing, Closing, ClosingLone}
=============================================================================
