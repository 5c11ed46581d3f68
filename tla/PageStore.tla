----------------------------- MODULE PageStore ------------------------------
(***************************************************************************)
(* What disk/finder.rs promises the log, the undo storage and the buffer   *)
(* pool: pages that are read and written whole.  The writes that reached a *)
(* page are numbered; `applied` is the number of the one a read returns    *)
(* and `safe` the number of one that no crash can take back.               *)
(***************************************************************************)
EXTENDS Integers

CONSTANTS Callers, Pages

VARIABLES
  applied,  \* per page: the last write a read sees, 0 for none
  safe,     \* per page: the last write known to survive a crash
  op        \* per caller: its call in progress

vars == <<applied, safe, op>>

None == [kind |-> "none"]
WriteOp(p, i) == [kind |-> "write", page |-> p, at |-> i]     \* i = 0: not yet applied
ReadOp(p, got) == [kind |-> "read", page |-> p, got |-> got]  \* got = -1: not yet read
FsyncOp(upto) == [kind |-> "fsync", upto |-> upto]

Op(c, o) == op' = [op EXCEPT ![c] = o]

Init ==
  /\ applied = [p \in Pages |-> 0] /\ safe = [p \in Pages |-> 0]
  /\ op = [c \in Callers |-> None]

Write(c, p) ==
  /\ op[c] = None /\ Op(c, WriteOp(p, 0))
  /\ UNCHANGED <<applied, safe>>

Apply(c) ==
  /\ op[c].kind = "write" /\ op[c].at = 0
  /\ applied' = [applied EXCEPT ![op[c].page] = @ + 1]
  /\ Op(c, WriteOp(op[c].page, applied[op[c].page] + 1))
  /\ UNCHANGED safe

(* A write is acknowledged only when it is safe, and refused only when it  *)
(* has not been applied.                                                   *)
WriteOk(c) ==
  /\ op[c].kind = "write" /\ op[c].at # 0 /\ op[c].at <= safe[op[c].page]
  /\ Op(c, None)
  /\ UNCHANGED <<applied, safe>>

WriteErr(c) ==
  /\ op[c].kind = "write" /\ op[c].at = 0
  /\ Op(c, None)
  /\ UNCHANGED <<applied, safe>>

Read(c, p) ==
  /\ op[c] = None /\ Op(c, ReadOp(p, -1))
  /\ UNCHANGED <<applied, safe>>

Fetch(c) ==
  /\ op[c].kind = "read" /\ op[c].got = -1
  /\ Op(c, ReadOp(op[c].page, applied[op[c].page]))
  /\ UNCHANGED <<applied, safe>>

ReadEnd(c) ==
  /\ op[c].kind = "read" /\ Op(c, None)
  /\ UNCHANGED <<applied, safe>>

(* Every write applied before fsync was called is safe when it succeeds.   *)
Fsync(c) ==
  /\ op[c] = None /\ Op(c, FsyncOp(applied))
  /\ UNCHANGED <<applied, safe>>

FsyncOk(c) ==
  /\ op[c].kind = "fsync" /\ \A p \in Pages : op[c].upto[p] <= safe[p]
  /\ Op(c, None)
  /\ UNCHANGED <<applied, safe>>

FsyncErr(c) ==
  /\ op[c].kind = "fsync" /\ Op(c, None)
  /\ UNCHANGED <<applied, safe>>

Sync == safe' = applied /\ UNCHANGED <<applied, op>>

(* A page keeps one of the writes from the last safe one on.               *)
Crash ==
  /\ op' = [c \in Callers |-> None]
  /\ \A p \in Pages : applied'[p] \in safe[p]..applied[p]
  /\ applied' = [p \in Pages |-> applied'[p]]
  /\ safe' = applied'

Call(c) ==
  \/ \E p \in Pages : Write(c, p) \/ Read(c, p)
  \/ Apply(c) \/ WriteOk(c) \/ WriteErr(c)
  \/ Fetch(c) \/ ReadEnd(c)
  \/ Fsync(c) \/ FsyncOk(c) \/ FsyncErr(c)

Next == (\E c \in Callers : Call(c)) \/ Sync \/ Crash

Spec == Init /\ [][Next]_vars
=============================================================================
