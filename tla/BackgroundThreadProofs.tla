----------------------- MODULE BackgroundThreadProofs -----------------------
(***************************************************************************)
(* Proofs about BackgroundThread for any number of callers, requests and   *)
(* panics and any works: requests run one at a time and in order, no       *)
(* caller that waits is forgotten, nothing is lost without a reason, and   *)
(* close drains.                                                           *)
(***************************************************************************)
EXTENDS BackgroundThread, SequenceTheorems, TLAPS

-----------------------------------------------------------------------------
(* The inductive invariant.                                                *)

States == {"starting", "waiting", "working", "ticking", "ended", "finished"}
Workers(n) ==
  [state : States, func : 1..n, queue : Seq(Nat), open : BOOLEAN, job : Nat]
Statuses == [state : {"queued", "running", "answered", "dropped"}, func : Nat]
Places == {"idle", "push", "await", "join", "panicked"}

TypeOK ==
  /\ inner \in Callers \cup {Nobody} /\ dead \in BOOLEAN /\ thread \in BOOLEAN
  /\ func \in 1..Len(Works) /\ poisoned \in SUBSET (1..func)
  /\ worker \in Workers(func) /\ status \in Seq(Statuses)
  /\ pc \in [Callers -> Places] /\ req \in [Callers -> Nat]

\* The mutex is held by whoever pushes or joins.  A free mutex without a handle
\* means that no thread runs: nothing is ever spawned beside a running thread.
Mutex ==
  /\ \A c \in Callers : pc[c] \in {"push", "join"} <=> inner = c
  /\ inner # Nobody => ~thread
  /\ ~thread /\ inner = Nobody /\ ~dead => worker.state = "finished"
  /\ \A c \in Callers : pc[c] = "push" => worker.open
  /\ thread => worker.open

\* The requests that have left the channel.
Taken == Len(status) - Len(worker.queue)

\* Requests are numbered as they are pushed.  The channel holds the last ones, in
\* order, the running job is the one before them, and the others are settled.
Channel ==
  /\ Len(worker.queue) <= Len(status)
  /\ \A i \in 1..Len(worker.queue) : worker.queue[i] = Taken + i
  /\ \A r \in 1..Len(status) : r > Taken => status[r].state = "queued"
  /\ worker.state = "working" =>
       worker.job = Taken /\ Taken > 0 /\ status[Taken].state = "running"
  /\ worker.state # "working" => worker.job = 0
  /\ \A r \in 1..Taken : r # worker.job => status[r].state \in {"answered", "dropped"}
  /\ ~Receiving => worker.queue = <<>>

\* Why requests may be lost: a job has panicked, or a work was Empty.
Broken == poisoned # {} \/ \E w \in 1..func : Works[w] = "Empty"

\* Each loss has that reason, and so has a receiver that is gone while a sender
\* is left to push into it.
Losses ==
  /\ \A r \in 1..Len(status) : status[r].state = "dropped" => Broken
  /\ \A c \in Callers : pc[c] = "panicked" => Broken
  /\ dead \/ (worker.open /\ ~Receiving) => Broken

Awaiting == \A c \in Callers : pc[c] = "await" => req[c] \in 1..Len(status)

Inv == TypeOK /\ Mutex /\ Channel /\ Losses /\ Awaiting

-----------------------------------------------------------------------------
(* Sequences.                                                              *)

\* A pushed request goes to the end.
LEMMA AppendLast ==
    ASSUME NEW S, NEW s \in Seq(S), NEW e \in S
    PROVE  /\ Append(s, e) \in Seq(S) /\ Len(Append(s, e)) = Len(s) + 1 /\ Len(s) \in Nat
           /\ \A i \in 1..Len(s) : Append(s, e)[i] = s[i]
           /\ Append(s, e)[Len(s) + 1] = e
OBVIOUS

\* The first request leaves.
LEMMA HeadLeaves ==
    ASSUME NEW S, NEW s \in Seq(S), s # <<>>
    PROVE  /\ Len(s) \in Nat \ {0} /\ Head(s) = s[1] /\ Head(s) \in S
           /\ Tail(s) \in Seq(S) /\ Len(Tail(s)) = Len(s) - 1
           /\ \A i \in 1..Len(Tail(s)) : Tail(s)[i] = s[i + 1]
BY HeadTailProperties, EmptySeq

LEMMA NoRequest ==
    ASSUME NEW S
    PROVE  <<>> \in Seq(S) /\ Len(<<>>) = 0
BY EmptySeq

\* What became of one request changes.
LEMMA OneStatus ==
    ASSUME NEW s \in Seq(Statuses), NEW r \in 1..Len(s),
           NEW x \in {"queued", "running", "answered", "dropped"},
           NEW t, t = [s EXCEPT ![r].state = x]
    PROVE  /\ t \in Seq(Statuses) /\ Len(t) = Len(s)
           /\ t[r].state = x
           /\ \A q \in 1..Len(s) : q # r => t[q] = s[q]
<1>1. s \in [1..Len(s) -> Statuses] /\ Len(s) \in Nat
  BY LenProperties
<1>2. t \in [1..Len(s) -> Statuses] /\ t[r].state = x
      /\ \A q \in 1..Len(s) : q # r => t[q] = s[q]
  BY <1>1 DEF Statuses
<1>3. t \in Seq(Statuses) /\ Len(t) = Len(s)
  BY <1>1, <1>2
<1> QED
  BY <1>2, <1>3

-----------------------------------------------------------------------------
(* Each action keeps the invariant.                                        *)

LEMMA InitInv == Init => Inv
<1> SUFFICES ASSUME Init PROVE Inv
  OBVIOUS
<1>1. 1 \in 1..Len(Works)
  BY WorksAssumption, LenProperties, EmptySeq
<1>2. TypeOK
  <2>1. <<>> \in Seq(Nat) /\ <<>> \in Seq(Statuses)
    BY NoRequest
  <2>2. worker \in Workers(1)
    BY <2>1 DEF Init, Workers, States
  <2>3. poisoned \in SUBSET (1..func)
    BY DEF Init
  <2> QED
    BY <1>1, <2>1, <2>2, <2>3 DEF Init, TypeOK, Places
<1>3. Mutex /\ Awaiting
  BY NobodyAssumption DEF Init, Mutex, Awaiting
<1>4. Channel /\ Losses
  BY NoRequest DEF Init, Channel, Losses, Taken, Receiving
<1> QED
  BY <1>2, <1>3, <1>4 DEF Inv

\* The steps that touch neither the channel nor what became of a request.
LEMMA ReuseInv ==
    ASSUME Inv, NEW c \in Callers, Reuse(c)
    PROVE  Inv'
<1> USE DEF Inv, Reuse
<1>1. TypeOK'
  BY DEF TypeOK, Places
<1>2. Mutex'
  BY NobodyAssumption DEF TypeOK, Mutex
<1>3. Channel'
  BY DEF Channel, Taken, Receiving
<1>4. Losses' /\ Awaiting'
  BY DEF TypeOK, Losses, Awaiting, Broken, Receiving
<1> QED
  BY <1>1, <1>2, <1>3, <1>4

LEMMA SpawnInv ==
    ASSUME Inv, NEW c \in Callers, Spawn(c)
    PROVE  Inv'
<1> USE DEF Inv, Spawn
<1>1. Fresh \in Workers(func) /\ Fresh.queue = <<>> /\ Fresh.state = "starting"
      /\ Fresh.open = TRUE /\ Fresh.job = 0
  BY NoRequest DEF TypeOK, Fresh, Workers, States
<1>2. TypeOK'
  BY <1>1 DEF TypeOK, Places
<1>3. Mutex'
  BY <1>1, NobodyAssumption DEF TypeOK, Mutex
<1>4. worker.state = "finished"
  BY DEF Mutex
<1>5. Channel'
  BY <1>1, <1>4, NoRequest DEF TypeOK, Channel, Taken, Receiving
<1>6. Losses' /\ Awaiting'
  BY <1>1 DEF TypeOK, Losses, Awaiting, Broken, Receiving
<1> QED
  BY <1>2, <1>3, <1>5, <1>6

LEMMA PushInv ==
    ASSUME Inv, NEW c \in Callers, Push(c)
    PROVE  Inv'
<1> DEFINE n == Len(status) + 1
           o == [state |-> "queued", func |-> worker.func]
<1> USE DEF Inv
<1>1. /\ worker \in Workers(func) /\ worker.queue \in Seq(Nat) /\ worker.func \in Nat
      /\ status \in Seq(Statuses) /\ Len(status) \in Nat /\ Len(worker.queue) \in Nat
      /\ Len(worker.queue) <= Len(status) /\ func \in Nat
  BY WorksAssumption DEF TypeOK, Workers, Channel
<1>2. o \in Statuses /\ o.state = "queued" /\ n \in Nat
  BY <1>1 DEF Statuses
<1>3. /\ status' = Append(status, o) /\ status' \in Seq(Statuses) /\ Len(status') = n
      /\ \A r \in 1..Len(status) : status'[r] = status[r]
      /\ status'[n] = o
  BY <1>1, <1>2, AppendLast DEF Push
<1>4. /\ worker' \in Workers(func) /\ worker'.queue = Append(worker.queue, n)
      /\ worker'.state = worker.state /\ worker'.open = worker.open
      /\ worker'.job = worker.job
  <2>1. worker' = [worker EXCEPT !.queue = Append(worker.queue, n)]
    BY <1>1, <1>3 DEF Push
  <2>2. Append(worker.queue, n) \in Seq(Nat)
    BY <1>1, <1>2, AppendLast
  <2> QED
    BY <1>1, <2>1, <2>2 DEF Workers
<1>5. /\ Len(worker'.queue) = Len(worker.queue) + 1
      /\ \A i \in 1..Len(worker.queue) : worker'.queue[i] = worker.queue[i]
      /\ worker'.queue[Len(worker.queue) + 1] = n
  BY <1>1, <1>2, <1>4, AppendLast
<1>6. /\ inner = c /\ inner' = Nobody /\ thread' = TRUE
      /\ UNCHANGED <<dead, func, poisoned>> /\ Receiving /\ pc[c] = "push"
  BY DEF Push, Mutex
<1>7. /\ pc' \in [Callers -> Places] /\ req' \in [Callers -> Nat]
       /\ pc'[c] \in {"await", "idle"} /\ (pc'[c] = "await" => req'[c] = n)
       /\ \A d \in Callers \ {c} : pc'[d] = pc[d] /\ req'[d] = req[d]
  <2>1. pc \in [Callers -> Places] /\ req \in [Callers -> Nat]
    BY DEF TypeOK
  <2>2. \/ pc' = [pc EXCEPT ![c] = "await"] /\ req' = [req EXCEPT ![c] = n]
        \/ pc' = [pc EXCEPT ![c] = "idle"] /\ req' = req
    BY <1>3 DEF Push
  <2> QED
    BY <1>2, <2>1, <2>2 DEF Places
<1>8. TypeOK'
  BY <1>3, <1>4, <1>6, <1>7 DEF TypeOK
<1>9. Mutex'
  BY <1>4, <1>6, <1>7, NobodyAssumption DEF TypeOK, Mutex
<1>10. Taken' = Taken /\ Taken \in 0..Len(status) /\ n = Taken + (Len(worker.queue) + 1)
  <2>1. Len(status') = Len(status) + 1 /\ Len(worker'.queue) = Len(worker.queue) + 1
    BY <1>3, <1>5
  <2>2. Taken' = (Len(status) + 1) - (Len(worker.queue) + 1)
    BY <2>1 DEF Taken
  <2>3. Taken = Len(status) - Len(worker.queue)
    BY DEF Taken
  <2>4. Len(status) \in Nat /\ Len(worker.queue) \in Nat /\ Len(worker.queue) <= Len(status)
    BY <1>1
  <2>5. Taken \in 0..Len(status)
    BY <2>3, <2>4
  <2>6. Taken' = Taken
    BY <2>2, <2>3, <2>4
  <2>7. Len(status) = Taken + Len(worker.queue)
    BY <2>3, <2>4
  <2> QED
    BY <2>4, <2>5, <2>6, <2>7
<1>11. Channel'
  <2>1. \A i \in 1..Len(worker'.queue) : worker'.queue[i] = Taken' + i
    <3>1. ASSUME NEW i \in 1..Len(worker.queue) PROVE worker'.queue[i] = Taken' + i
      BY <1>5, <1>10, <3>1 DEF Channel
    <3> QED
      BY <1>1, <1>5, <1>10, <3>1
  <2>2. \A r \in 1..Len(status') : r > Taken' => status'[r].state = "queued"
    BY <1>1, <1>2, <1>3, <1>10 DEF Channel
  <2>3. \A r \in 1..Taken' : status'[r] = status[r]
    BY <1>1, <1>3, <1>10
  <2>4. worker'.state = "working" =>
          worker'.job = Taken' /\ Taken' > 0 /\ status'[Taken'].state = "running"
    BY <1>1, <1>4, <1>10, <2>3 DEF Channel
  <2>5. \A r \in 1..Taken' : r # worker'.job => status'[r].state \in {"answered", "dropped"}
    BY <1>4, <1>10, <2>3 DEF Channel
  <2>6. Len(worker'.queue) <= Len(status') /\ Receiving'
    BY <1>1, <1>3, <1>4, <1>5, <1>6 DEF Receiving
  <2> QED
    BY <1>4, <2>1, <2>2, <2>4, <2>5, <2>6 DEF Channel
<1>12. Losses' /\ Awaiting'
  <2>1. Broken' <=> Broken
    BY <1>6 DEF Broken
  <2>2. \A r \in 1..Len(status') : status'[r].state = "dropped" => Broken'
    <3>1. ASSUME NEW r \in 1..Len(status'), status'[r].state = "dropped" PROVE Broken
      <4>1. r # n /\ r \in 1..Len(status)
        BY <1>1, <1>2, <1>3, <3>1
      <4> QED
        BY <1>3, <3>1, <4>1 DEF Losses
    <3> QED
      BY <2>1, <3>1
  <2>3. \A d \in Callers : pc'[d] = "panicked" => Broken'
    BY <1>7, <2>1 DEF Losses
  <2>4. dead' \/ (worker'.open /\ ~Receiving') => Broken'
    BY <1>4, <1>6, <2>1 DEF Losses, Receiving
  <2>5. Awaiting'
    <3>1. ASSUME NEW d \in Callers, pc'[d] = "await" PROVE req'[d] \in 1..Len(status')
      <4>1. CASE d = c
        BY <1>2, <1>3, <1>7, <3>1, <4>1
      <4>2. CASE d # c
        <5>1. req[d] \in 1..Len(status) /\ req'[d] = req[d]
          BY <1>7, <3>1, <4>2 DEF Awaiting
        <5> QED
          BY <1>1, <1>3, <5>1
      <4> QED
        BY <4>1, <4>2
    <3> QED
      BY <3>1 DEF Awaiting
  <2> QED
    BY <2>2, <2>3, <2>4, <2>5 DEF Losses
<1> QED
  BY <1>8, <1>9, <1>11, <1>12

LEMMA PushPanicInv ==
    ASSUME Inv, NEW c \in Callers, PushPanic(c)
    PROVE  Inv'
<1> USE DEF Inv, PushPanic
<1>1. /\ worker' \in Workers(func) /\ worker'.queue = worker.queue /\ ~worker'.open
      /\ worker'.state = worker.state /\ worker'.job = worker.job
  BY DEF TypeOK, Workers
<1>2. TypeOK'
  BY <1>1 DEF TypeOK, Places
<1>3. inner = c /\ ~thread
  BY NobodyAssumption DEF Mutex
<1>4. Mutex'
  BY <1>1, <1>3, NobodyAssumption DEF TypeOK, Mutex
<1>5. Channel'
  BY <1>1 DEF Channel, Taken, Receiving
<1>6. Broken
  BY DEF Losses, Mutex
<1>7. Losses' /\ Awaiting'
  BY <1>1, <1>6 DEF TypeOK, Losses, Awaiting, Broken
<1> QED
  BY <1>2, <1>4, <1>5, <1>7

LEMMA LockPanicInv ==
    ASSUME Inv, NEW c \in Callers, LockPanic(c)
    PROVE  Inv'
<1> USE DEF Inv, LockPanic
<1>1. TypeOK'
  BY DEF TypeOK, Places
<1>2. Mutex'
  BY DEF TypeOK, Mutex
<1>3. Channel'
  BY DEF Channel, Taken, Receiving
<1>4. Losses' /\ Awaiting'
  BY DEF TypeOK, Losses, Awaiting, Broken, Receiving
<1> QED
  BY <1>1, <1>2, <1>3, <1>4

LEMMA AwaitInv ==
    ASSUME Inv, NEW c \in Callers, Await(c)
    PROVE  Inv'
<1> USE DEF Inv, Await
<1>1. TypeOK'
  BY DEF TypeOK, Places
<1>2. Mutex'
  BY DEF TypeOK, Mutex
<1>3. Channel'
  BY DEF Channel, Taken, Receiving
<1>4. Losses' /\ Awaiting'
  BY DEF TypeOK, Losses, Awaiting, Broken, Receiving
<1> QED
  BY <1>1, <1>2, <1>3, <1>4

LEMMA CloseInv ==
    ASSUME Inv, NEW c \in Callers, Close(c)
    PROVE  Inv'
<1> USE DEF Inv, Close
<1>1. /\ worker' \in Workers(func) /\ worker'.queue = worker.queue /\ ~worker'.open
      /\ worker'.state = worker.state /\ worker'.job = worker.job
  BY DEF TypeOK, Workers
<1>2. TypeOK'
  BY <1>1 DEF TypeOK, Places
<1>3. Mutex'
  BY <1>1, NobodyAssumption DEF TypeOK, Mutex
<1>4. Channel'
  BY <1>1 DEF Channel, Taken, Receiving
<1>5. Losses' /\ Awaiting'
  BY <1>1 DEF TypeOK, Losses, Awaiting, Broken, Receiving
<1> QED
  BY <1>2, <1>3, <1>4, <1>5

LEMMA JoinedInv ==
    ASSUME Inv, NEW c \in Callers, Joined(c)
    PROVE  Inv'
<1> USE DEF Inv, Joined
<1>1. TypeOK'
  BY DEF TypeOK, Places
<1>2. Mutex'
  BY NobodyAssumption DEF TypeOK, Mutex
<1>3. Channel'
  BY DEF Channel, Taken, Receiving
<1>4. Losses' /\ Awaiting'
  BY DEF TypeOK, Losses, Awaiting, Broken, Receiving
<1> QED
  BY <1>1, <1>2, <1>3, <1>4

LEMMA SetWorkInv ==
    ASSUME Inv, NEW c \in Callers, SetWork(c)
    PROVE  Inv'
<1> USE DEF Inv, SetWork
<1>1. Len(Works) \in Nat
  BY WorksAssumption
<1>2. 1..func \subseteq 1..func' /\ func' \in 1..Len(Works)
  BY <1>1 DEF TypeOK
<1>3. worker' \in Workers(func')
  BY <1>2 DEF TypeOK, Workers
<1>4. TypeOK'
  BY <1>2, <1>3 DEF TypeOK
<1>5. Mutex' /\ Channel'
  BY DEF Mutex, Channel, Taken, Receiving
<1>6. Broken => Broken'
  BY <1>2 DEF Broken
<1>7. Losses' /\ Awaiting'
  BY <1>6 DEF Losses, Awaiting, Receiving
<1> QED
  BY <1>4, <1>5, <1>7

\* The channel holds exactly the requests that were not taken.
LEMMA QueuedLast ==
    ASSUME Inv
    PROVE  /\ \A r \in 1..Len(status) : r \in Queued <=> r > Taken
           /\ Taken \in 0..Len(status) /\ Len(status) \in Nat /\ Len(worker.queue) \in Nat
           /\ Len(status) = Taken + Len(worker.queue) /\ DOMAIN worker.queue = 1..Len(worker.queue)
<1>1. worker.queue \in Seq(Nat) /\ status \in Seq(Statuses)
  BY DEF Inv, TypeOK, Workers
<1>2. /\ Len(status) \in Nat /\ Len(worker.queue) \in Nat
      /\ DOMAIN worker.queue = 1..Len(worker.queue)
  BY <1>1, LenProperties
<1>3. Len(worker.queue) <= Len(status) /\ Taken = Len(status) - Len(worker.queue)
  BY DEF Inv, Channel, Taken
<1>4. Taken \in 0..Len(status) /\ Len(status) = Taken + Len(worker.queue)
  BY <1>2, <1>3
<1>5. ASSUME NEW r \in 1..Len(status) PROVE r \in Queued <=> r > Taken
  <2>1. ASSUME r \in Queued PROVE r > Taken
    <3>1. PICK i \in 1..Len(worker.queue) : r = worker.queue[i]
      BY <1>2, <2>1 DEF Queued
    <3>2. r = Taken + i
      BY <3>1 DEF Inv, Channel
    <3> QED
      BY <1>2, <1>4, <3>1, <3>2
  <2>2. ASSUME r > Taken PROVE r \in Queued
    <3>1. r - Taken \in 1..Len(worker.queue) /\ r = Taken + (r - Taken)
      BY <1>2, <1>4, <1>5, <2>2
    <3>2. worker.queue[r - Taken] = r
      BY <3>1 DEF Inv, Channel
    <3> QED
      BY <1>2, <3>1, <3>2 DEF Queued
  <2> QED
    BY <2>1, <2>2
<1> QED
  BY <1>2, <1>4, <1>5

\* A receiver is dropped, with everything that was still to be answered.
LEMMA DropInv ==
    ASSUME Inv, NEW lost, DropReceiver(lost), Receiving,
           \A r \in 1..Len(status) : r > Taken \/ r = worker.job => r \in lost,
           worker.open \/ (\E r \in 1..Len(status) : r \in lost) => Broken',
           poisoned \subseteq poisoned', poisoned' \in SUBSET (1..func),
           UNCHANGED <<inner, dead, thread, func, pc, req>>
    PROVE  Inv'
<1>1. /\ worker' \in Workers(func) /\ worker'.queue = <<>> /\ worker'.state = "ended"
      /\ worker'.open = worker.open /\ worker'.job = 0
  BY NoRequest DEF DropReceiver, Inv, TypeOK, Workers, States
<1>2. Len(status) \in Nat /\ DOMAIN status = 1..Len(status) /\ status \in Seq(Statuses)
  BY LenProperties DEF Inv, TypeOK
<1>3. /\ \A r \in 1..Len(status) : status[r] \in Statuses
      /\ status' = [r \in 1..Len(status) |->
                     IF r \in lost THEN [status[r] EXCEPT !.state = "dropped"] ELSE status[r]]
  BY <1>2, ElementOfSeq DEF DropReceiver, Requests
<1>4. /\ \A r \in 1..Len(status) : status'[r] \in Statuses
      /\ \A r \in 1..Len(status) : r \in lost => status'[r].state = "dropped"
      /\ \A r \in 1..Len(status) : r \notin lost => status'[r] = status[r]
  BY <1>3 DEF Statuses
<1>5. status' \in Seq(Statuses) /\ Len(status') = Len(status)
  BY <1>2, <1>3, <1>4
<1>6. TypeOK'
  BY <1>1, <1>5 DEF Inv, TypeOK
<1>7. Mutex'
  BY <1>1 DEF Inv, Mutex, Receiving
<1>8. Channel'
  <2>1. Len(worker'.queue) = 0 /\ Taken' = Len(status)
    <3>1. Len(worker'.queue) = 0
      BY <1>1, NoRequest
    <3>2. Taken' = Len(status') - Len(worker'.queue)
      BY DEF Taken
    <3> QED
      BY <1>2, <1>5, <3>1, <3>2
  <2>2. ASSUME NEW r \in 1..Len(status) PROVE status'[r].state \in {"answered", "dropped"}
    <3>1. CASE r \in lost
      BY <1>4, <3>1
    <3>2. CASE r \notin lost
      <4>1. r \in 1..Taken /\ r # worker.job
        BY <3>2, QueuedLast
      <4> QED
        BY <1>4, <3>2, <4>1 DEF Inv, Channel
    <3> QED
      BY <3>1, <3>2
  <2> QED
    BY <1>1, <1>2, <1>5, <2>1, <2>2 DEF Channel
<1>9. Broken => Broken'
  BY DEF Broken
<1>10. Losses'
  <2>1. \A r \in 1..Len(status') : status'[r].state = "dropped" => Broken'
    BY <1>4, <1>5, <1>9 DEF Inv, Losses
  <2> QED
    BY <1>1, <1>9, <2>1 DEF Inv, Losses
<1>11. Awaiting'
  BY <1>5 DEF Inv, Awaiting
<1> QED
  BY <1>6, <1>7, <1>8, <1>10, <1>11 DEF Inv

LEMMA StartInv ==
    ASSUME Inv, Start
    PROVE  Inv'
<1> USE DEF Inv, Start
<1>1. /\ worker' \in Workers(func) /\ worker'.queue = worker.queue
      /\ worker'.open = worker.open /\ worker'.state = "waiting" /\ worker'.job = worker.job
  BY DEF TypeOK, Workers, States
<1>2. TypeOK'
  BY <1>1 DEF TypeOK
<1>3. Mutex'
  BY <1>1 DEF Mutex
<1>4. Channel'
  BY <1>1 DEF Channel, Taken, Receiving
<1>5. Losses' /\ Awaiting'
  BY <1>1 DEF Losses, Awaiting, Broken, Receiving
<1> QED
  BY <1>2, <1>3, <1>4, <1>5

\* A work that cannot be locked, or is Empty, is a reason to lose requests.
LEMMA StartEndsInv ==
    ASSUME Inv, StartEnds
    PROVE  Inv'
<1>1. worker.func \in 1..func /\ worker.job = 0 /\ Receiving /\ poisoned \in SUBSET (1..func)
  BY DEF Inv, TypeOK, Workers, Channel, StartEnds, Receiving
<1>2. Broken'
  BY <1>1 DEF StartEnds, Broken
<1>3. \A r \in 1..Len(status) : r > Taken \/ r = worker.job => r \in Queued
  BY <1>1, QueuedLast
<1> QED
  BY <1>1, <1>2, <1>3, DropInv DEF StartEnds

LEMMA TakeInv ==
    ASSUME Inv, Take
    PROVE  Inv'
<1> DEFINE r == Taken + 1
<1>1. worker \in Workers(func) /\ worker.queue \in Seq(Nat) /\ worker.queue # <<>>
      /\ status \in Seq(Statuses)
  BY DEF Inv, TypeOK, Workers, Take
<1>2. /\ Len(worker.queue) \in Nat \ {0} /\ Head(worker.queue) = worker.queue[1]
      /\ Tail(worker.queue) \in Seq(Nat) /\ Len(Tail(worker.queue)) = Len(worker.queue) - 1
      /\ \A i \in 1..Len(Tail(worker.queue)) : Tail(worker.queue)[i] = worker.queue[i + 1]
  BY <1>1, HeadLeaves
<1>3. /\ Taken \in 0..Len(status) /\ Len(status) \in Nat
      /\ Len(status) = Taken + Len(worker.queue)
  BY QueuedLast
<1>4. Head(worker.queue) = r /\ r \in 1..Len(status)
  BY <1>2, <1>3 DEF Inv, Channel
<1>5. /\ worker' \in Workers(func) /\ worker'.queue = Tail(worker.queue)
      /\ worker'.open = worker.open /\ worker'.state = "working" /\ worker'.job = r
  <2>1. worker' = [worker EXCEPT !.state = "working", !.queue = Tail(worker.queue), !.job = r]
    BY <1>1, <1>4 DEF Take
  <2>2. Tail(worker.queue) \in Seq(Nat) /\ r \in Nat
    BY <1>2, <1>3
  <2> QED
    BY <1>1, <2>1, <2>2 DEF Workers, States
<1>6. /\ status' \in Seq(Statuses) /\ Len(status') = Len(status)
      /\ status'[r].state = "running"
      /\ \A q \in 1..Len(status) : q # r => status'[q] = status[q]
  <2>1. status' = [status EXCEPT ![r].state = "running"]
    BY <1>4 DEF Take
  <2> QED
    BY <1>1, <1>4, <2>1, OneStatus
<1>7. UNCHANGED <<inner, dead, thread, func, poisoned, pc, req>> /\ worker.state = "waiting"
  BY DEF Take
<1>8. TypeOK'
  BY <1>5, <1>6, <1>7 DEF Inv, TypeOK
<1>9. Mutex'
  BY <1>5, <1>7 DEF Inv, Mutex
<1>10. Taken' = r
  <2>1. Taken' = Len(status) - (Len(worker.queue) - 1)
    BY <1>2, <1>5, <1>6 DEF Taken
  <2>2. Taken \in Int /\ Len(worker.queue) \in Int /\ Len(status) \in Int
    BY <1>2, <1>3
  <2>3. Taken' \in Int /\ Len(status) = Taken' + (Len(worker.queue) - 1)
    BY <2>1, <2>2
  <2> QED
    BY <1>3, <2>2, <2>3
<1>11. Channel'
  <2>1. \A i \in 1..Len(worker'.queue) : worker'.queue[i] = Taken' + i
    <3>1. ASSUME NEW i \in 1..Len(Tail(worker.queue))
          PROVE  Tail(worker.queue)[i] = r + i
      <4>1. i + 1 \in 1..Len(worker.queue) /\ Tail(worker.queue)[i] = worker.queue[i + 1]
        BY <1>2, <3>1
      <4>2. worker.queue[i + 1] = Taken + (i + 1)
        BY <4>1 DEF Inv, Channel
      <4>3. Taken + (i + 1) = r + i
        BY <1>3, <3>1
      <4> QED
        BY <4>1, <4>2, <4>3
    <3> QED
      BY <1>5, <1>10, <3>1
  <2>2. \A q \in 1..Len(status') : q > Taken' => status'[q].state = "queued"
    <3>1. ASSUME NEW q \in 1..Len(status), q > r PROVE status'[q].state = "queued"
      <4>1. q > Taken /\ q # r
        BY <1>3, <3>1
      <4> QED
        BY <1>6, <4>1 DEF Inv, Channel
    <3> QED
      BY <1>6, <1>10, <3>1
  <2>3. \A q \in 1..Taken' : q # worker'.job => status'[q].state \in {"answered", "dropped"}
    <3>1. worker.job = 0
      BY <1>7 DEF Inv, Channel
    <3>2. ASSUME NEW q \in 1..r, q # r PROVE status'[q].state \in {"answered", "dropped"}
      <4>1. q \in 1..Taken /\ q # 0 /\ q \in 1..Len(status)
        BY <1>3, <3>2
      <4> QED
        BY <1>6, <3>1, <3>2, <4>1 DEF Inv, Channel
    <3> QED
      BY <1>5, <1>10, <3>2
  <2>4. Len(worker'.queue) <= Len(status') /\ Taken' > 0
    BY <1>2, <1>3, <1>5, <1>6, <1>10
  <2> QED
    BY <1>5, <1>6, <1>10, <2>1, <2>2, <2>3, <2>4 DEF Channel, Receiving
<1>12. Losses' /\ Awaiting'
  <2>1. Broken' <=> Broken
    BY <1>7 DEF Broken
  <2>2. \A q \in 1..Len(status') : status'[q].state = "dropped" => Broken'
    BY <1>6, <2>1 DEF Inv, Losses
  <2> QED
    BY <1>5, <1>6, <1>7, <2>1, <2>2 DEF Inv, Losses, Awaiting, Receiving
<1> QED
  BY <1>8, <1>9, <1>11, <1>12 DEF Inv

LEMMA AnswerInv ==
    ASSUME Inv, Answer
    PROVE  Inv'
<1>1. worker \in Workers(func) /\ status \in Seq(Statuses)
  BY DEF Inv, TypeOK
<1>2. /\ Taken \in 1..Len(status) /\ Len(status) \in Nat /\ worker.job = Taken
  BY QueuedLast DEF Inv, Channel, Answer
<1>3. /\ worker' \in Workers(func) /\ worker'.queue = worker.queue
      /\ worker'.open = worker.open /\ worker'.state = "waiting" /\ worker'.job = 0
  BY <1>1 DEF Workers, States, Answer
<1>4. /\ status' \in Seq(Statuses) /\ Len(status') = Len(status)
      /\ status'[Taken].state = "answered"
      /\ \A q \in 1..Len(status) : q # Taken => status'[q] = status[q]
  <2>1. status' = [status EXCEPT ![Taken].state = "answered"]
    BY <1>2 DEF Answer
  <2> QED
    BY <1>1, <1>2, <2>1, OneStatus, SMTT(30)
<1>5. UNCHANGED <<inner, dead, thread, func, poisoned, pc, req>> /\ worker.state = "working"
  BY DEF Answer
<1>6. TypeOK'
  BY <1>3, <1>4, <1>5 DEF Inv, TypeOK
<1>7. Mutex'
  BY <1>3, <1>5 DEF Inv, Mutex
<1>8. Taken' = Taken
  BY <1>3, <1>4 DEF Taken
<1>9. Channel'
  <2>1. \A i \in 1..Len(worker'.queue) : worker'.queue[i] = Taken' + i
    BY <1>3, <1>8 DEF Inv, Channel
  <2>2. \A q \in 1..Len(status') : q > Taken' => status'[q].state = "queued"
    BY <1>2, <1>4, <1>8 DEF Inv, Channel
  <2>3. \A q \in 1..Taken' : q # worker'.job => status'[q].state \in {"answered", "dropped"}
    BY <1>2, <1>4, <1>8 DEF Inv, Channel
  <2> QED
    BY <1>3, <1>4, <2>1, <2>2, <2>3 DEF Inv, Channel, Receiving
<1>10. Losses' /\ Awaiting'
  <2>1. Broken' <=> Broken
    BY <1>5 DEF Broken
  <2>2. \A q \in 1..Len(status') : status'[q].state = "dropped" => Broken'
    BY <1>4, <2>1 DEF Inv, Losses
  <2> QED
    BY <1>3, <1>4, <1>5, <2>1, <2>2 DEF Inv, Losses, Awaiting, Receiving
<1> QED
  BY <1>6, <1>7, <1>9, <1>10 DEF Inv

LEMMA TimeoutInv ==
    ASSUME Inv, Timeout \/ TickDone
    PROVE  Inv'
<1> USE DEF Inv, Timeout, TickDone
<1>1. /\ worker' \in Workers(func) /\ worker'.queue = worker.queue
      /\ worker'.open = worker.open /\ worker'.state \in {"waiting", "ticking"}
      /\ worker'.job = worker.job /\ worker.state \in {"waiting", "ticking"}
      /\ UNCHANGED <<inner, dead, thread, func, poisoned, status, pc, req>>
  BY DEF TypeOK, Workers, States
<1>2. TypeOK'
  BY <1>1 DEF TypeOK
<1>3. Mutex'
  BY <1>1 DEF Mutex
<1>4. Channel'
  BY <1>1 DEF Channel, Taken, Receiving
<1>5. Losses' /\ Awaiting'
  BY <1>1 DEF Losses, Awaiting, Broken, Receiving
<1> QED
  BY <1>2, <1>3, <1>4, <1>5

\* A panicking job poisons its work, which is a reason to lose requests.
LEMMA PanicInv ==
    ASSUME Inv, Panic
    PROVE  Inv'
<1>1. worker.func \in 1..func /\ Receiving /\ poisoned \in SUBSET (1..func)
  BY DEF Inv, TypeOK, Workers, Panic, Receiving
<1>2. /\ poisoned' = poisoned \cup {worker.func}
      /\ UNCHANGED <<inner, dead, thread, func, pc, req>>
  BY DEF Panic
<1>3. Broken' /\ poisoned \subseteq poisoned' /\ poisoned' \in SUBSET (1..func)
  BY <1>1, <1>2 DEF Broken
<1>4. \A r \in 1..Len(status) :
        r > Taken \/ r = worker.job => r \in Queued \cup ({worker.job} \ {0})
  BY QueuedLast
<1> QED
  BY <1>1, <1>2, <1>3, <1>4, DropInv DEF Panic

LEMMA DisconnectInv ==
    ASSUME Inv, Disconnect
    PROVE  Inv'
<1>1. /\ worker.job = 0 /\ Receiving /\ poisoned \in SUBSET (1..func) /\ ~worker.open
      /\ worker.queue = <<>>
  BY DEF Inv, TypeOK, Channel, Disconnect, Receiving
<1>2. \A r \in 1..Len(status) : ~(r > Taken) /\ r # worker.job
  <2>1. Len(worker.queue) = 0
    BY <1>1, NoRequest
  <2>2. Taken = Len(status) /\ Len(status) \in Nat
    BY <2>1, QueuedLast
  <2> QED
    BY <1>1, <2>2
<1> QED
  BY <1>1, <1>2, DropInv DEF Disconnect

LEMMA FinishInv ==
    ASSUME Inv, Finish
    PROVE  Inv'
<1> USE DEF Inv, Finish
<1>1. /\ worker' \in Workers(func) /\ worker'.queue = worker.queue
      /\ worker'.open = worker.open /\ worker'.state = "finished" /\ worker'.job = worker.job
  BY DEF TypeOK, Workers, States
<1>2. TypeOK'
  BY <1>1 DEF TypeOK
<1>3. Mutex'
  BY <1>1 DEF Mutex
<1>4. Channel'
  BY <1>1 DEF Channel, Taken, Receiving
<1>5. Losses' /\ Awaiting'
  BY <1>1 DEF Losses, Awaiting, Broken, Receiving
<1> QED
  BY <1>2, <1>3, <1>4, <1>5

LEMMA NextInv ==
    ASSUME Inv, [Next]_vars
    PROVE  Inv'
<1>1. ASSUME NEW c \in Callers, Caller(c) PROVE Inv'
  BY <1>1, ReuseInv, SpawnInv, PushInv, PushPanicInv, LockPanicInv, AwaitInv, CloseInv,
     JoinedInv, SetWorkInv DEF Caller
<1>2. ASSUME Worker PROVE Inv'
  BY <1>2, StartInv, StartEndsInv, TakeInv, AnswerInv, TimeoutInv, PanicInv, DisconnectInv,
     FinishInv DEF Worker, Run
<1>3. ASSUME UNCHANGED vars PROVE Inv'
  <2>1. UNCHANGED <<inner, dead, thread, func, poisoned, worker, status, pc, req>>
    BY <1>3 DEF vars
  <2>2. TypeOK' /\ Mutex'
    BY <2>1 DEF Inv, TypeOK, Mutex
  <2>3. Channel'
    BY <2>1 DEF Inv, Channel, Taken, Receiving
  <2>4. Losses' /\ Awaiting'
    BY <2>1 DEF Inv, Losses, Awaiting, Broken, Receiving
  <2> QED
    BY <2>2, <2>3, <2>4 DEF Inv
<1> QED
  BY <1>1, <1>2, <1>3 DEF Next, Quiescent

-----------------------------------------------------------------------------
(* What the invariant says.                                                *)

\* The requests are those that were pushed.
LEMMA RequestsRange ==
    ASSUME Inv
    PROVE  Requests = 1..Len(status)
BY LenProperties DEF Inv, TypeOK, Requests

\* Everything taken before the running job is settled, and nothing after it runs.
LEMMA InOrder ==
    ASSUME Inv
    PROVE  ExecutedInOrder
<1> SUFFICES ASSUME NEW r \in 1..Len(status), status[r].state \in {"running", "answered"},
                    NEW q \in 1..Len(status), q < r
             PROVE  Settled(q)
  BY RequestsRange DEF ExecutedInOrder
<1>1. Taken \in 0..Len(status) /\ Len(status) \in Nat
  BY QueuedLast
<1>2. r \in 1..Taken
  <2>1. ~(r > Taken)
    BY DEF Inv, Channel
  <2> QED
    BY <1>1, <2>1
<1>3. q \in 1..Taken /\ q # Taken /\ q # 0
  BY <1>1, <1>2
<1>4. q # worker.job
  BY <1>3 DEF Inv, Channel
<1> QED
  BY <1>3, <1>4 DEF Inv, Channel, Settled

\* An awaited request is settled, running, or in a channel that still has a receiver.
LEMMA NotForgotten ==
    ASSUME Inv
    PROVE  NoCallerForgotten
<1> SUFFICES ASSUME NEW c \in Callers, pc[c] = "await"
             PROVE  Settled(req[c]) \/ (Receiving /\ req[c] \in Queued \cup {worker.job})
  BY DEF NoCallerForgotten
<1>1. req[c] \in 1..Len(status) /\ Taken \in 0..Len(status) /\ Len(status) \in Nat
  BY QueuedLast DEF Inv, Awaiting
<1>2. CASE req[c] > Taken
  <2>1. req[c] \in Queued
    BY <1>1, <1>2, QueuedLast
  <2>2. Receiving
    BY <2>1, QueuedLast, NoRequest DEF Inv, Channel, Queued
  <2> QED
    BY <2>1, <2>2
<1>3. CASE ~(req[c] > Taken)
  <2>1. req[c] \in 1..Taken /\ req[c] # 0
    BY <1>1, <1>3
  <2>2. CASE req[c] # worker.job
    BY <2>1, <2>2 DEF Inv, Channel, Settled
  <2>3. CASE req[c] = worker.job
    BY <2>1, <2>3 DEF Inv, Channel, Receiving
  <2> QED
    BY <2>2, <2>3
<1> QED
  BY <1>2, <1>3

-----------------------------------------------------------------------------
(* Theorems.                                                               *)

\* In every reachable state the mutex, the handle, the channel, the running job and
\* the fate of every request agree, in the way the four parts of Inv say.
THEOREM ThreadInvariant == Spec => []Inv
<1>1. Init => Inv
  BY InitInv
<1>2. Inv /\ [Next]_vars => Inv'
  BY NextInv
<1> QED
  BY <1>1, <1>2, PTL DEF Spec

\* Jobs run in the order their requests were pushed and one at a time, across every
\* thread checked_send spawns, close joins or a panic loses.
THEOREM InOrderAlways == Spec => []ExecutedInOrder
<1>1. Inv => ExecutedInOrder
  BY InOrder
<1> QED
  BY <1>1, ThreadInvariant, PTL

\* A caller in send_await is answered, told that its sender is gone, or still held
\* by a thread that can receive.
THEOREM NobodyForgotten == Spec => []NoCallerForgotten
<1>1. Inv => NoCallerForgotten
  BY NotForgotten
<1> QED
  BY <1>1, ThreadInvariant, PTL

\* A request is lost, or a caller panics, only after a job panicked or an Empty work
\* was in place.
THEOREM LossHasReason == Spec => []LossNeedsPanic
<1>1. Inv => LossNeedsPanic
  BY RequestsRange DEF Inv, Losses, Broken, LossNeedsPanic
<1> QED
  BY <1>1, ThreadInvariant, PTL

\* A call of close that returns leaves no thread and no request unsettled.
THEOREM CloseLeavesNothing == Spec => CloseDrains
<1>1. Inv /\ [Next]_vars =>
        [\A c \in Callers : pc[c] = "join" /\ pc'[c] = "idle" =>
           worker.state = "finished" /\ \A r \in Requests : Settled(r)]_vars
  <2> SUFFICES ASSUME Inv, Next, NEW c \in Callers, pc[c] = "join", pc'[c] = "idle"
               PROVE  worker.state = "finished" /\ \A r \in Requests : Settled(r)
    BY DEF vars
  <2>1. worker.state = "finished"
    <3>1. PICK d \in Callers : Caller(d)
      BY DEF Next, Worker, Run, Quiescent, Start, StartEnds, Take, Answer, Disconnect,
             Finish, Timeout, TickDone, Panic, vars
    <3>2. pc \in [Callers -> Places]
      BY DEF Inv, TypeOK
    <3> QED
      BY <3>1, <3>2 DEF Caller, Reuse, Spawn, Push, PushPanic, LockPanic, Await, Close,
                        Joined, SetWork
  <2>2. worker.job = 0 /\ worker.queue = <<>>
    BY <2>1 DEF Inv, Channel, Receiving
  <2>3. Taken = Len(status) /\ Len(status) \in Nat
    BY <2>2, QueuedLast, NoRequest
  <2>4. \A r \in 1..Len(status) : Settled(r)
    BY <2>2, <2>3 DEF Inv, Channel, Settled
  <2> QED
    BY <2>1, <2>4, RequestsRange
<1> QED
  BY <1>1, ThreadInvariant, PTL DEF Spec, CloseDrains

=============================================================================
