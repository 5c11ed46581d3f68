-------------------------- MODULE BackgroundThread --------------------------
(***************************************************************************)
(* thread/thread.rs: BackgroundThread<T, R>, the lazily spawned worker     *)
(* behind every thread of the engine.  `inner` is the mutex around the     *)
(* struct, `thread` says whether inner.thread is Some, `worker` is the OS  *)
(* thread with the receiving end of its channel, `funcs` lists the values  *)
(* inner.func has held (set_work appends one) and `poisoned` the ones      *)
(* whose own mutex a panicking job poisoned.                               *)
(*                                                                         *)
(* One worker record is enough: checked_send spawns only when the previous *)
(* thread is finished or was joined by close, and a caller that panics     *)
(* with a detached thread poisons the mutex for good.                      *)
(*                                                                         *)
(* A request is numbered when it is pushed.  `status` keeps what became of *)
(* each: its `done` sender is in the channel, in the hands of a running    *)
(* job, used, or dropped unused.  WithTimer, whose job keeps `done`, is    *)
(* module Finder.                                                          *)
(***************************************************************************)
EXTENDS Integers, Sequences

CONSTANTS
  Callers,      \* threads that share the BackgroundThread
  Nobody,       \* the holder of a free mutex
  Works,        \* the works inner.func may be given, the first one by new
  MaxRequests,  \* bound: requests pushed in a behaviour
  MaxPanics     \* bound: jobs that panic in a behaviour

WorkKinds == {"NoTimeout", "WithTimeout", "Empty"}

ASSUME NobodyAssumption == Nobody \notin Callers
ASSUME WorksAssumption == Works \in Seq(WorkKinds) /\ Works # <<>>
ASSUME BoundsAssumption == MaxRequests \in Nat /\ MaxPanics \in Nat

VARIABLES
  inner,     \* the holder of the mutex around BackgroundThreadInner
  dead,      \* that mutex is poisoned
  thread,    \* inner.thread is Some
  func,      \* index in Works of the current inner.func
  poisoned,  \* indexes of the works whose mutex is poisoned
  worker,    \* the thread last spawned: state, func, queue, open, job
  status,    \* per request: state and the work it was pushed to
  pc,        \* per caller: what it is doing
  req,       \* per caller: the request it waits for
  panics     \* jobs that panicked

vars == <<inner, dead, thread, func, poisoned, worker, status, pc, req, panics>>

Requests == DOMAIN status

Init ==
  /\ inner = Nobody /\ dead = FALSE
  /\ thread = FALSE
  /\ func = 1 /\ poisoned = {}
  /\ worker = [state |-> "finished", func |-> 1, queue |-> <<>>, open |-> FALSE, job |-> 0]
  /\ status = <<>>
  /\ pc = [c \in Callers |-> "idle"]
  /\ req = [c \in Callers |-> 0]
  /\ panics = 0

(* The receiver is dropped when `run` returns or unwinds; before that a    *)
(* send succeeds whether or not the thread has started.                    *)
Receiving == worker.state \in {"starting", "waiting", "working", "ticking"}

Fresh == [state |-> "starting", func |-> func, queue |-> <<>>, open |-> TRUE, job |-> 0]

-----------------------------------------------------------------------------
(* Callers                                                                 *)

(* checked_send up to `is_finished`, with a thread that is still there.    *)
Reuse(c) ==
  /\ pc[c] = "idle" /\ inner = Nobody /\ ~dead
  /\ Len(status) < MaxRequests
  /\ thread /\ worker.state # "finished"
  /\ inner' = c
  /\ thread' = FALSE
  /\ pc' = [pc EXCEPT ![c] = "push"]
  /\ UNCHANGED <<dead, func, poisoned, worker, status, req, panics>>

(* checked_send that joins a finished thread, if any, and spawns one.      *)
Spawn(c) ==
  /\ pc[c] = "idle" /\ inner = Nobody /\ ~dead
  /\ Len(status) < MaxRequests
  /\ thread => worker.state = "finished"
  /\ inner' = c
  /\ thread' = FALSE
  /\ worker' = Fresh
  /\ pc' = [pc EXCEPT ![c] = "push"]
  /\ UNCHANGED <<dead, func, poisoned, status, req, panics>>

(* Mutant of Push: maybe_send, whatever became of the receiver.            *)
PushBlind(c) ==
  /\ pc[c] = "push"
  /\ status' = Append(status, [state |-> "queued", func |-> worker.func])
  /\ worker' = [worker EXCEPT !.queue = Append(@, Len(status'))]
  /\ thread' = TRUE
  /\ inner' = Nobody
  /\ pc' = [pc EXCEPT ![c] = "await"] /\ req' = [req EXCEPT ![c] = Len(status')]
  /\ UNCHANGED <<dead, func, poisoned, panics>>

(* tx.must_send on a live channel.  The caller then waits on the receiver  *)
(* (send_await) or goes on without it (send).                              *)
Push(c) ==
  /\ pc[c] = "push" /\ Receiving
  /\ status' = Append(status, [state |-> "queued", func |-> worker.func])
  /\ worker' = [worker EXCEPT !.queue = Append(@, Len(status'))]
  /\ thread' = TRUE
  /\ inner' = Nobody
  /\ \/ pc' = [pc EXCEPT ![c] = "await"] /\ req' = [req EXCEPT ![c] = Len(status')]
     \/ pc' = [pc EXCEPT ![c] = "idle"] /\ req' = req
  /\ UNCHANGED <<dead, func, poisoned, panics>>

(* tx.must_send after the receiver is gone: unwrap panics with the guard   *)
(* held, which poisons the mutex and detaches the thread.                  *)
PushPanic(c) ==
  /\ pc[c] = "push" /\ ~Receiving
  /\ dead' = TRUE
  /\ inner' = Nobody
  /\ worker' = [worker EXCEPT !.open = FALSE]
  /\ pc' = [pc EXCEPT ![c] = "panicked"]
  /\ UNCHANGED <<thread, func, poisoned, status, req, panics>>

(* Every operation locks with lock().unwrap().                             *)
LockPanic(c) ==
  /\ pc[c] = "idle" /\ dead
  /\ pc' = [pc EXCEPT ![c] = "panicked"]
  /\ UNCHANGED <<inner, dead, thread, func, poisoned, worker, status, req, panics>>

(* must_recv: the answer, or a panic when `done` was dropped.              *)
Await(c) ==
  /\ pc[c] = "await"
  /\ \/ status[req[c]].state = "answered" /\ pc' = [pc EXCEPT ![c] = "idle"]
     \/ status[req[c]].state = "dropped" /\ pc' = [pc EXCEPT ![c] = "panicked"]
  /\ req' = [req EXCEPT ![c] = 0]
  /\ UNCHANGED <<inner, dead, thread, func, poisoned, worker, status, panics>>

(* close: takes the thread and drops tx; the mutex is held over the join.  *)
Close(c) ==
  /\ pc[c] = "idle" /\ inner = Nobody /\ ~dead
  /\ thread
  /\ inner' = c
  /\ thread' = FALSE
  /\ worker' = [worker EXCEPT !.open = FALSE]
  /\ pc' = [pc EXCEPT ![c] = "join"]
  /\ UNCHANGED <<dead, func, poisoned, status, req, panics>>

Joined(c) ==
  /\ pc[c] = "join" /\ worker.state = "finished"
  /\ inner' = Nobody
  /\ pc' = [pc EXCEPT ![c] = "idle"]
  /\ UNCHANGED <<dead, thread, func, poisoned, worker, status, req, panics>>

(* set_work: a thread already spawned keeps the work it was spawned with.  *)
SetWork(c) ==
  /\ pc[c] = "idle" /\ inner = Nobody /\ ~dead
  /\ func < Len(Works)
  /\ func' = func + 1
  /\ UNCHANGED <<inner, dead, thread, poisoned, worker, status, pc, req, panics>>

-----------------------------------------------------------------------------
(* The spawned thread                                                      *)

(* Dropping the receiver drops the queued messages with their senders.     *)
DropReceiver(lost) ==
  /\ worker' = [worker EXCEPT !.state = "ended", !.queue = <<>>, !.job = 0]
  /\ status' = [r \in Requests |->
                  IF r \in lost THEN [status[r] EXCEPT !.state = "dropped"] ELSE status[r]]

Queued == {worker.queue[i] : i \in DOMAIN worker.queue}

(* func.l().run(rx): enters the loop of the work.                          *)
Start ==
  /\ worker.state = "starting"
  /\ worker.func \notin poisoned /\ Works[worker.func] # "Empty"
  /\ worker' = [worker EXCEPT !.state = "waiting"]
  /\ UNCHANGED <<inner, dead, thread, func, poisoned, status, pc, req, panics>>

(* The lock of a poisoned work panics, and an Empty work returns at once.  *)
StartEnds ==
  /\ worker.state = "starting"
  /\ worker.func \in poisoned \/ Works[worker.func] = "Empty"
  /\ DropReceiver(Queued)
  /\ UNCHANGED <<inner, dead, thread, func, poisoned, pc, req, panics>>

(* Mutant of Take: the channel as a stack.                                 *)
TakeNewest ==
  /\ worker.state = "waiting" /\ worker.queue # <<>>
  /\ LET r == worker.queue[Len(worker.queue)] IN
       /\ worker' = [worker EXCEPT !.state = "working", !.job = r,
                       !.queue = SubSeq(@, 1, Len(@) - 1)]
       /\ status' = [status EXCEPT ![r].state = "running"]
  /\ UNCHANGED <<inner, dead, thread, func, poisoned, pc, req, panics>>

Take ==
  /\ worker.state = "waiting" /\ worker.queue # <<>>
  /\ worker' = [worker EXCEPT !.state = "working", !.queue = Tail(@), !.job = Head(worker.queue)]
  /\ status' = [status EXCEPT ![Head(worker.queue)].state = "running"]
  /\ UNCHANGED <<inner, dead, thread, func, poisoned, pc, req, panics>>

(* Mutant of Answer: the loop of the work left after one request.          *)
AnswerAndLeave ==
  /\ worker.state = "working"
  /\ worker' = [worker EXCEPT !.state = "ended", !.queue = <<>>, !.job = 0]
  /\ status' = [r \in Requests |->
                  IF r = worker.job THEN [status[r] EXCEPT !.state = "answered"]
                  ELSE IF r \in Queued THEN [status[r] EXCEPT !.state = "dropped"]
                  ELSE status[r]]
  /\ UNCHANGED <<inner, dead, thread, func, poisoned, pc, req, panics>>

(* done.send(r).ok(): an answer nobody waits for is dropped silently.      *)
Answer ==
  /\ worker.state = "working"
  /\ worker' = [worker EXCEPT !.state = "waiting", !.job = 0]
  /\ status' = [status EXCEPT ![worker.job].state = "answered"]
  /\ UNCHANGED <<inner, dead, thread, func, poisoned, pc, req, panics>>

(* WithTimeout: recv_timeout ran out with nothing queued.                  *)
Timeout ==
  /\ worker.state = "waiting" /\ worker.queue = <<>> /\ worker.open
  /\ Works[worker.func] = "WithTimeout"
  /\ worker' = [worker EXCEPT !.state = "ticking"]
  /\ UNCHANGED <<inner, dead, thread, func, poisoned, status, pc, req, panics>>

TickDone ==
  /\ worker.state = "ticking"
  /\ worker' = [worker EXCEPT !.state = "waiting"]
  /\ UNCHANGED <<inner, dead, thread, func, poisoned, status, pc, req, panics>>

(* A job unwinds: `done`, the receiver and the guard of the work go.       *)
Panic ==
  /\ worker.state \in {"working", "ticking"}
  /\ panics < MaxPanics
  /\ panics' = panics + 1
  /\ poisoned' = poisoned \cup {worker.func}
  /\ DropReceiver(Queued \cup ({worker.job} \ {0}))
  /\ UNCHANGED <<inner, dead, thread, func, pc, req>>

(* Mutants of Disconnect: queued requests left behind, and a periodic work *)
(* that takes Disconnected for one more timeout.                           *)
DisconnectEarly ==
  /\ worker.state = "waiting" /\ ~worker.open
  /\ DropReceiver({})
  /\ UNCHANGED <<inner, dead, thread, func, poisoned, pc, req, panics>>

DisconnectMissed ==
  /\ worker.state = "waiting" /\ worker.queue = <<>> /\ ~worker.open
  /\ Works[worker.func] # "WithTimeout"
  /\ DropReceiver({})
  /\ UNCHANGED <<inner, dead, thread, func, poisoned, pc, req, panics>>

(* recv fails only when the channel is empty and tx was dropped.           *)
Disconnect ==
  /\ worker.state = "waiting" /\ worker.queue = <<>> /\ ~worker.open
  /\ DropReceiver({})
  /\ UNCHANGED <<inner, dead, thread, func, poisoned, pc, req, panics>>

Finish ==
  /\ worker.state = "ended"
  /\ worker' = [worker EXCEPT !.state = "finished"]
  /\ UNCHANGED <<inner, dead, thread, func, poisoned, status, pc, req, panics>>

-----------------------------------------------------------------------------
Caller(c) ==
  \/ Reuse(c) \/ Spawn(c) \/ Push(c) \/ PushPanic(c) \/ LockPanic(c)
  \/ Await(c) \/ Close(c) \/ Joined(c) \/ SetWork(c)

Run == Start \/ StartEnds \/ Take \/ Answer \/ Disconnect \/ Finish

Worker == Run \/ Timeout \/ TickDone \/ Panic

(* Every caller is between two calls or gone, and the thread has nothing   *)
(* to do: the system may rest here.                                        *)
Quiescent ==
  /\ \A c \in Callers : pc[c] \in {"idle", "panicked"}
  /\ worker.state \in {"waiting", "finished"} /\ worker.queue = <<>>
  /\ UNCHANGED vars

Next == (\E c \in Callers : Caller(c)) \/ Worker \/ Quiescent

Spec == Init /\ [][Next]_vars

(* The operating system runs the thread and a caller that is not blocked,  *)
(* and a job returns.  No caller has to make a call, and a mutex owes no   *)
(* caller the lock.                                                        *)
FairSpec ==
  /\ Spec
  /\ WF_vars(Run) /\ WF_vars(TickDone)
  /\ \A c \in Callers : WF_vars(Push(c) \/ PushPanic(c) \/ Await(c) \/ Joined(c))

-----------------------------------------------------------------------------
(* Properties                                                              *)

Settled(r) == status[r].state \in {"answered", "dropped"}

(* Jobs run in the order in which the requests were pushed and one at a    *)
(* time, however many threads were spawned, closed or lost in between.     *)
ExecutedInOrder ==
  \A r \in Requests : status[r].state \in {"running", "answered"} =>
    \A s \in Requests : s < r => Settled(s)

(* A caller that waits is never forgotten: its request is answered or its  *)
(* sender dropped, or a thread that can still receive holds it.            *)
NoCallerForgotten ==
  \A c \in Callers : pc[c] = "await" =>
    Settled(req[c]) \/ (Receiving /\ req[c] \in Queued \cup {worker.job})

(* A request is lost and a caller panics only once a job has panicked or   *)
(* an Empty work was in place: closing, respawning and replacing the work  *)
(* lose nothing.                                                           *)
LossNeedsPanic ==
  (\E r \in Requests : status[r].state = "dropped") \/ (\E c \in Callers : pc[c] = "panicked")
    => poisoned # {} \/ \E w \in 1..func : Works[w] = "Empty"

(* Without an Empty work and without a panicking job, no caller of this    *)
(* type ever panics in must_send or must_recv.                             *)
CallersSurvive == \A c \in Callers : pc[c] # "panicked"

(* close returns only when every request pushed before it has been         *)
(* answered or dropped and no thread is left.                              *)
CloseDrains ==
  [][\A c \in Callers : pc[c] = "join" /\ pc'[c] = "idle" =>
       worker.state = "finished" /\ \A r \in Requests : Settled(r)]_vars

(* A caller that waits for an answer gets one, or learns that none will    *)
(* come, although nobody else calls again; and close comes back, periodic  *)
(* jobs and queued requests notwithstanding.                               *)
CallsReturn ==
  \A c \in Callers :
    /\ pc[c] = "await" ~> pc[c] # "await"
    /\ pc[c] = "join" ~> pc[c] # "join"
=============================================================================
