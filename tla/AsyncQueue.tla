----------------------------- MODULE AsyncQueue -----------------------------
(***************************************************************************)
(* The multi-producer, single-consumer queue notstd::util::async::         *)
(* basic_async_queue and its shared implementation async_queue_impl.       *)
(*                                                                         *)
(* push, stop and the destructor of the wrapper may be called from any     *)
(* thread: each only posts a task to the queue's default executor, which   *)
(* runs its tasks one at a time and in order (an io_context run by one     *)
(* thread, or a strand).  async_pop runs on the caller's thread: it        *)
(* installs the handler, raises state_ and then posts a check, so a task   *)
(* already queued can complete the pop between the last two steps.  The    *)
(* handler is invoked inline when its executor is the default one, and     *)
(* posted to its own executor otherwise.                                   *)
(*                                                                         *)
(* A pushed value is named by the number of the push that carried it, a    *)
(* handler by the number of the pop that installed it.  The client starts  *)
(* a pop only when the one before has completed: the queue has one slot.   *)
(***************************************************************************)
EXTENDS Naturals, Sequences

CONSTANTS MaxPushes, MaxPops, MaxStops     \* bounds on the client's calls

ASSUME BoundsAreNat ==
    /\ MaxPushes \in Nat
    /\ MaxPops \in Nat
    /\ MaxStops \in Nat

VARIABLES
    state_,     \* the atomic flag: "not_waiting" or "waiting"
    handler_,   \* the one handler slot
    values_,    \* pushes whose task has run and that no pop has taken
    ec_,        \* TRUE: operation_aborted is stored for the next completion
    tasks,      \* FIFO of the default executor
    posted,     \* FIFO of the other executor: completions on their way
    unposted,   \* calls of async_pop that have raised state_, not yet posted
    alive,      \* the wrapper has not been destroyed
    pushes, pops, stops,    \* calls made so far
    done        \* the completions the client has received, in order

vars == <<state_, handler_, values_, ec_, tasks, posted, unposted, alive,
          pushes, pops, stops, done>>

Executors == {"default", "other"}
NoHandler == [pop |-> 0, exec |-> "none"]
Task      == [op : {"push", "stop", "check"}, v : 0..MaxPushes]
Op        == [ec : BOOLEAN, v : 0..MaxPushes]
Completion == [pop : 1..MaxPops, ec : BOOLEAN, v : 0..MaxPushes]

Init ==
    /\ state_ = "not_waiting"
    /\ handler_ = NoHandler
    /\ values_ = <<>>
    /\ ec_ = FALSE
    /\ tasks = <<>>
    /\ posted = <<>>
    /\ unposted = 0
    /\ alive = TRUE
    /\ pushes = 0 /\ pops = 0 /\ stops = 0
    /\ done = <<>>

-----------------------------------------------------------------------------
(* Calls of the client.                                                    *)

\* Mutant of PushTask: numbered before the push is counted.
PushTaskEarly(n) == [op |-> "push", v |-> n - 1]

PushTask(n) == [op |-> "push", v |-> n]
StopTask    == [op |-> "stop", v |-> 0]
CheckTask   == [op |-> "check", v |-> 0]

Push ==
    /\ alive
    /\ pushes < MaxPushes
    /\ pushes' = pushes + 1
    /\ tasks' = Append(tasks, PushTask(pushes + 1))
    /\ UNCHANGED <<state_, handler_, values_, ec_, posted, unposted, alive,
                   pops, stops, done>>

PostStop ==
    /\ tasks' = Append(tasks, StopTask)
    /\ UNCHANGED <<state_, handler_, values_, ec_, posted, unposted,
                   pushes, pops, done>>

Stop ==
    /\ alive
    /\ stops < MaxStops
    /\ stops' = stops + 1
    /\ PostStop
    /\ UNCHANGED alive

\* The destructor, and the move assignment that replaces this queue: the
\* tasks in flight keep the implementation alive.  The client does not destroy
\* the queue while a call of async_pop is still running.
Destroy ==
    /\ alive
    /\ unposted = 0
    /\ alive' = FALSE
    /\ PostStop
    /\ UNCHANGED stops

\* Mutant of AsyncPop: a pop allowed whenever assert(state_ == not_waiting) of
\* async_pop holds, also while a completion is on its way to the other executor.
AsyncPopAsserted(exec) ==
    /\ alive
    /\ pops < MaxPops
    /\ state_ = "not_waiting"
    /\ pops' = pops + 1
    /\ handler_' = [pop |-> pops + 1, exec |-> exec]
    /\ state_' = "waiting"
    /\ unposted' = unposted + 1
    /\ UNCHANGED <<values_, ec_, tasks, posted, alive, pushes, stops, done>>

\* The handler is stored before state_ is raised; the check is not posted yet.
\* A completion may start the next pop while the call before is at that point.
AsyncPop(exec) ==
    /\ alive
    /\ pops < MaxPops
    /\ pops = Len(done)
    /\ pops' = pops + 1
    /\ handler_' = [pop |-> pops + 1, exec |-> exec]
    /\ state_' = "waiting"
    /\ unposted' = unposted + 1
    /\ UNCHANGED <<values_, ec_, tasks, posted, alive, pushes, stops, done>>

\* Mutant of PostCheck: the check is forgotten.
ForgetCheck ==
    /\ unposted > 0
    /\ unposted' = unposted - 1
    /\ UNCHANGED <<state_, handler_, values_, ec_, tasks, posted, alive, pushes,
                   pops, stops, done>>

PostCheck ==
    /\ unposted > 0
    /\ unposted' = unposted - 1
    /\ tasks' = Append(tasks, CheckTask)
    /\ UNCHANGED <<state_, handler_, values_, ec_, posted, alive, pushes,
                   pops, stops, done>>

-----------------------------------------------------------------------------
(* Tasks of the default executor.                                          *)

\* op(): run-time use of the slot.  The handler is moved out, then called.
Invoke(op) ==
    /\ done' = Append(done, [pop |-> handler_.pop, ec |-> op.ec, v |-> op.v])
    /\ handler_' = NoHandler

Complete(op) ==
    \/ /\ handler_.exec = "default"
       /\ Invoke(op)
       /\ UNCHANGED posted
    \/ /\ handler_.exec # "default"
       /\ posted' = Append(posted, op)
       /\ UNCHANGED <<handler_, done>>

\* maybe_complete() entered with values vs and error flag err.
Idle(vs, err) ==
    /\ (vs = <<>> /\ ~err) \/ state_ # "waiting"
    /\ values_' = vs
    /\ ec_' = err
    /\ UNCHANGED <<state_, handler_, posted, done>>

CompleteError(vs, err) ==
    /\ state_ = "waiting"
    /\ err
    /\ state_' = "not_waiting"
    /\ ec_' = FALSE
    /\ values_' = vs
    /\ Complete([ec |-> TRUE, v |-> 0])

CompleteValue(vs, err) ==
    /\ state_ = "waiting"
    /\ ~err
    /\ vs # <<>>
    /\ state_' = "not_waiting"
    /\ ec_' = err
    /\ values_' = Tail(vs)
    /\ Complete([ec |-> FALSE, v |-> Head(vs)])

MaybeComplete(vs, err) ==
    \/ Idle(vs, err)
    \/ CompleteError(vs, err)
    \/ CompleteValue(vs, err)

RunTask(op) ==
    /\ tasks # <<>>
    /\ Head(tasks).op = op
    /\ tasks' = Tail(tasks)
    /\ UNCHANGED <<unposted, alive, pushes, pops, stops>>

\* Mutant of RunPush: the value is stored and no pop is completed.
RunPushStores ==
    /\ RunTask("push")
    /\ values_' = Append(values_, Head(tasks).v)
    /\ UNCHANGED <<state_, handler_, ec_, posted, done>>

RunPush ==
    /\ RunTask("push")
    /\ MaybeComplete(Append(values_, Head(tasks).v), ec_)

\* Mutant of RunStop: the values are not cleared.
RunStopKeeps ==
    /\ RunTask("stop")
    /\ MaybeComplete(values_, TRUE)

RunStop ==
    /\ RunTask("stop")
    /\ MaybeComplete(<<>>, TRUE)

RunCheck ==
    /\ RunTask("check")
    /\ MaybeComplete(values_, ec_)

\* A completion posted to the handler's own executor.
RunPosted ==
    /\ posted # <<>>
    /\ posted' = Tail(posted)
    /\ Invoke(Head(posted))
    /\ UNCHANGED <<state_, values_, ec_, tasks, unposted, alive, pushes,
                   pops, stops>>

-----------------------------------------------------------------------------
Next ==
    \/ Push
    \/ Stop
    \/ Destroy
    \/ \E exec \in Executors : AsyncPop(exec)
    \/ PostCheck
    \/ RunPush
    \/ RunStop
    \/ RunCheck
    \/ RunPosted

\* A call that has begun returns, and an executor runs what it was given: the
\* guards in guarded_handler keep both executors running while a pop is pending.
Fairness ==
    /\ WF_vars(PostCheck)
    /\ WF_vars(RunPush \/ RunStop \/ RunCheck)
    /\ WF_vars(RunPosted)

Spec == Init /\ [][Next]_vars /\ Fairness

-----------------------------------------------------------------------------
(* Properties.                                                             *)

\* Every variable has its type; the default executor's queue holds tasks.
TypeOK ==
    /\ state_ \in {"not_waiting", "waiting"}
    /\ handler_ \in [pop : 1..MaxPops, exec : Executors] \cup {NoHandler}
    /\ values_ \in Seq(1..MaxPushes)
    /\ ec_ \in BOOLEAN
    /\ tasks \in Seq(Task)
    /\ \A i \in 1..Len(tasks) : tasks[i].op = "push" => tasks[i].v > 0
    /\ posted \in Seq(Op)
    /\ unposted \in 0..pops
    /\ alive \in BOOLEAN
    /\ pushes \in 0..MaxPushes
    /\ pops \in 0..MaxPops
    /\ stops \in 0..MaxStops
    /\ done \in Seq(Completion)

\* The slot is never shared and never leaks: it holds the handler of the
\* outstanding pop, and exactly one party may touch it, the default executor
\* (state_ is raised) or the one completion on its way to the other executor.
\* With no pop outstanding the slot is empty, so async_pop overwrites nothing
\* and a posted completion always finds a handler to call.
HandlerAccounted ==
    \/ /\ pops = Len(done)
       /\ handler_ = NoHandler
       /\ state_ = "not_waiting"
       /\ posted = <<>>
    \/ /\ pops = Len(done) + 1
       /\ handler_.pop = pops
       /\ \/ state_ = "waiting" /\ posted = <<>>
          \/ state_ = "not_waiting" /\ Len(posted) = 1 /\ handler_.exec = "other"

\* Each pop completes once and in the order the pops were started, whichever
\* executors their handlers run on.
CompletionsInOrder == \A i \in 1..Len(done) : done[i].pop = i

\* Both: a pop that was started is completed once and in turn, or is the one
\* outstanding pop, whose handler is in the slot with one owner.
PopsAccounted == HandlerAccounted /\ CompletionsInOrder

\* No lost wake-up: a waiting pop that something could complete always has a
\* task before it, or a check about to be posted, that will complete it.
NoLostWakeup ==
    state_ = "waiting" /\ (values_ # <<>> \/ ec_)
        => unposted > 0 \/ \E i \in 1..Len(tasks) : tasks[i].op = "check"

\* An outstanding pop is answered once a value, a stop or the destruction of
\* the queue has been requested, even when the wrapper no longer exists.
HasNews == values_ # <<>> \/ ec_ \/ \E i \in 1..Len(tasks) : tasks[i].op # "check"
PopsAnswered == (pops > Len(done) /\ HasNews) ~> (pops = Len(done))

\* async_queue.hpp:50-51 says that stop makes "all subsequent async_wait
\* operations" fail: once a pop has failed, every later one does.
\* maybe_complete resets ec_ as it hands the error out, so only one pop fails
\* per stop: the run that checks this refutes it.
StoppedPopsFail ==
    \A i, j \in 1..Len(done) : i < j /\ done[i].ec => done[j].ec

\* The queue as its client sees it: box holds the messages of push and stop in
\* the order of the calls, whatever the executors interleave.
Pushed(vs) == [i \in DOMAIN vs |-> PushTask(vs[i])]
Sent(s) ==
    LET F[i \in 0..Len(s)] ==
          IF i = 0 THEN <<>>
          ELSE IF s[i].op = "check" THEN F[i - 1] ELSE Append(F[i - 1], s[i])
    IN F[Len(s)]
Box == Pushed(values_) \o Sent(tasks)
Answers(s) == [i \in DOMAIN s |-> [ec |-> s[i].ec, v |-> s[i].v]]

Mail == INSTANCE Mailbox WITH
    Messages <- {PushTask(n) : n \in 1..MaxPushes} \cup {StopTask},
    Stop     <- StopTask,
    Answer   <- LAMBDA m : [ec |-> FALSE, v |-> m.v],
    Failure  <- [ec |-> TRUE, v |-> 0],
    box      <- Box,
    error    <- ec_,
    waiting  <- state_ = "waiting",
    answers  <- Answers(done) \o posted

\* The queue implements the mailbox: a pop is answered with the oldest value no
\* stop has cleared, or once with the stop's error, in the order of the calls.
MailboxSpec == Mail!Spec
=============================================================================
