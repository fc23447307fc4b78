-------------------------- MODULE AsyncQueueProofs --------------------------
(***************************************************************************)
(* Safety of AsyncQueue for every number of pushes, pops and stops: the    *)
(* handler slot is owned by one party at a time, completions are given in  *)
(* the order of the pops, and no wake-up is lost.  The three are inductive *)
(* together with the types, and with them the queue implements Mailbox.    *)
(***************************************************************************)
EXTENDS AsyncQueue, SequenceTheorems, WellFoundedInduction, TLAPS

IInv == TypeOK /\ HandlerAccounted /\ CompletionsInOrder /\ NoLostWakeup

\* The completion that Complete gives or posts has its type, and the slot and
\* the history advance together: the heart of every task's proof.
LEMMA CompleteStep ==
    ASSUME IInv, NEW op \in Op, Complete(op),
           state_ = "waiting", state_' = "not_waiting", pops' = pops
    PROVE  /\ handler_' \in [pop : 1..MaxPops, exec : Executors] \cup {NoHandler}
           /\ posted' \in Seq(Op)
           /\ done' \in Seq(Completion)
           /\ HandlerAccounted'
           /\ CompletionsInOrder'
<1> USE BoundsAreNat DEF IInv, TypeOK
<1>1. pops = Len(done) + 1 /\ handler_.pop = pops /\ posted = <<>>
  BY DEF HandlerAccounted
<1>2. handler_ # NoHandler /\ handler_.exec \in Executors /\ handler_.pop \in 1..MaxPops
  BY <1>1 DEF NoHandler
<1>3. CASE handler_.exec = "default" /\ Invoke(op) /\ UNCHANGED posted
  <2>1. [pop |-> handler_.pop, ec |-> op.ec, v |-> op.v] \in Completion
    BY <1>2 DEF Completion, Op
  <2>2. done' \in Seq(Completion) /\ Len(done') = Len(done) + 1
    BY <1>3, <2>1 DEF Invoke
  <2>3. CompletionsInOrder'
    BY <1>1, <1>3, <2>1 DEF CompletionsInOrder, Invoke
  <2>4. HandlerAccounted'
    BY <1>1, <1>3, <2>2 DEF HandlerAccounted, Invoke
  <2> QED BY <1>1, <1>3, <2>2, <2>3, <2>4 DEF Invoke
<1>4. CASE /\ handler_.exec # "default"
           /\ posted' = Append(posted, op)
           /\ UNCHANGED <<handler_, done>>
  <2>1. posted' \in Seq(Op) /\ Len(posted') = 1
    BY <1>1, <1>4
  <2>2. handler_.exec = "other"
    BY <1>2, <1>4 DEF Executors
  <2>3. HandlerAccounted'
    BY <1>1, <1>4, <2>1, <2>2 DEF HandlerAccounted
  <2> QED BY <1>2, <1>4, <2>1, <2>3 DEF CompletionsInOrder
<1> QED BY <1>3, <1>4 DEF Complete

\* Every outcome of maybe_complete keeps the invariant, whatever task entered it.
LEMMA MaybeCompleteStep ==
    ASSUME IInv,
           NEW vs \in Seq(1..MaxPushes), NEW err \in BOOLEAN,
           MaybeComplete(vs, err),
           tasks # <<>>, tasks' = Tail(tasks),
           UNCHANGED <<unposted, alive, pushes, pops, stops>>
    PROVE  IInv'
<1> USE BoundsAreNat DEF IInv
<1>1. /\ tasks' \in Seq(Task)
      /\ Len(tasks') = Len(tasks) - 1
      /\ \A i \in 1..Len(tasks') : tasks'[i] = tasks[i + 1]
  BY HeadTailProperties DEF TypeOK
<1>2. \A i \in 1..Len(tasks') : tasks'[i].op = "push" => tasks'[i].v > 0
  BY <1>1 DEF TypeOK
<1>3. CASE Idle(vs, err)
  <2>1. TypeOK'
    BY <1>1, <1>2, <1>3 DEF TypeOK, Idle
  <2>2. HandlerAccounted' /\ CompletionsInOrder'
    BY <1>3 DEF Idle, HandlerAccounted, CompletionsInOrder
  <2>3. NoLostWakeup'
    BY <1>3 DEF Idle, NoLostWakeup
  <2> QED BY <2>1, <2>2, <2>3
<1>4. CASE CompleteError(vs, err)
  <2>1. [ec |-> TRUE, v |-> 0] \in Op
    BY DEF Op
  <2>2. state_ = "waiting" /\ state_' = "not_waiting"
    BY <1>4 DEF CompleteError
  <2>3. Complete([ec |-> TRUE, v |-> 0])
    BY <1>4 DEF CompleteError
  <2>4. TypeOK'
    BY <1>1, <1>2, <1>4, <2>1, <2>2, <2>3, CompleteStep DEF TypeOK, CompleteError
  <2>5. NoLostWakeup'
    BY <2>2 DEF NoLostWakeup
  <2> QED BY <2>1, <2>2, <2>3, <2>4, <2>5, CompleteStep
<1>5. CASE CompleteValue(vs, err)
  <2>1. [ec |-> FALSE, v |-> Head(vs)] \in Op /\ Tail(vs) \in Seq(1..MaxPushes)
    BY <1>5, HeadTailProperties DEF Op, CompleteValue
  <2>2. state_ = "waiting" /\ state_' = "not_waiting"
    BY <1>5 DEF CompleteValue
  <2>3. Complete([ec |-> FALSE, v |-> Head(vs)])
    BY <1>5 DEF CompleteValue
  <2>4. TypeOK'
    BY <1>1, <1>2, <1>5, <2>1, <2>2, <2>3, CompleteStep DEF TypeOK, CompleteValue
  <2>5. NoLostWakeup'
    BY <2>2 DEF NoLostWakeup
  <2> QED BY <2>1, <2>2, <2>3, <2>4, <2>5, CompleteStep
<1> QED BY <1>3, <1>4, <1>5 DEF MaybeComplete

\* A task put at the end of the default executor's queue disturbs nothing.
LEMMA AppendTask ==
    ASSUME IInv, NEW t \in Task, t.op = "push" => t.v > 0,
           tasks' = Append(tasks, t)
    PROVE  /\ tasks' \in Seq(Task)
           /\ \A i \in 1..Len(tasks') : tasks'[i].op = "push" => tasks'[i].v > 0
           /\ \A i \in 1..Len(tasks) : tasks'[i] = tasks[i]
           /\ Len(tasks') = Len(tasks) + 1
           /\ tasks'[Len(tasks) + 1] = t
BY AppendProperties DEF IInv, TypeOK

LEMMA InitIInv == Init => IInv
<1> SUFFICES ASSUME Init PROVE IInv
  OBVIOUS
<1>1. values_ \in Seq(1..MaxPushes) /\ posted \in Seq(Op) /\ done \in Seq(Completion)
  BY EmptySeq DEF Init
<1>2. tasks \in Seq(Task) /\ Len(tasks) = 0
  BY EmptySeq DEF Init
<1>3. ec_ \in BOOLEAN /\ alive \in BOOLEAN
  BY DEF Init
<1>4. /\ unposted \in 0..pops /\ pops \in 0..MaxPops
      /\ pushes \in 0..MaxPushes
      /\ stops \in 0..MaxStops
  BY BoundsAreNat DEF Init
<1>5. /\ state_ \in {"not_waiting", "waiting"}
      /\ handler_ \in [pop : 1..MaxPops, exec : Executors] \cup {NoHandler}
  BY DEF Init
<1>6. TypeOK
  BY <1>1, <1>2, <1>3, <1>4, <1>5 DEF TypeOK
<1>7. HandlerAccounted /\ CompletionsInOrder /\ NoLostWakeup
  BY DEF Init, HandlerAccounted, CompletionsInOrder, NoLostWakeup
<1> QED BY <1>6, <1>7 DEF IInv

LEMMA NextIInv == IInv /\ [Next]_vars => IInv'
<1> SUFFICES ASSUME IInv, [Next]_vars PROVE IInv'
  OBVIOUS
<1> USE BoundsAreNat
<1>1. CASE Push
  <2>1. PushTask(pushes + 1) \in Task /\ PushTask(pushes + 1).v > 0
    BY <1>1 DEF IInv, TypeOK, Push, PushTask, Task
  <2>2. TypeOK'
    BY <1>1, <2>1, AppendTask DEF IInv, TypeOK, Push
  <2>3. HandlerAccounted' /\ CompletionsInOrder'
    BY <1>1 DEF IInv, Push, HandlerAccounted, CompletionsInOrder
  <2>4. NoLostWakeup'
    BY <1>1, <2>1, AppendTask DEF IInv, TypeOK, Push, NoLostWakeup
  <2> QED BY <2>2, <2>3, <2>4 DEF IInv
<1>2. CASE Stop \/ Destroy
  <2>1. tasks' = Append(tasks, StopTask)
    BY <1>2 DEF Stop, Destroy, PostStop
  <2>2. StopTask \in Task /\ StopTask.op # "push"
    BY DEF StopTask, Task
  <2>3. /\ tasks' \in Seq(Task)
        /\ \A i \in 1..Len(tasks') : tasks'[i].op = "push" => tasks'[i].v > 0
        /\ \A i \in 1..Len(tasks) : tasks'[i] = tasks[i]
        /\ Len(tasks') = Len(tasks) + 1
    BY <2>1, <2>2, AppendTask
  <2>4. /\ stops' \in 0..MaxStops
        /\ alive' \in BOOLEAN
    <3>1. stops' \in 0..MaxStops
      <4>1. CASE Stop
        BY <4>1 DEF IInv, TypeOK, Stop, PostStop
      <4>2. CASE Destroy
        BY <4>2 DEF IInv, TypeOK, Destroy, PostStop
      <4> QED BY <1>2, <4>1, <4>2
    <3>2. alive' \in BOOLEAN
      BY <1>2 DEF IInv, TypeOK, Stop, Destroy
    <3> QED BY <3>1, <3>2
  <2>5. UNCHANGED <<state_, handler_, values_, ec_, posted, unposted, pushes, pops, done>>
    BY <1>2 DEF Stop, Destroy, PostStop
  <2>6. TypeOK'
    BY <2>3, <2>4, <2>5 DEF IInv, TypeOK
  <2>7. HandlerAccounted' /\ CompletionsInOrder'
    BY <2>5 DEF IInv, HandlerAccounted, CompletionsInOrder
  <2>8. NoLostWakeup'
    BY <2>3, <2>5 DEF IInv, TypeOK, NoLostWakeup
  <2> QED BY <2>6, <2>7, <2>8 DEF IInv
<1>3. ASSUME NEW exec \in Executors, AsyncPop(exec) PROVE IInv'
  <2>1. TypeOK'
    BY <1>3 DEF IInv, TypeOK, AsyncPop, HandlerAccounted
  <2>2. HandlerAccounted' /\ CompletionsInOrder' /\ NoLostWakeup'
    BY <1>3 DEF IInv, TypeOK, AsyncPop, HandlerAccounted, CompletionsInOrder, NoLostWakeup
  <2> QED BY <2>1, <2>2 DEF IInv
<1>4. CASE PostCheck
  <2>1. CheckTask \in Task /\ CheckTask.op = "check"
    BY DEF CheckTask, Task
  <2>2. /\ tasks' \in Seq(Task)
        /\ \A i \in 1..Len(tasks') : tasks'[i].op = "push" => tasks'[i].v > 0
        /\ Len(tasks') = Len(tasks) + 1
        /\ tasks'[Len(tasks) + 1] = CheckTask
    BY <1>4, <2>1, AppendTask DEF PostCheck
  <2>3. TypeOK'
    <3>1. unposted' \in 0..pops'
      BY <1>4 DEF IInv, TypeOK, PostCheck
    <3>2. UNCHANGED <<state_, handler_, values_, ec_, posted, alive, pushes,
                      pops, stops, done>>
      BY <1>4 DEF PostCheck
    <3> QED BY <2>2, <3>1, <3>2 DEF IInv, TypeOK
  <2>4. HandlerAccounted' /\ CompletionsInOrder'
    BY <1>4 DEF IInv, PostCheck, HandlerAccounted, CompletionsInOrder
  <2>5. Len(tasks) + 1 \in 1..Len(tasks')
    BY <2>2 DEF IInv, TypeOK
  <2>6. NoLostWakeup'
    BY <2>1, <2>2, <2>5 DEF NoLostWakeup
  <2> QED BY <2>3, <2>4, <2>6 DEF IInv
<1>5. CASE RunPush
  <2>1. Head(tasks) \in Task /\ Head(tasks) = tasks[1] /\ 1 \in 1..Len(tasks)
    BY <1>5, HeadTailProperties DEF IInv, TypeOK, RunPush, RunTask
  <2>2. Head(tasks).v \in 1..MaxPushes
    BY <1>5, <2>1 DEF IInv, TypeOK, RunPush, RunTask, Task
  <2>3. Append(values_, Head(tasks).v) \in Seq(1..MaxPushes) /\ ec_ \in BOOLEAN
    BY <2>2, AppendProperties DEF IInv, TypeOK
  <2> QED BY <1>5, <2>3, MaybeCompleteStep DEF RunPush, RunTask
<1>6. CASE RunStop
  <2>1. <<>> \in Seq(1..MaxPushes)
    OBVIOUS
  <2> QED BY <1>6, <2>1, MaybeCompleteStep DEF RunStop, RunTask
<1>7. CASE RunCheck
  <2>1. values_ \in Seq(1..MaxPushes) /\ ec_ \in BOOLEAN
    BY DEF IInv, TypeOK
  <2> QED BY <1>7, <2>1, MaybeCompleteStep DEF RunCheck, RunTask
<1>8. CASE RunPosted
  <2>1. /\ pops = Len(done) + 1 /\ handler_.pop = pops
        /\ state_ = "not_waiting" /\ Len(posted) = 1
    BY <1>8 DEF IInv, RunPosted, HandlerAccounted
  <2>2. Head(posted) \in Op /\ posted' = <<>>
    <3>1. posted \in Seq(Op) /\ posted # <<>>
      BY <1>8 DEF IInv, TypeOK, RunPosted
    <3>2. Head(posted) \in Op /\ Tail(posted) \in Seq(Op) /\ Len(Tail(posted)) = 0
      BY <2>1, <3>1, HeadTailProperties
    <3> QED BY <1>8, <3>2, EmptySeq DEF RunPosted
  <2>3. [pop |-> handler_.pop, ec |-> Head(posted).ec, v |-> Head(posted).v] \in Completion
    BY <2>1, <2>2 DEF IInv, TypeOK, Completion, Op
  <2>4. done' \in Seq(Completion) /\ Len(done') = Len(done) + 1
    BY <1>8, <2>3 DEF IInv, TypeOK, RunPosted, Invoke
  <2>5. TypeOK'
    BY <1>8, <2>2, <2>4 DEF IInv, TypeOK, RunPosted, Invoke
  <2>6. CompletionsInOrder'
    BY <1>8, <2>1, <2>3 DEF IInv, TypeOK, RunPosted, Invoke, CompletionsInOrder
  <2>7. HandlerAccounted'
    BY <1>8, <2>1, <2>2, <2>4 DEF RunPosted, Invoke, HandlerAccounted, IInv, TypeOK
  <2>8. NoLostWakeup'
    BY <1>8, <2>1 DEF RunPosted, NoLostWakeup
  <2> QED BY <2>5, <2>6, <2>7, <2>8 DEF IInv
<1>9. CASE UNCHANGED vars
  BY <1>9 DEF IInv, vars, TypeOK, HandlerAccounted, CompletionsInOrder, NoLostWakeup
<1> QED BY <1>1, <1>2, <1>3, <1>4, <1>5, <1>6, <1>7, <1>8, <1>9 DEF Next

LEMMA InvariantHolds == Spec => []IInv
BY InitIInv, NextIInv, PTL DEF Spec

\* Every reachable state of the queue has its types, however often it is called.
THEOREM TypeCorrect == Spec => []TypeOK
BY InvariantHolds, PTL DEF IInv

\* The slot is owned by one party at a time and never overwritten: a pop is
\* either waiting or on its way to its executor, with none the slot is empty, and
\* each pop completes once, in the order the pops were started.
THEOREM PopsCompleteOnce == Spec => []PopsAccounted
BY InvariantHolds, PTL DEF IInv, PopsAccounted

\* No interleaving of async_pop with push and stop loses the wake-up.
THEOREM WakeupsKept == Spec => []NoLostWakeup
BY InvariantHolds, PTL DEF IInv

-----------------------------------------------------------------------------
(* The mailbox.  Sent is a recursive function over the indexes of tasks:   *)
(* what it gives when a task is added or taken is shown by looking at the  *)
(* least index at which it would give anything else.                       *)

LEMMA LeastIndex ==
    ASSUME NEW T \in SUBSET Nat, T # {}
    PROVE  \E n \in T : \A m \in T : ~(m < n)
<1> DEFINE Less == OpToRel(<, Nat)
<1>1. \E n \in T : \A m \in T : <<m, n>> \notin Less
  BY WFMin, NatLessThanWellFounded
<1>2. \A m, n \in Nat : m < n => <<m, n>> \in Less
  BY DEF OpToRel
<1> HIDE DEF Less
<1> QED BY <1>1, <1>2, Zenon

\* f gives what was sent in the first i tasks of s, for i up to n.
Filter(s, n, f) ==
    f = [i \in 0..n |->
           IF i = 0 THEN <<>>
           ELSE IF s[i].op = "check" THEN f[i - 1] ELSE Append(f[i - 1], s[i])]

\* The same by its values.
LEMMA FilterValues ==
    ASSUME NEW s, NEW n \in Nat, NEW f, Filter(s, n, f)
    PROVE  /\ DOMAIN f = 0..n
           /\ f[0] = <<>>
           /\ \A i \in 1..n : f[i] = IF s[i].op = "check" THEN f[i - 1]
                                                          ELSE Append(f[i - 1], s[i])
<1> DEFINE body(i) == IF i = 0 THEN <<>>
                      ELSE IF s[i].op = "check" THEN f[i - 1] ELSE Append(f[i - 1], s[i])
<1>1. f = [i \in 0..n |-> body(i)]
  BY DEF Filter
<1>2. DOMAIN f = 0..n /\ \A i \in 0..n : f[i] = body(i)
  <2> HIDE DEF body
  <2> QED BY <1>1
<1>3. 0 \in 0..n /\ \A i \in 1..n : i \in 0..n /\ i # 0
  OBVIOUS
<1> QED BY <1>2, <1>3

LEMMA FilterExists ==
    ASSUME NEW s, NEW n \in Nat
    PROVE  \E f : Filter(s, n, f)
<1> SUFFICES ASSUME ~\E f : Filter(s, n, f) PROVE FALSE
  OBVIOUS
<1> DEFINE T == {k \in Nat : ~\E f : Filter(s, k, f)}
<1>1. n \in T /\ T \in SUBSET Nat
  OBVIOUS
<1> PICK k \in T : \A m \in T : ~(m < k)
  BY <1>1, LeastIndex
<1>2. k # 0
  <2> DEFINE f == [i \in 0..0 |-> <<>>]
  <2>1. Filter(s, 0, f)
    BY DEF Filter
  <2> QED BY <2>1
<1>3. k \in Nat /\ k - 1 \in Nat /\ k - 1 < k
  BY <1>2
<1>4. k - 1 \notin T
  BY <1>3
<1> PICK g : Filter(s, k - 1, g)
  BY <1>3, <1>4
<1>5. /\ DOMAIN g = 0..(k - 1) /\ g[0] = <<>>
      /\ \A i \in 1..(k - 1) : g[i] = IF s[i].op = "check" THEN g[i - 1]
                                                           ELSE Append(g[i - 1], s[i])
  BY <1>3, FilterValues
<1> DEFINE last == IF s[k].op = "check" THEN g[k - 1] ELSE Append(g[k - 1], s[k])
           f == [i \in 0..k |-> IF i = k THEN last ELSE g[i]]
<1>6. /\ \A i \in 0..(k - 1) : f[i] = g[i]
      /\ f[k] = last
  BY <1>3
<1>7. \A i \in 0..k : f[i] = IF i = 0 THEN <<>>
                             ELSE IF s[i].op = "check" THEN f[i - 1]
                                                       ELSE Append(f[i - 1], s[i])
  <2> SUFFICES ASSUME NEW i \in 0..k
               PROVE  f[i] = IF i = 0 THEN <<>>
                             ELSE IF s[i].op = "check" THEN f[i - 1]
                                                       ELSE Append(f[i - 1], s[i])
    OBVIOUS
  <2>1. CASE i = 0
    <3>1. 0 \in 0..(k - 1)
      BY <1>3
    <3> QED BY <1>5, <1>6, <2>1, <3>1
  <2>2. CASE i = k
    <3>1. i # 0 /\ k - 1 \in 0..(k - 1)
      BY <1>2, <1>3, <2>2
    <3>2. f[k - 1] = g[k - 1]
      BY <1>6, <3>1
    <3> HIDE DEF f
    <3> QED BY <1>6, <2>2, <3>1, <3>2
  <2>3. CASE i # 0 /\ i # k
    <3>1. i \in 1..(k - 1) /\ i \in 0..(k - 1) /\ i - 1 \in 0..(k - 1)
      BY <1>3, <2>3
    <3>2. f[i] = g[i] /\ f[i - 1] = g[i - 1]
      BY <1>6, <3>1
    <3> HIDE DEF f
    <3> QED BY <1>5, <2>3, <3>1, <3>2
  <2> QED BY <2>1, <2>2, <2>3
<1>8. Filter(s, k, f)
  <2> DEFINE body(i) == IF i = 0 THEN <<>>
                        ELSE IF s[i].op = "check" THEN f[i - 1] ELSE Append(f[i - 1], s[i])
  <2>1. \A i \in 0..k : f[i] = body(i)
    BY <1>7
  <2>2. f = [i \in 0..k |-> f[i]]
    OBVIOUS
  <2> HIDE DEF f, body
  <2>3. f = [i \in 0..k |-> body(i)]
    BY <2>1, <2>2
  <2> QED BY <2>3 DEF body, Filter
<1> QED BY <1>8

LEMMA SentFilter ==
    ASSUME NEW s \in Seq(Task)
    PROVE  \E f : Filter(s, Len(s), f) /\ Sent(s) = f[Len(s)]
<1>1. \E f : Filter(s, Len(s), f)
  BY FilterExists
<1> DEFINE F == CHOOSE f : Filter(s, Len(s), f)
<1>2. Filter(s, Len(s), F)
  BY <1>1
<1>3. Sent(s) = F[Len(s)]
  BY DEF Sent, Filter
<1> QED BY <1>2, <1>3

\* Where two sequences agree, so do their filters.
LEMMA FilterAgrees ==
    ASSUME NEW s, NEW t, NEW n \in Nat, NEW m \in Nat, n <= m,
           \A i \in 1..n : t[i] = s[i],
           NEW f, Filter(s, n, f), NEW g, Filter(t, m, g)
    PROVE  g[n] = f[n]
<1> SUFFICES ASSUME g[n] # f[n] PROVE FALSE
  OBVIOUS
<1> DEFINE T == {i \in 0..n : g[i] # f[i]}
<1>1. n \in T /\ T \in SUBSET Nat
  OBVIOUS
<1> PICK i \in T : \A j \in T : ~(j < i)
  BY <1>1, LeastIndex
<1>2. /\ f[0] = <<>> /\ g[0] = <<>>
      /\ \A j \in 1..n : f[j] = IF s[j].op = "check" THEN f[j - 1]
                                                     ELSE Append(f[j - 1], s[j])
      /\ \A j \in 1..m : g[j] = IF t[j].op = "check" THEN g[j - 1]
                                                     ELSE Append(g[j - 1], t[j])
  BY FilterValues
<1>3. i # 0
  BY <1>2
<1>4. i \in 1..n /\ i \in 1..m /\ i - 1 \in 0..n /\ i - 1 < i
  BY <1>3
<1>5. i - 1 \notin T
  BY <1>4
<1>6. g[i - 1] = f[i - 1] /\ t[i] = s[i]
  BY <1>4, <1>5
<1>7. g[i] = f[i]
  BY <1>2, <1>4, <1>6
<1> QED BY <1>7

\* Nothing was sent with no tasks.
LEMMA SentNothing == Sent(<<>>) = <<>>
<1>1. <<>> \in Seq(Task) /\ Len(<<>>) = 0
  OBVIOUS
<1> PICK f : Filter(<<>>, 0, f) /\ Sent(<<>>) = f[0]
  BY <1>1, SentFilter
<1> QED BY FilterValues

\* A task is posted.
LEMMA SentAppend ==
    ASSUME NEW s \in Seq(Task), NEW t \in Task
    PROVE  Sent(Append(s, t)) = IF t.op = "check" THEN Sent(s) ELSE Append(Sent(s), t)
<1> DEFINE u == Append(s, t)
           n == Len(s)
<1>1. /\ u \in Seq(Task) /\ n \in Nat /\ Len(u) = n + 1 /\ u[n + 1] = t
      /\ \A i \in 1..n : u[i] = s[i]
  OBVIOUS
<1> HIDE DEF u
<1> PICK f : Filter(s, n, f) /\ Sent(s) = f[n]
  BY SentFilter
<1> PICK g : Filter(u, n + 1, g) /\ Sent(u) = g[n + 1]
  BY <1>1, SentFilter
<1> HIDE DEF n
<1>2. g[n] = f[n]
  BY <1>1, FilterAgrees
<1>3. g[n + 1] = IF u[n + 1].op = "check" THEN g[n] ELSE Append(g[n], u[n + 1])
  <2>1. n + 1 \in 1..(n + 1) /\ (n + 1) - 1 = n /\ n + 1 \in Nat
    BY <1>1
  <2>2. \A i \in 1..(n + 1) : g[i] = IF u[i].op = "check" THEN g[i - 1]
                                                          ELSE Append(g[i - 1], u[i])
    BY <2>1, FilterValues
  <2>3. g[n + 1] = IF u[n + 1].op = "check" THEN g[(n + 1) - 1]
                                            ELSE Append(g[(n + 1) - 1], u[n + 1])
    BY <2>1, <2>2
  <2> QED BY <2>1, <2>3
<1> QED BY <1>1, <1>2, <1>3 DEF u

\* A task appended to a concatenation.
LEMMA AppendConcat ==
    ASSUME NEW a \in Seq(Task), NEW b \in Seq(Task), NEW x \in Task
    PROVE  /\ Append(a \o b, x) = a \o Append(b, x)
           /\ Append(b, x) \in Seq(Task)
OBVIOUS

\* The head is run: it was the oldest message, or a check.
First(s) == IF Head(s).op = "check" THEN <<>> ELSE <<Head(s)>>

LEMMA SentTail ==
    ASSUME NEW s \in Seq(Task), s # <<>>
    PROVE  /\ Sent(Tail(s)) \in Seq(Task)
           /\ Sent(s) = First(s) \o Sent(Tail(s))
<1> DEFINE u == Tail(s)
           n == Len(u)
           one == First(s)
<1>1. /\ u \in Seq(Task) /\ n \in Nat /\ Len(s) = n + 1 /\ Head(s) = s[1] /\ s[1] \in Task
      /\ \A i \in 1..n : u[i] = s[i + 1] /\ u[i] \in Task
  OBVIOUS
<1>2. one \in Seq(Task) /\ one = IF s[1].op = "check" THEN <<>> ELSE Append(<<>>, s[1])
  BY <1>1 DEF First
<1> HIDE DEF one, u
<1> PICK f : Filter(s, Len(s), f) /\ Sent(s) = f[Len(s)]
  BY SentFilter
<1> PICK g : Filter(u, n, g) /\ Sent(u) = g[n]
  BY <1>1, SentFilter
<1> HIDE DEF n
<1>3. /\ f[0] = <<>> /\ g[0] = <<>>
      /\ \A j \in 1..(n + 1) : f[j] = IF s[j].op = "check" THEN f[j - 1]
                                                           ELSE Append(f[j - 1], s[j])
      /\ \A j \in 1..n : g[j] = IF u[j].op = "check" THEN g[j - 1]
                                                     ELSE Append(g[j - 1], u[j])
  <2>1. n + 1 \in Nat /\ Filter(s, n + 1, f) /\ Filter(u, n, g)
    BY <1>1
  <2> QED BY <1>1, <2>1, FilterValues
<1> DEFINE Agree(i) == g[i] \in Seq(Task) /\ f[i + 1] = one \o g[i]
<1>4. Agree(0)
  <2>1. f[0 + 1] = IF s[1].op = "check" THEN <<>> ELSE Append(<<>>, s[1])
    <3>1. 1 \in 1..(n + 1) /\ 0 + 1 = 1 /\ 1 - 1 = 0
      BY <1>1
    <3>2. f[1] = IF s[1].op = "check" THEN f[1 - 1] ELSE Append(f[1 - 1], s[1])
      BY <1>3, <3>1
    <3> QED BY <1>3, <3>1, <3>2
  <2> QED BY <1>2, <1>3, <2>1, ConcatEmptySeq, EmptySeq
<1>5. ASSUME NEW i \in 1..n, Agree(i - 1) PROVE Agree(i)
  <2>1. i + 1 \in 1..(n + 1) /\ (i + 1) - 1 = i /\ (i - 1) + 1 = i
    BY <1>1
  <2>2. g[i] = IF u[i].op = "check" THEN g[i - 1] ELSE Append(g[i - 1], u[i])
    BY <1>3
  <2>3. f[i + 1] = IF u[i].op = "check" THEN f[i] ELSE Append(f[i], u[i])
    BY <1>1, <1>3, <2>1
  <2>4. g[i - 1] \in Seq(Task) /\ f[i] = one \o g[i - 1]
    BY <1>5, <2>1
  <2>5. u[i] \in Task
    BY <1>1
  <2>6. /\ Append(one \o g[i - 1], u[i]) = one \o Append(g[i - 1], u[i])
        /\ Append(g[i - 1], u[i]) \in Seq(Task)
    <3>1. one \in Seq(Task) /\ g[i - 1] \in Seq(Task)
      BY <1>2, <2>4
    <3> QED BY <2>5, <3>1, AppendConcat
  <2>7. CASE u[i].op = "check"
    BY <2>2, <2>3, <2>4, <2>7
  <2>8. CASE u[i].op # "check"
    BY <2>2, <2>3, <2>4, <2>6, <2>8
  <2> QED BY <2>7, <2>8
<1>6. Agree(n)
  <2> SUFFICES ASSUME ~Agree(n) PROVE FALSE
    OBVIOUS
  <2> DEFINE T == {i \in 0..n : ~Agree(i)}
  <2> HIDE DEF Agree
  <2>1. n \in T /\ T \in SUBSET Nat
    BY <1>1
  <2> PICK i \in T : \A j \in T : ~(j < i)
    BY <2>1, LeastIndex
  <2>2. i # 0
    BY <1>4
  <2>3. i \in 1..n /\ i - 1 \in 0..n /\ i - 1 < i
    BY <1>1, <2>2
  <2>4. Agree(i - 1)
    BY <2>3
  <2> QED BY <1>5, <2>3, <2>4
<1> QED BY <1>1, <1>6 DEF u, one

LEMMA SentSeq ==
    ASSUME NEW s \in Seq(Task)
    PROVE  Sent(s) \in Seq(Task)
<1>1. CASE s = <<>>
  BY <1>1, SentNothing
<1>2. CASE s # <<>>
  <2>1. Sent(Tail(s)) \in Seq(Task) /\ Sent(s) = First(s) \o Sent(Tail(s))
    BY <1>2, SentTail
  <2>2. Head(s) \in Task
    BY <1>2
  <2>3. First(s) \in Seq(Task)
    BY <2>2 DEF First
  <2> QED BY <2>1, <2>3
<1> QED BY <1>1, <1>2

\* Concatenations that start with a message, hold one or are cut behind one.
LEMMA HeadTailConcat ==
    ASSUME NEW a \in Seq(Task), NEW b \in Seq(Task), a # <<>>
    PROVE  /\ a \o b # <<>> /\ Head(a \o b) = Head(a)
           /\ Tail(a \o b) = Tail(a) \o b
OBVIOUS

LEMMA AppendInside ==
    ASSUME NEW a \in Seq(Task), NEW b \in Seq(Task), NEW t \in Task
    PROVE  Append(a, t) \o b = a \o (<<t>> \o b)
OBVIOUS

LEMMA CutBehind ==
    ASSUME NEW a \in Seq(Task), NEW b \in Seq(Task), NEW t \in Task,
           NEW s, s = a \o (<<t>> \o b)
    PROVE  /\ Len(a) + 1 \in 1..Len(s) /\ Len(a) \in Nat
           /\ s[Len(a) + 1] = t
           /\ \A j \in 1..Len(a) : s[j] = a[j]
           /\ SubSeq(s, (Len(a) + 1) + 1, Len(s)) = b
<1>1. /\ s \in Seq(Task) /\ Len(s) = Len(a) + 1 + Len(b) /\ Len(a) \in Nat /\ Len(b) \in Nat
      /\ s[Len(a) + 1] = t
      /\ \A j \in 1..Len(a) : s[j] = a[j]
  OBVIOUS
<1>2. \A j \in 1..Len(b) : s[Len(a) + 1 + j] = b[j]
  OBVIOUS
<1> DEFINE c == SubSeq(s, (Len(a) + 1) + 1, Len(s))
<1>3. /\ c \in Seq(Task) /\ Len(c) = Len(b)
      /\ \A j \in 1..Len(b) : c[j] = s[Len(a) + 1 + j]
  BY <1>1
<1>4. \A j \in 1..Len(c) : c[j] = b[j]
  BY <1>2, <1>3
<1> HIDE DEF c
<1>5. c = b
  BY <1>3, <1>4, SeqEqual
<1> QED BY <1>1, <1>5 DEF c

\* A stop is posted without a value.
StopsBare == \A i \in 1..Len(tasks) : tasks[i].op = "stop" => tasks[i] = StopTask

LEMMA StopsBareNext == IInv /\ StopsBare /\ [Next]_vars => StopsBare'
<1> SUFFICES ASSUME IInv, StopsBare, [Next]_vars PROVE StopsBare'
  OBVIOUS
<1>1. tasks \in Seq(Task)
  BY DEF IInv, TypeOK
<1>2. ASSUME NEW t, t.op = "stop" => t = StopTask, tasks' = Append(tasks, t)
      PROVE  StopsBare'
  <2>1. /\ Len(tasks') = Len(tasks) + 1 /\ Len(tasks) \in Nat /\ tasks'[Len(tasks) + 1] = t
        /\ \A i \in 1..Len(tasks) : tasks'[i] = tasks[i]
    BY <1>1, <1>2
  <2>2. \A i \in 1..Len(tasks') : i \in 1..Len(tasks) \/ i = Len(tasks) + 1
    BY <2>1
  <2> QED BY <1>2, <2>1, <2>2 DEF StopsBare
<1>3. ASSUME tasks # <<>>, tasks' = Tail(tasks) PROVE StopsBare'
  <2>1. \A i \in 1..Len(tasks') : i + 1 \in 1..Len(tasks) /\ tasks'[i] = tasks[i + 1]
    BY <1>1, <1>3
  <2> QED BY <2>1 DEF StopsBare
<1>4. CASE Push
  BY <1>2, <1>4 DEF Push, PushTask
<1>5. CASE Stop \/ Destroy
  BY <1>2, <1>5 DEF Stop, Destroy, PostStop
<1>6. CASE PostCheck
  BY <1>2, <1>6 DEF PostCheck, CheckTask
<1>7. CASE RunPush \/ RunStop \/ RunCheck
  BY <1>3, <1>7 DEF RunPush, RunStop, RunCheck, RunTask
<1>8. CASE UNCHANGED tasks
  BY <1>8 DEF StopsBare
<1> QED BY <1>4, <1>5, <1>6, <1>7, <1>8 DEF Next, AsyncPop, RunPosted, vars

\* The values held, as the messages they were.
LEMMA PushedValues ==
    ASSUME NEW vs \in Seq(1..MaxPushes)
    PROVE  /\ Pushed(vs) \in Seq(Task) /\ Len(Pushed(vs)) = Len(vs)
           /\ \A i \in 1..Len(vs) : Pushed(vs)[i] = PushTask(vs[i]) /\ vs[i] \in 1..MaxPushes
<1>1. /\ Len(vs) \in Nat /\ DOMAIN vs = 1..Len(vs)
      /\ \A i \in 1..Len(vs) : vs[i] \in 1..MaxPushes
  BY LenProperties, ElementOfSeq
<1>2. \A v \in 1..MaxPushes : PushTask(v) \in Task
  BY BoundsAreNat DEF PushTask, Task
<1>3. \A i \in 1..Len(vs) : PushTask(vs[i]) \in Task
  BY <1>1, <1>2
<1>4. Pushed(vs) = [i \in 1..Len(vs) |-> PushTask(vs[i])]
  BY <1>1 DEF Pushed
<1> QED BY <1>1, <1>3, <1>4

LEMMA PushedAppend ==
    ASSUME NEW vs \in Seq(1..MaxPushes), NEW v \in 1..MaxPushes
    PROVE  Pushed(Append(vs, v)) = Append(Pushed(vs), PushTask(v))
<1> DEFINE us == Append(vs, v)
<1>1. /\ us \in Seq(1..MaxPushes) /\ Len(us) = Len(vs) + 1 /\ us[Len(vs) + 1] = v
      /\ Len(vs) \in Nat /\ \A i \in 1..Len(vs) : us[i] = vs[i]
  OBVIOUS
<1> HIDE DEF us
<1>2. /\ Pushed(us) \in Seq(Task) /\ Len(Pushed(us)) = Len(us)
      /\ \A i \in 1..Len(us) : Pushed(us)[i] = PushTask(us[i])
      /\ Pushed(vs) \in Seq(Task) /\ Len(Pushed(vs)) = Len(vs)
      /\ \A i \in 1..Len(vs) : Pushed(vs)[i] = PushTask(vs[i])
  BY <1>1, PushedValues
<1>3. PushTask(v) \in Task
  BY BoundsAreNat DEF PushTask, Task
<1>4. /\ Append(Pushed(vs), PushTask(v)) \in Seq(Task)
      /\ Len(Append(Pushed(vs), PushTask(v))) = Len(vs) + 1
      /\ \A i \in 1..Len(vs) : Append(Pushed(vs), PushTask(v))[i] = Pushed(vs)[i]
      /\ Append(Pushed(vs), PushTask(v))[Len(vs) + 1] = PushTask(v)
  BY <1>2, <1>3, AppendProperties
<1>5. \A i \in 1..Len(us) : Pushed(us)[i] = Append(Pushed(vs), PushTask(v))[i]
  <2> TAKE i \in 1..Len(us)
  <2>1. CASE i = Len(vs) + 1
    BY <1>1, <1>2, <1>4, <2>1
  <2>2. CASE i # Len(vs) + 1
    <3>1. i \in 1..Len(vs)
      BY <1>1, <2>2
    <3> QED BY <1>1, <1>2, <1>4, <3>1
  <2> QED BY <2>1, <2>2
<1>6. Pushed(us) = Append(Pushed(vs), PushTask(v))
  BY <1>1, <1>2, <1>4, <1>5, SeqEqual
<1> QED BY <1>6 DEF us

LEMMA PushedTail ==
    ASSUME NEW vs \in Seq(1..MaxPushes), vs # <<>>
    PROVE  /\ Pushed(vs) # <<>>
           /\ Head(Pushed(vs)) = PushTask(Head(vs))
           /\ Tail(Pushed(vs)) = Pushed(Tail(vs))
<1> DEFINE us == Tail(vs)
           ps == Pushed(vs)
<1>1. /\ us \in Seq(1..MaxPushes) /\ Len(us) = Len(vs) - 1 /\ Len(vs) \in Nat \ {0}
      /\ Head(vs) = vs[1] /\ \A i \in 1..Len(us) : us[i] = vs[i + 1]
  OBVIOUS
<1> HIDE DEF us
<1>2. /\ Pushed(us) \in Seq(Task) /\ Len(Pushed(us)) = Len(us)
      /\ \A i \in 1..Len(us) : Pushed(us)[i] = PushTask(us[i])
      /\ ps \in Seq(Task) /\ Len(ps) = Len(vs)
      /\ \A i \in 1..Len(vs) : ps[i] = PushTask(vs[i])
  BY <1>1, PushedValues
<1> HIDE DEF ps
<1>3. /\ ps # <<>> /\ Head(ps) = ps[1]
      /\ Tail(ps) \in Seq(Task) /\ Len(Tail(ps)) = Len(us)
      /\ \A i \in 1..Len(us) : Tail(ps)[i] = ps[i + 1]
  BY <1>1, <1>2
<1>4. 1 \in 1..Len(vs) /\ \A i \in 1..Len(us) : i + 1 \in 1..Len(vs)
  BY <1>1
<1>5. \A i \in 1..Len(us) : Tail(ps)[i] = Pushed(us)[i]
  BY <1>1, <1>2, <1>3, <1>4
<1>6. Tail(ps) = Pushed(us)
  BY <1>2, <1>3, <1>5, SeqEqual
<1> QED BY <1>1, <1>2, <1>3, <1>4, <1>6 DEF us, ps

\* The answers, and one more.
LEMMA AnswersGiven ==
    ASSUME NEW s \in Seq(Completion)
    PROVE  /\ Answers(s) \in Seq(Op) /\ Len(Answers(s)) = Len(s)
           /\ \A i \in 1..Len(s) : Answers(s)[i] = [ec |-> s[i].ec, v |-> s[i].v]
<1>1. /\ Len(s) \in Nat /\ DOMAIN s = 1..Len(s)
      /\ \A i \in 1..Len(s) : s[i] \in Completion
  OBVIOUS
<1>2. \A i \in 1..Len(s) : [ec |-> s[i].ec, v |-> s[i].v] \in Op
  BY <1>1 DEF Completion, Op
<1>3. Answers(s) = [i \in 1..Len(s) |-> [ec |-> s[i].ec, v |-> s[i].v]]
  BY <1>1 DEF Answers
<1> QED BY <1>1, <1>2, <1>3

LEMMA AnswersAppend ==
    ASSUME NEW s \in Seq(Completion), NEW e \in Completion
    PROVE  Answers(Append(s, e)) = Append(Answers(s), [ec |-> e.ec, v |-> e.v])
<1> DEFINE t == Append(s, e)
           a == [ec |-> e.ec, v |-> e.v]
<1>1. /\ t \in Seq(Completion) /\ Len(t) = Len(s) + 1 /\ t[Len(s) + 1] = e
      /\ Len(s) \in Nat /\ \A i \in 1..Len(s) : t[i] = s[i]
  OBVIOUS
<1> HIDE DEF t
<1>2. /\ Answers(t) \in Seq(Op) /\ Len(Answers(t)) = Len(t)
      /\ \A i \in 1..Len(t) : Answers(t)[i] = [ec |-> t[i].ec, v |-> t[i].v]
      /\ Answers(s) \in Seq(Op) /\ Len(Answers(s)) = Len(s)
      /\ \A i \in 1..Len(s) : Answers(s)[i] = [ec |-> s[i].ec, v |-> s[i].v]
  BY <1>1, AnswersGiven
<1>3. a \in Op
  BY DEF Completion, Op
<1>4. /\ Append(Answers(s), a) \in Seq(Op)
      /\ Len(Append(Answers(s), a)) = Len(s) + 1
      /\ \A i \in 1..Len(s) : Append(Answers(s), a)[i] = Answers(s)[i]
      /\ Append(Answers(s), a)[Len(s) + 1] = a
  <2> HIDE DEF a
  <2> QED BY <1>2, <1>3, AppendProperties
<1>5. \A i \in 1..Len(t) : Answers(t)[i] = Append(Answers(s), a)[i]
  <2> TAKE i \in 1..Len(t)
  <2>1. CASE i = Len(s) + 1
    BY <1>1, <1>2, <1>4, <2>1
  <2>2. CASE i # Len(s) + 1
    <3>1. i \in 1..Len(s)
      BY <1>1, <2>2
    <3>2. Answers(t)[i] = Answers(s)[i]
      BY <1>1, <1>2, <3>1
    <3> HIDE DEF a
    <3> QED BY <1>4, <3>1, <3>2
  <2> QED BY <2>1, <2>2
<1>6. Answers(t) = Append(Answers(s), a)
  <2> HIDE DEF a
  <2> QED BY <1>1, <1>2, <1>4, <1>5, SeqEqual
<1> QED BY <1>6 DEF t

Answered == Answers(done) \o posted
MailVars == <<Box, ec_, state_ = "waiting", Answered>>

\* What maybe_complete answers with op, by either way.
LEMMA CompleteAnswers ==
    ASSUME IInv, NEW op \in Op, Complete(op), state_ = "waiting"
    PROVE  Answered' = Append(Answered, op)
<1>1. /\ posted = <<>> /\ handler_.pop \in 1..MaxPops /\ done \in Seq(Completion)
  BY BoundsAreNat DEF IInv, HandlerAccounted, TypeOK
<1>2. Answered = Answers(done) /\ Answers(done) \in Seq(Op)
  <2>1. Answers(done) \in Seq(Op)
    BY <1>1, AnswersGiven
  <2> QED BY <1>1, <2>1, ConcatEmptySeq DEF Answered
<1>3. CASE Invoke(op) /\ UNCHANGED posted
  <2> DEFINE e == [pop |-> handler_.pop, ec |-> op.ec, v |-> op.v]
  <2>1. e \in Completion /\ [ec |-> e.ec, v |-> e.v] = op
    BY <1>1 DEF Completion, Op
  <2>2. done' = Append(done, e)
    BY <1>3 DEF Invoke
  <2> HIDE DEF e
  <2>3. Answers(done') = Append(Answers(done), op)
    BY <1>1, <2>1, <2>2, AnswersAppend
  <2>4. Append(Answers(done), op) \in Seq(Op)
    BY <1>2, AppendProperties
  <2>5. Answered' = Answers(done') \o <<>>
    BY <1>1, <1>3 DEF Answered, Answers
  <2> QED BY <1>2, <2>3, <2>4, <2>5, ConcatEmptySeq
<1>4. CASE posted' = Append(posted, op) /\ UNCHANGED <<handler_, done>>
  <2>1. Answered' = Answers(done) \o <<op>>
    BY <1>1, <1>4 DEF Answered, Answers
  <2>2. Append(Answers(done), op) = Answers(done) \o <<op>>
    BY <1>2, AppendIsConcat
  <2> QED BY <1>2, <2>1, <2>2
<1> QED BY <1>3, <1>4 DEF Complete

\* A completion that runs at last was an answer before.
LEMMA PostedStutters ==
    ASSUME IInv, RunPosted
    PROVE  UNCHANGED MailVars
<1>1. /\ posted \in Seq(Op) /\ Len(posted) = 1 /\ done \in Seq(Completion)
      /\ handler_.pop \in 1..MaxPops
  BY BoundsAreNat DEF IInv, HandlerAccounted, TypeOK, RunPosted
<1>2. Head(posted) \in Op /\ posted = <<Head(posted)>> /\ Tail(posted) = <<>>
  <2>1. /\ Head(posted) = posted[1] /\ posted[1] \in Op
        /\ Tail(posted) \in Seq(Op) /\ Len(Tail(posted)) = 0
    BY <1>1
  <2>2. /\ <<posted[1]>> \in Seq(Op) /\ Len(<<posted[1]>>) = 1
        /\ \A i \in 1..1 : posted[i] = <<posted[1]>>[i]
    BY <2>1
  <2>3. posted = <<posted[1]>>
    BY <1>1, <2>2, SeqEqual
  <2> QED BY <2>1, <2>3, EmptySeq
<1> DEFINE op == Head(posted)
           e == [pop |-> handler_.pop, ec |-> op.ec, v |-> op.v]
<1>3. e \in Completion /\ [ec |-> e.ec, v |-> e.v] = op
  BY <1>1, <1>2 DEF Completion, Op
<1>4. done' = Append(done, e) /\ posted' = <<>>
  BY <1>2 DEF RunPosted, Invoke
<1> HIDE DEF e
<1>5. Answers(done') = Append(Answers(done), op)
  BY <1>1, <1>3, <1>4, AnswersAppend
<1>6. Answers(done) \in Seq(Op)
  BY <1>1, AnswersGiven
<1>7. Append(Answers(done), op) = Answers(done) \o <<op>> /\ Append(Answers(done), op) \in Seq(Op)
  BY <1>2, <1>6, AppendIsConcat, AppendProperties
<1>8. Answered' = Answers(done') \o <<>>
  BY <1>4 DEF Answered, Answers
<1>9. Answered' = Answered
  BY <1>2, <1>5, <1>7, <1>8, ConcatEmptySeq DEF Answered
<1> QED BY <1>9 DEF MailVars, RunPosted, Box, Pushed, Sent

\* A message is sent when its task is posted, behind those before it.
LEMMA PostSends ==
    ASSUME IInv, NEW t \in Task, t.op # "check", tasks' = Append(tasks, t), values_' = values_
    PROVE  Box' = Append(Box, t)
<1>1. tasks \in Seq(Task) /\ values_ \in Seq(1..MaxPushes)
  BY DEF IInv, TypeOK
<1>2. Pushed(values_) \in Seq(Task)
  BY <1>1, PushedValues
<1>3. Sent(tasks) \in Seq(Task)
  BY <1>1, SentSeq
<1>4. Sent(tasks') = Append(Sent(tasks), t)
  BY <1>1, SentAppend
<1>5. Box' = Pushed(values_) \o Append(Sent(tasks), t)
  BY <1>4 DEF Box
<1> QED BY <1>2, <1>3, <1>5, AppendConcat DEF Box

\* What is in the box when a task runs, by the task.
LEMMA HeadOfBox ==
    ASSUME IInv, tasks # <<>>, tasks' = Tail(tasks)
    PROVE  /\ Pushed(values_) \in Seq(Task) /\ Sent(tasks') \in Seq(Task)
           /\ Head(tasks) \in Task
           /\ Box = Pushed(values_) \o (First(tasks) \o Sent(tasks'))
<1>1. tasks \in Seq(Task) /\ values_ \in Seq(1..MaxPushes)
  BY DEF IInv, TypeOK
<1>2. Head(tasks) \in Task
  BY <1>1, HeadTailProperties
<1>3. Pushed(values_) \in Seq(Task)
  BY <1>1, PushedValues
<1>4. Sent(tasks') \in Seq(Task) /\ Sent(tasks) = First(tasks) \o Sent(tasks')
  BY <1>1, SentTail
<1> QED BY <1>2, <1>3, <1>4 DEF Box

\* maybe_complete, entered with the values vs and the flag err by a task that leaves
\* the box with the messages b behind those values.
LEMMA MaybeCompleteMaps ==
    ASSUME IInv, NEW vs \in Seq(1..MaxPushes), MaybeComplete(vs, ec_),
           Sent(tasks') \in Seq(Task), Box = Pushed(vs) \o Sent(tasks')
    PROVE  Mail!Next \/ UNCHANGED MailVars
<1> DEFINE b == Sent(tasks')
<1>1. Pushed(vs) \in Seq(Task) /\ b \in Seq(Task)
  BY PushedValues
<1>2. CASE Idle(vs, ec_)
  <2>1. Box' = Box
    BY <1>2 DEF Idle, Box
  <2>2. Answered' = Answered
    BY <1>2 DEF Idle, Answered, Answers
  <2> QED BY <1>2, <2>1, <2>2 DEF Idle, MailVars
<1>3. CASE CompleteError(vs, ec_)
  <2>1. Box' = Box
    BY <1>3 DEF CompleteError, Box
  <2>2. [ec |-> TRUE, v |-> 0] \in Op
    BY BoundsAreNat DEF Op
  <2>3. Answered' = Append(Answered, [ec |-> TRUE, v |-> 0])
    BY <1>3, <2>2, CompleteAnswers DEF CompleteError
  <2>4. Mail!ReportStop
    BY <1>3, <2>1, <2>3 DEF CompleteError, Mail!ReportStop, Answered
  <2> QED BY <2>4 DEF Mail!Next
<1>4. CASE CompleteValue(vs, ec_)
  <2>1. vs # <<>> /\ Head(vs) \in 1..MaxPushes
    BY <1>4, HeadTailProperties DEF CompleteValue
  <2>2. /\ Pushed(vs) # <<>> /\ Head(Pushed(vs)) = PushTask(Head(vs))
        /\ Tail(Pushed(vs)) = Pushed(Tail(vs))
    BY <2>1, PushedTail
  <2>3. /\ Box # <<>> /\ Head(Box) = Head(Pushed(vs))
        /\ Tail(Box) = Tail(Pushed(vs)) \o b
    BY <1>1, <2>2, HeadTailConcat
  <2>4. Head(Box) # StopTask /\ Head(Box).v = Head(vs)
    BY <2>2, <2>3 DEF PushTask, StopTask
  <2>5. Box' = Tail(Box)
    BY <1>4, <2>2, <2>3 DEF CompleteValue, Box
  <2>6. [ec |-> FALSE, v |-> Head(vs)] \in Op
    BY <2>1, BoundsAreNat DEF Op
  <2>7. Answered' = Append(Answered, [ec |-> FALSE, v |-> Head(vs)])
    BY <1>4, <2>6, CompleteAnswers DEF CompleteValue
  <2>8. Mail!Deliver
    BY <1>4, <2>3, <2>4, <2>5, <2>7 DEF CompleteValue, Mail!Deliver, Answered
  <2> QED BY <2>8 DEF Mail!Next
<1> QED BY <1>2, <1>3, <1>4 DEF MaybeComplete

\* A push takes its place behind the values held.
LEMMA PushMaps ==
    ASSUME IInv, RunPush
    PROVE  Mail!Next \/ UNCHANGED MailVars
<1> DEFINE v == Head(tasks).v
           vs == Append(values_, v)
           t == PushTask(v)
<1>1. /\ tasks # <<>> /\ tasks' = Tail(tasks) /\ tasks \in Seq(Task)
      /\ Head(tasks).op = "push" /\ values_ \in Seq(1..MaxPushes)
  BY DEF RunPush, RunTask, IInv, TypeOK
<1>2. v \in 1..MaxPushes /\ Head(tasks) = t /\ t \in Task
  <2>1. Head(tasks) \in Task /\ Head(tasks) = tasks[1] /\ 1 \in 1..Len(tasks)
    BY <1>1
  <2>2. v \in 0..MaxPushes /\ v > 0 /\ Head(tasks) = [op |-> "push", v |-> v]
    BY <1>1, <2>1 DEF IInv, TypeOK, Task
  <2> QED BY <2>1, <2>2, BoundsAreNat DEF PushTask
<1>3. vs \in Seq(1..MaxPushes) /\ Pushed(vs) = Append(Pushed(values_), t)
  BY <1>1, <1>2, PushedAppend, AppendProperties
<1>4. /\ Pushed(values_) \in Seq(Task) /\ Sent(tasks') \in Seq(Task)
      /\ Box = Pushed(values_) \o (<<t>> \o Sent(tasks'))
  BY <1>1, <1>2, HeadOfBox DEF First
<1>5. Box = Pushed(vs) \o Sent(tasks')
  <2> HIDE DEF t, vs
  <2>1. Append(Pushed(values_), t) \o Sent(tasks')
          = Pushed(values_) \o (<<t>> \o Sent(tasks'))
    BY <1>2, <1>4, AppendInside
  <2> QED BY <1>3, <1>4, <2>1
<1>6. MaybeComplete(vs, ec_)
  BY DEF RunPush
<1> HIDE DEF vs
<1> QED BY <1>3, <1>4, <1>5, <1>6, MaybeCompleteMaps

\* A check leaves the box as it is.
LEMMA CheckMaps ==
    ASSUME IInv, RunCheck
    PROVE  Mail!Next \/ UNCHANGED MailVars
<1>1. /\ tasks # <<>> /\ tasks' = Tail(tasks) /\ Head(tasks).op = "check"
      /\ values_ \in Seq(1..MaxPushes) /\ MaybeComplete(values_, ec_)
  BY DEF RunCheck, RunTask, IInv, TypeOK
<1>2. /\ Pushed(values_) \in Seq(Task) /\ Sent(tasks') \in Seq(Task)
      /\ Box = Pushed(values_) \o (<<>> \o Sent(tasks'))
  BY <1>1, HeadOfBox DEF First
<1>3. Box = Pushed(values_) \o Sent(tasks')
  BY <1>2, ConcatEmptySeq
<1> QED BY <1>1, <1>2, <1>3, MaybeCompleteMaps

\* A stop takes effect: it was the first in the box, behind the values that it clears.
LEMMA StopMaps ==
    ASSUME IInv, StopsBare, RunStop
    PROVE  Mail!Next
<1>1. /\ tasks # <<>> /\ tasks' = Tail(tasks) /\ tasks \in Seq(Task)
      /\ Head(tasks).op = "stop" /\ values_ \in Seq(1..MaxPushes)
      /\ MaybeComplete(<<>>, TRUE)
  BY DEF RunStop, RunTask, IInv, TypeOK
<1> DEFINE b == Sent(tasks')
           ps == Pushed(values_)
<1>2. Head(tasks) = StopTask /\ StopTask \in Task
  <2>1. Head(tasks) = tasks[1] /\ 1 \in 1..Len(tasks)
    BY <1>1
  <2> QED BY <1>1, <2>1, BoundsAreNat DEF StopsBare, StopTask, Task
<1>3. ps \in Seq(Task) /\ b \in Seq(Task) /\ Box = ps \o (<<StopTask>> \o b)
  BY <1>1, <1>2, HeadOfBox DEF First
<1>4. \A i \in 1..Len(ps) : ps[i] # StopTask
  <2>1. Len(ps) = Len(values_) /\ \A i \in 1..Len(values_) : ps[i] = PushTask(values_[i])
    BY <1>1, PushedValues
  <2>2. \A v : PushTask(v) # StopTask
    BY DEF PushTask, StopTask
  <2> HIDE DEF ps
  <2> QED BY <2>1, <2>2
<1> HIDE DEF ps
<1>5. Box' = b
  <2>1. values_' = <<>>
    BY <1>1 DEF MaybeComplete, Idle, CompleteError, CompleteValue
  <2>2. Pushed(<<>>) = <<>>
    <3>1. <<>> \in Seq(1..MaxPushes) /\ Len(<<>>) = 0
      BY EmptySeq
    <3>2. Pushed(<<>>) \in Seq(Task) /\ Len(Pushed(<<>>)) = 0
      BY <3>1, PushedValues
    <3> QED BY <3>2, EmptySeq
  <2>3. Box' = <<>> \o b
    BY <2>1, <2>2 DEF Box
  <2> QED BY <1>3, <2>3, ConcatEmptySeq
<1> HIDE DEF b
<1> DEFINE i == Len(ps) + 1
<1>6. /\ i \in 1..Len(Box) /\ Box[i] = StopTask
      /\ \A j \in 1..(i - 1) : Box[j] # StopTask
      /\ Box' = SubSeq(Box, i + 1, Len(Box))
  <2>1. /\ i \in 1..Len(Box) /\ Len(ps) \in Nat /\ Box[i] = StopTask
        /\ \A j \in 1..Len(ps) : Box[j] = ps[j]
        /\ SubSeq(Box, i + 1, Len(Box)) = b
    BY <1>2, <1>3, CutBehind
  <2>2. \A j \in 1..(i - 1) : j \in 1..Len(ps)
    BY <2>1
  <2> QED BY <1>4, <1>5, <2>1, <2>2
<1> HIDE DEF i
<1>7. CASE state_ # "waiting"
  <2>1. ec_' = TRUE /\ state_' = state_ /\ UNCHANGED <<posted, done>>
    BY <1>1, <1>7 DEF MaybeComplete, Idle, CompleteError, CompleteValue
  <2>2. (Answers(done) \o posted)' = Answers(done) \o posted
    BY <2>1 DEF Answers
  <2>3. Mail!TakeStop
    BY <1>6, <1>7, <2>1, <2>2 DEF Mail!TakeStop
  <2> QED BY <2>3 DEF Mail!Next
<1>8. CASE state_ = "waiting"
  <2> DEFINE op == [ec |-> TRUE, v |-> 0]
  <2>1. ec_' = FALSE /\ state_' = "not_waiting" /\ Complete(op)
    BY <1>1, <1>8 DEF MaybeComplete, Idle, CompleteError, CompleteValue
  <2>2. op \in Op
    BY BoundsAreNat DEF Op
  <2>3. Answered' = Append(Answered, op)
    BY <1>8, <2>1, <2>2, CompleteAnswers
  <2>4. Mail!TakeStop
    BY <1>6, <1>8, <2>1, <2>3 DEF Mail!TakeStop, Answered
  <2> QED BY <2>4 DEF Mail!Next
<1> QED BY <1>7, <1>8

\* The queue is a mailbox: whatever the executors interleave, a pop is answered with the
\* oldest value that no stop has cleared, or once with the error of a stop, in the
\* order of the calls of push and stop.
THEOREM ImplementsMailbox == Spec => MailboxSpec
<1>1. Init => Mail!Init
  <2> SUFFICES ASSUME Init PROVE Mail!Init
    OBVIOUS
  <2>1. /\ values_ = <<>> /\ tasks = <<>> /\ posted = <<>> /\ done = <<>>
        /\ ~ec_ /\ state_ # "waiting"
    BY DEF Init
  <2>2. Pushed(<<>>) = <<>> /\ Answers(<<>>) = <<>>
    <3>1. <<>> \in Seq(1..MaxPushes) /\ <<>> \in Seq(Completion) /\ Len(<<>>) = 0
      BY EmptySeq
    <3>2. /\ Pushed(<<>>) \in Seq(Task) /\ Len(Pushed(<<>>)) = 0
          /\ Answers(<<>>) \in Seq(Op) /\ Len(Answers(<<>>)) = 0
      BY <3>1, PushedValues, AnswersGiven
    <3> QED BY <3>2, EmptySeq
  <2>3. Box = <<>> /\ Answers(done) \o posted = <<>>
    BY <2>1, <2>2, SentNothing DEF Box
  <2> QED BY <2>1, <2>3 DEF Mail!Init
<1>2. IInv /\ StopsBare /\ [Next]_vars => [Mail!Next]_MailVars
  <2> SUFFICES ASSUME IInv, StopsBare, [Next]_vars
               PROVE  Mail!Next \/ UNCHANGED MailVars
    OBVIOUS
  <2>1. ASSUME NEW m \in {PushTask(n) : n \in 1..MaxPushes} \cup {StopTask},
               tasks' = Append(tasks, m), UNCHANGED <<values_, ec_, state_, done, posted>>
        PROVE  Mail!Next
    <3>1. m \in Task /\ m.op # "check"
      BY BoundsAreNat DEF PushTask, StopTask, Task
    <3>2. Box' = Append(Box, m)
      BY <2>1, <3>1, PostSends
    <3>3. Mail!Send(m)
      BY <2>1, <3>2 DEF Mail!Send, Answers
    <3> QED BY <3>3 DEF Mail!Next
  <2>2. CASE Push
    <3>1. pushes + 1 \in 1..MaxPushes
      BY <2>2, BoundsAreNat DEF Push, IInv, TypeOK
    <3>2. /\ tasks' = Append(tasks, PushTask(pushes + 1))
          /\ UNCHANGED <<values_, ec_, state_, done, posted>>
      BY <2>2 DEF Push
    <3> QED BY <2>1, <3>1, <3>2
  <2>3. CASE Stop \/ Destroy
    BY <2>1, <2>3 DEF Stop, Destroy, PostStop
  <2>4. ASSUME NEW exec \in Executors, AsyncPop(exec) PROVE Mail!Next
    <3>1. state_ # "waiting" /\ state_' = "waiting" /\ ec_' = ec_
      BY <2>4 DEF AsyncPop, IInv, HandlerAccounted, TypeOK
    <3>2. Box' = Box /\ (Answers(done) \o posted)' = Answers(done) \o posted
      BY <2>4 DEF AsyncPop, Box, Answers
    <3>3. Mail!Request
      BY <3>1, <3>2 DEF Mail!Request
    <3> QED BY <3>3 DEF Mail!Next
  <2>5. CASE PostCheck
    <3>1. tasks \in Seq(Task) /\ CheckTask \in Task /\ CheckTask.op = "check"
      BY BoundsAreNat DEF IInv, TypeOK, CheckTask, Task
    <3>2. Sent(tasks') = Sent(tasks)
      BY <2>5, <3>1, SentAppend DEF PostCheck
    <3> QED BY <2>5, <3>2 DEF PostCheck, MailVars, Box, Answered, Answers
  <2>6. CASE RunPush
    BY <2>6, PushMaps
  <2>7. CASE RunStop
    BY <2>7, StopMaps
  <2>8. CASE RunCheck
    BY <2>8, CheckMaps
  <2>9. CASE RunPosted
    BY <2>9, PostedStutters
  <2>10. CASE UNCHANGED vars
    BY <2>10 DEF vars, MailVars, Box, Answered, Answers
  <2> QED BY <2>2, <2>3, <2>4, <2>5, <2>6, <2>7, <2>8, <2>9, <2>10 DEF Next
<1>3. Init => StopsBare
  <2>1. Init => 1..Len(tasks) = {}
    BY DEF Init
  <2> QED BY <2>1 DEF StopsBare
<1> QED BY <1>1, <1>2, <1>3, InvariantHolds, StopsBareNext, PTL
        DEF Spec, MailboxSpec, Mail!Spec, MailVars, Answered

=============================================================================
