----------------------------- MODULE QueueImpl -----------------------------
(***************************************************************************)
(* queue_impl: the queue between send_text() and the write state of a      *)
(* websocket.  One executor runs everything; the consumer is a coroutine,  *)
(* which starts a pop only when the one before has completed.              *)
(*                                                                         *)
(* A frame is named by the number of the push that carried it.  0 is the   *)
(* value left behind when a frame is moved from, and the default value a   *)
(* cancelled pop is given: an empty frame.                                 *)
(***************************************************************************)
EXTENDS Naturals, Sequences

CONSTANTS MaxPushes, MaxPops, MaxCancels    \* bounds on the client's calls

ASSUME BoundsAreNat == {MaxPushes, MaxPops, MaxCancels} \subseteq Nat

VARIABLES
    queue_,     \* the deque of frames
    handler_,   \* the pop whose handler is stored, 0 for none
    posted,     \* the executor's queue: completions [pop, ec, v]
    done,       \* completions whose handler has run, in order
    pushes, pops, cancels

vars == <<queue_, handler_, posted, done, pushes, pops, cancels>>

Completion == [pop : 1..MaxPops, ec : BOOLEAN, v : 0..MaxPushes]
Value(p, x) == [pop |-> p, ec |-> FALSE, v |-> x]
Failure(p)  == [pop |-> p, ec |-> TRUE, v |-> 0]

Init ==
    /\ queue_ = <<>>
    /\ handler_ = 0
    /\ posted = <<>>
    /\ done = <<>>
    /\ pushes = 0 /\ pops = 0 /\ cancels = 0

\* Mutant of push: the stored pop is not told of the frame.
pushSilently ==
    /\ pushes < MaxPushes
    /\ pushes' = pushes + 1
    /\ queue_' = IF handler_ # 0 THEN queue_ ELSE Append(queue_, pushes')
    /\ UNCHANGED <<handler_, posted, done, pops, cancels>>

push ==
    /\ pushes < MaxPushes
    /\ pushes' = pushes + 1
    /\ IF handler_ # 0
       THEN /\ posted' = Append(posted, Value(handler_, pushes'))
            /\ handler_' = 0
            /\ UNCHANGED queue_
       ELSE /\ queue_' = Append(queue_, pushes')
            /\ UNCHANGED <<handler_, posted>>
    /\ UNCHANGED <<done, pops, cancels>>

\* The front is moved into the deferred completion and not popped: an empty
\* frame stays at the front.
TakeFront(p) ==
    /\ queue_ # <<>>
    /\ posted' = Append(posted, Value(p, Head(queue_)))
    /\ queue_' = [queue_ EXCEPT ![1] = 0]
    /\ UNCHANGED handler_

async_pop ==
    /\ pops < MaxPops
    /\ pops = Len(done)
    /\ pops' = pops + 1
    /\ \/ TakeFront(pops')
       \/ queue_ = <<>> /\ handler_' = pops' /\ UNCHANGED <<queue_, posted>>
    /\ UNCHANGED <<done, pushes, cancels>>

\* Mutant of cancel: the handler is kept.
cancelKeeps ==
    /\ cancels < MaxCancels
    /\ cancels' = cancels + 1
    /\ posted' = IF handler_ # 0 THEN Append(posted, Failure(handler_)) ELSE posted
    /\ UNCHANGED <<queue_, handler_, done, pushes, pops>>

\* Only a stored handler learns of it.
cancel ==
    /\ cancels < MaxCancels
    /\ cancels' = cancels + 1
    /\ posted' = IF handler_ # 0 THEN Append(posted, Failure(handler_)) ELSE posted
    /\ handler_' = 0
    /\ UNCHANGED <<queue_, done, pushes, pops>>

\* The executor completes a pop.
RunCompletion ==
    /\ posted # <<>>
    /\ posted' = Tail(posted)
    /\ done' = Append(done, Head(posted))
    /\ UNCHANGED <<queue_, handler_, pushes, pops, cancels>>

Next == push \/ async_pop \/ cancel \/ RunCompletion

Spec == Init /\ [][Next]_vars /\ WF_vars(RunCompletion)

-----------------------------------------------------------------------------
(* Properties.                                                             *)

\* Every variable has its type.
TypeOK ==
    /\ queue_ \in Seq(0..MaxPushes)
    /\ handler_ \in 0..MaxPops
    /\ posted \in Seq(Completion)
    /\ done \in Seq(Completion)
    /\ pushes \in 0..MaxPushes /\ pops \in 0..MaxPops /\ cancels \in 0..MaxCancels

\* A pop is in one place: stored, or posted once; the completions are in order.
\* It is stored only while the queue is empty, which push asserts: no frame
\* overtakes a queued one.
PopAccounted ==
    /\ handler_ # 0 => queue_ = <<>>
    /\ Len(posted) + (IF handler_ # 0 THEN 1 ELSE 0) = pops - Len(done)
    /\ handler_ # 0 => handler_ = pops
    /\ \A i \in 1..Len(posted) : posted[i].pop = Len(done) + i
    /\ \A i \in 1..Len(done) : done[i].pop = i

\* A pop is answered if frames are queued when it starts, or if a frame is pushed or
\* the pops are cancelled while it waits: such a call finds its handler stored and
\* leaves nothing in the queue to tell of it, so it is counted.
Outstanding(p) == pops = p /\ Len(done) < p
Calls == pushes + cancels

PopsAnswered ==
    \A p \in 1..MaxPops :
        /\ (Outstanding(p) /\ queue_ # <<>>) ~> (Len(done) >= p)
        /\ \A n \in 0..(MaxPushes + MaxCancels) :
             [](Outstanding(p) /\ Calls = n => [](Calls > n => <>(Len(done) >= p)))

\* "should send a text frame as soon as possible" (websocket_state_impl.hpp:62):
\* the frames reach the writer in the order of send_text(), with none left out
\* and none made up.
Delivered == SelectSeq(done, LAMBDA r : ~r.ec)
EveryFrameInOrder == \A i \in 1..Len(Delivered) : Delivered[i].v = i
=============================================================================
