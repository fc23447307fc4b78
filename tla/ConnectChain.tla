---------------------------- MODULE ConnectChain ----------------------------
(***************************************************************************)
(* The connect states, one inside the other: websocket over ssl over tcp   *)
(* over the resolver.  Layer 1 is the outermost.  The coroutine of a layer *)
(* first awaits the coroutine of the layer below it, then an asynchronous  *)
(* operation of its own; the innermost layer, the resolver, has only its   *)
(* operation.  Coroutines awaiting each other resume without a pause, so   *)
(* from the end of one operation to the start of the next is one step.     *)
(*                                                                         *)
(* cancel() of a layer calls the hook on_cancel_, which the coroutine sets *)
(* for each of its two stages and clears at their ends.  The hook refers   *)
(* to the coroutine's variables: it must not outlive the frame.  One       *)
(* executor runs the coroutines and cancel(); a layer whose coroutine has  *)
(* ended may be run again.                                                 *)
(***************************************************************************)
EXTENDS Naturals

CONSTANTS
    Depth,      \* number of layers
    SniLayers,  \* layers that set the server's name first, which may fail
    Codes,      \* the error codes cancel may be called with
    MaxRuns     \* bound on runs of the outermost layer

ASSUME ChainConstants ==
    /\ Depth \in Nat \ {0}
    /\ MaxRuns \in Nat
    /\ Codes \cap {"none", "connected", "failed"} = {}

VARIABLES
    at,         \* the layer whose operation is in progress, 0 when none runs;
                \* the frames of layers 1..at exist, the others are gone
    on_cancel_, \* per layer: null, or the stage it was set for, next or own
    my_error,   \* per layer: the code the hook was given, or none
    op,         \* the operation: none, pending, cancelled, ok or failed
    outcome,    \* of the last run: none, connected, failed or a code
    asked,      \* cancel() was called during the current run
    runs        \* runs of the outermost layer so far

vars == <<at, on_cancel_, my_error, op, outcome, asked, runs>>

Layers   == 1..Depth
Hooks    == {"null", "next", "own"}
NoHooks  == [i \in Layers |-> "null"]
NoErrors == [i \in Layers |-> "none"]

Init ==
    /\ at = 0
    /\ on_cancel_ = NoHooks
    /\ my_error = NoErrors
    /\ op = "none"
    /\ outcome = "none"
    /\ asked = FALSE
    /\ runs = 0

-----------------------------------------------------------------------------
\* operator() of the outermost layer runs down to the first operation.
Start ==
    /\ at = 0
    /\ runs < MaxRuns
    /\ runs' = runs + 1
    /\ at' = Depth
    /\ on_cancel_' = [i \in Layers |-> IF i = Depth THEN "own" ELSE "next"]
    /\ my_error' = NoErrors
    /\ op' = "pending"
    /\ outcome' = "none"
    /\ asked' = FALSE

\* Mutant of Unwind: the hooks of the layers awaiting the one that ends stay.
UnwindKeeps(result) ==
    /\ at' = 0
    /\ on_cancel_' = [on_cancel_ EXCEPT ![at] = "null"]
    /\ my_error' = NoErrors
    /\ op' = "none"
    /\ outcome' = result
    /\ UNCHANGED <<asked, runs>>

\* All frames are gone, and every layer has cleared its hook: the last
\* error_check does, and the handler of each function body does.
Unwind(result) ==
    /\ at' = 0
    /\ on_cancel_' = NoHooks
    /\ my_error' = NoErrors
    /\ op' = "none"
    /\ outcome' = result
    /\ UNCHANGED <<asked, runs>>

\* An exception leaves the frames: of the operation, or of error_check.
OperationFails ==
    /\ op = "failed"
    /\ Unwind("failed")

\* The layers that do error_check when an operation has succeeded: the one whose
\* operation it was, then the one that awaits it.
Checked == {at, at - 1} \ {0}

ErrorCheckThrows ==
    /\ op = "ok"
    /\ \E i \in Checked : my_error[i] # "none" /\ Unwind(my_error[i])

\* Mutant of NextLayer: not stopped at the outermost layer.
NextLayerPast ==
    /\ op = "ok"
    /\ \A i \in Checked : my_error[i] = "none"
    /\ at' = at - 1
    /\ on_cancel_' = [on_cancel_ EXCEPT ![at] = "null"]
    /\ op' = "pending"
    /\ UNCHANGED <<my_error, outcome, asked, runs>>

NextLayer ==
    /\ op = "ok" /\ at > 1
    /\ \A i \in Checked : my_error[i] = "none"
    /\ at' = at - 1
    /\ on_cancel_' = [on_cancel_ EXCEPT ![at] = "null", ![at - 1] = "own"]
    /\ op' = "pending"
    /\ UNCHANGED <<my_error, outcome, asked, runs>>

ServerNameFails ==
    /\ op = "ok" /\ at > 1
    /\ at - 1 \in SniLayers
    /\ \A i \in Checked : my_error[i] = "none"
    /\ Unwind("failed")

Connected ==
    /\ op = "ok" /\ at = 1
    /\ my_error[1] = "none"
    /\ Unwind("connected")

\* The coroutine that awaits the operation resumes.
Resume ==
    \/ OperationFails
    \/ ErrorCheckThrows
    \/ NextLayer
    \/ ServerNameFails
    \/ Connected

-----------------------------------------------------------------------------
\* Mutant of Reached: the outermost hook does not call the layer below.
ReachedOutermost == {i \in {1} : on_cancel_[1] # "null"}

\* The layers whose hook a cancel() of the outermost one gets to call.
Reached ==
    {i \in Layers : /\ on_cancel_[i] # "null"
                    /\ \A j \in 1..(i - 1) : on_cancel_[j] = "next"}

\* Mutant of cancel: the operation is cancelled, the code not recorded.
cancelOperation(ec) ==
    /\ op' = IF op = "pending" /\ (\E i \in Reached : on_cancel_[i] = "own")
              THEN "cancelled" ELSE op
    /\ asked' = (asked \/ at # 0)
    /\ UNCHANGED <<at, on_cancel_, my_error, outcome, runs>>

\* Each hook records the code; the one set for its layer's own operation cancels
\* that operation, which does nothing to one that has ended.
cancel(ec) ==
    /\ my_error' = [i \in Layers |-> IF i \in Reached THEN ec ELSE my_error[i]]
    /\ op' = IF op = "pending" /\ (\E i \in Reached : on_cancel_[i] = "own")
              THEN "cancelled" ELSE op
    /\ asked' = (asked \/ at # 0)
    /\ UNCHANGED <<at, on_cancel_, outcome, runs>>

\* External: an operation ends.  One that was cancelled may succeed all the same:
\* async_connect goes on to the next endpoint.
OperationEnds ==
    /\ op \in {"pending", "cancelled"}
    /\ op' \in {"ok", "failed"}
    /\ UNCHANGED <<at, on_cancel_, my_error, outcome, asked, runs>>

Next ==
    \/ Start
    \/ Resume
    \/ \E ec \in Codes : cancel(ec)
    \/ OperationEnds

\* The executor resumes coroutines, and a cancelled operation ends; one that was
\* not cancelled may wait for its peer for ever.
Fairness ==
    /\ WF_vars(Resume)
    /\ WF_vars(op = "cancelled" /\ OperationEnds)

Spec == Init /\ [][Next]_vars /\ Fairness

-----------------------------------------------------------------------------
(* Properties.                                                             *)

\* Every variable has its type.
TypeOK ==
    /\ at \in 0..Depth
    /\ on_cancel_ \in [Layers -> Hooks]
    /\ my_error \in [Layers -> Codes \cup {"none"}]
    /\ op \in IF at = 0 THEN {"none"} ELSE {"pending", "cancelled", "ok", "failed"}
    /\ outcome \in Codes \cup {"none", "connected", "failed"}
    /\ asked \in BOOLEAN
    /\ runs \in 0..MaxRuns

\* A hook is set exactly while the frame it refers to exists, and for the stage
\* the frame is in: no cancel() touches a frame that is gone, none is ignored.
HooksOwned ==
    \A i \in Layers :
        on_cancel_[i] = IF i < at THEN "next" ELSE IF i = at THEN "own" ELSE "null"

\* After a cancel(), no operation of any layer is in progress uncancelled: the
\* one it found is cancelled and no other is started in the same run.
NothingStartsAfterCancel == asked /\ at # 0 => op # "pending"

\* A cancelled connect ends.
CancelEnds == (asked /\ at # 0) ~> at = 0

C == INSTANCE Cancellable WITH
    status <- IF at # 0 THEN (IF asked THEN "cancelled" ELSE "running")
              ELSE IF outcome = "none" THEN "idle"
              ELSE IF outcome = "connected" THEN "succeeded" ELSE "failed"

\* The chain implements a cancellable operation: a connect that is cancelled at
\* any of its stages does not succeed, even when the cancel comes too late for
\* the operation of that stage.
CancellableSpec == C!Spec
=============================================================================
