----------------------------- MODULE AsyncJoin -----------------------------
(***************************************************************************)
(* async_join_impl: a wait that completes when every event of a fixed set  *)
(* has been set.  Any thread may call any operation; each one holds mutex_ *)
(* from its first look at the state to its last assignment, so each is one *)
(* step.  A wait's handler is never called under the lock: its completion  *)
(* is posted to the handler's own executor, and handlers of different      *)
(* executors run in any order.                                             *)
(*                                                                         *)
(* The program modelled is the release build: where the source asserts     *)
(* something of its caller (a second wait while one waits, an event set    *)
(* twice or unset when it is not set) and goes on, so does the model.      *)
(***************************************************************************)
EXTENDS Naturals, FiniteSets

CONSTANTS
    Events,         \* the events joined
    Codes,          \* the error codes cancel may be called with
    MaxWaits,       \* bound on calls of async_wait
    MaxUnsets       \* bound on calls of unset_event

ASSUME JoinConstants ==
    /\ MaxWaits \in Nat
    /\ MaxUnsets \in Nat
    /\ Codes \cap {"ok", "not_supported", "none"} = {}

VARIABLES
    state_,     \* not_waiting, waiting, complete or error
    events_,    \* the events whose optional has a value
    handler_,   \* the wait whose handler is stored, 0 for none
    error_,     \* the code given to cancel, "none" before
    posted,     \* [wait, ec]: completions on their way to an executor
    done,       \* [wait, ec]: completions whose handler has run
    waits,      \* calls of async_wait so far
    unsets,     \* calls of unset_event so far
    failedFrom, \* 0, or one more than the waits made before the first cancel
    withdrawn   \* history: an event was unset after the join had completed, or
                \* while a success was on its way to its handler

vars == <<state_, events_, handler_, error_, posted, done, waits, unsets, failedFrom,
          withdrawn>>

States == {"not_waiting", "waiting", "complete", "error"}
Waits  == 1..MaxWaits
Result(w, code) == [wait |-> w, ec |-> code]
Results == [wait : Waits, ec : Codes \cup {"ok", "not_supported"}]

triggered == events_ = Events

Init ==
    /\ state_ = "not_waiting"
    /\ events_ = {}
    /\ handler_ = 0
    /\ error_ = "none"
    /\ posted = {}
    /\ done = {}
    /\ waits = 0 /\ unsets = 0
    /\ failedFrom = 0
    /\ withdrawn = FALSE

-----------------------------------------------------------------------------
\* Mutant of StoreWait: triggered() is not consulted.
StoreWaitBlindly(w) ==
    /\ state_ = "not_waiting"
    /\ handler_' = w
    /\ state_' = "waiting"
    /\ UNCHANGED posted

\* The handler of wait w is stored, or its result posted at once.
StoreWait(w) ==
    /\ state_ = "not_waiting" /\ ~triggered
    /\ handler_' = w
    /\ state_' = "waiting"
    /\ UNCHANGED posted

\* Mutant of PostWait: in state error the wait succeeds if the events are set.
PostWaitTriggered(w) ==
    /\ \/ state_ = "waiting" /\ posted' = posted \cup {Result(w, "not_supported")}
       \/ /\ state_ = "complete" \/ (state_ # "waiting" /\ triggered)
          /\ posted' = posted \cup {Result(w, "ok")}
       \/ state_ = "error" /\ ~triggered /\ posted' = posted \cup {Result(w, error_)}
    /\ UNCHANGED <<state_, handler_>>

PostWait(w) ==
    /\ \/ state_ = "waiting" /\ posted' = posted \cup {Result(w, "not_supported")}
       \/ /\ state_ = "complete" \/ (state_ = "not_waiting" /\ triggered)
          /\ posted' = posted \cup {Result(w, "ok")}
       \/ state_ = "error" /\ posted' = posted \cup {Result(w, error_)}
    /\ UNCHANGED <<state_, handler_>>

async_wait ==
    /\ waits < MaxWaits
    /\ waits' = waits + 1
    /\ StoreWait(waits + 1) \/ PostWait(waits + 1)
    /\ UNCHANGED <<events_, error_, done, unsets, failedFrom, withdrawn>>

\* Mutant of ReleaseWaiter: the completion is posted and the handler kept.
ReleaseWaiterKeeps(code) ==
    /\ posted' = posted \cup {Result(handler_, code)}
    /\ UNCHANGED handler_

ReleaseWaiter(code) ==
    /\ posted' = posted \cup {Result(handler_, code)}
    /\ handler_' = 0

\* The first cancel decides the code; a later one finds state_ = error.
cancel(ec) ==
    /\ state_ # "error"
    /\ state_' = "error"
    /\ error_' = ec
    /\ failedFrom' = waits + 1
    /\ IF state_ = "waiting" THEN ReleaseWaiter(ec) ELSE UNCHANGED <<handler_, posted>>
    /\ UNCHANGED <<events_, done, waits, unsets, withdrawn>>

\* Mutants of set_event: a wait is completed whether or not one waits; as soon
\* as one event is set.
set_eventAlways(e) ==
    /\ events_' = events_ \cup {e}
    /\ IF events_' = Events
       THEN state_' = "complete" /\ ReleaseWaiter("ok")
       ELSE UNCHANGED <<state_, handler_, posted>>
    /\ UNCHANGED <<error_, done, waits, unsets, failedFrom, withdrawn>>

set_eventAny(e) ==
    /\ events_' = events_ \cup {e}
    /\ IF state_ = "waiting"
       THEN state_' = "complete" /\ ReleaseWaiter("ok")
       ELSE UNCHANGED <<state_, handler_, posted>>
    /\ UNCHANGED <<error_, done, waits, unsets, failedFrom, withdrawn>>

set_event(e) ==
    /\ events_' = events_ \cup {e}
    /\ IF state_ = "waiting" /\ events_' = Events
       THEN state_' = "complete" /\ ReleaseWaiter("ok")
       ELSE UNCHANGED <<state_, handler_, posted>>
    /\ UNCHANGED <<error_, done, waits, unsets, failedFrom, withdrawn>>

unset_event(e) ==
    /\ unsets < MaxUnsets
    /\ unsets' = unsets + 1
    /\ events_' = events_ \ {e}
    /\ withdrawn' = (withdrawn \/ state_ = "complete" \/ \E r \in posted : r.ec = "ok")
    /\ UNCHANGED <<state_, handler_, error_, posted, done, waits, failedFrom>>

\* An executor invokes the handler of a completed wait.
RunHandler(r) ==
    /\ posted' = posted \ {r}
    /\ done' = done \cup {r}
    /\ UNCHANGED <<state_, events_, handler_, error_, waits, unsets, failedFrom, withdrawn>>

Next ==
    \/ async_wait
    \/ \E ec \in Codes : cancel(ec)
    \/ \E e \in Events : set_event(e)
    \/ \E e \in Events : unset_event(e)
    \/ \E r \in posted : RunHandler(r)

Spec == Init /\ [][Next]_vars

-----------------------------------------------------------------------------
(* Properties.                                                             *)

\* Every variable has its type.
TypeOK ==
    /\ state_ \in States
    /\ events_ \subseteq Events
    /\ handler_ \in 0..MaxWaits
    /\ error_ \in Codes \cup {"none"}
    /\ posted \subseteq Results
    /\ done \subseteq Results
    /\ waits \in 0..MaxWaits
    /\ unsets \in 0..MaxUnsets
    /\ failedFrom \in 0..(MaxWaits + 1)
    /\ withdrawn \in BOOLEAN

\* A handler is stored exactly while state_ says waiting (the assertions in
\* cancel), and every wait is in exactly one place: stored, with a completion on
\* its way, or completed, with a single result.
WaitAccounted ==
    /\ handler_ # 0 <=> state_ = "waiting"
    /\ posted \cap done = {}
    /\ \A w \in 1..waits :
         \/ /\ w = handler_
            /\ \A r \in posted \cup done : r.wait # w
         \/ /\ w # handler_
            /\ \E r \in posted \cup done :
                 /\ r.wait = w
                 /\ \A q \in posted \cup done : q.wait = w => q = r
    /\ handler_ <= waits
    /\ \A r \in posted \cup done : r.wait <= waits

\* The first cancel fails for good: every wait started after it completes with
\* its code, whatever is set, unset or cancelled later.
CancelIsFinal ==
    /\ state_ = "error" <=> failedFrom > 0
    /\ state_ = "error" <=> error_ # "none"
    /\ \A r \in posted \cup done :
         failedFrom > 0 /\ r.wait >= failedFrom => r.ec = error_

\* A handler invoked without an error may call events() (async_join_impl.hpp:53):
\* all of them are set when it runs, not only when it was posted, however often
\* events were set and unset before.  An event unset while the success is on its
\* way takes that away, and so does one unset after the join has completed, since
\* state_ then stays complete: withdrawn names those two cases and no other.
OkMeansTriggered ==
    [][\A r \in done' \ done : r.ec = "ok" /\ ~withdrawn => triggered]_vars

L == INSTANCE Latch WITH
    fired   <- triggered \/ state_ = "complete",
    failed  <- error_,
    pending <- {handler_} \ {0},
    results <- posted \cup done

\* The join implements the latch: no result without its cause, and the wait
\* pending when the last event is set or cancel is called gets its result then.
LatchSpec == L!Spec
=============================================================================
