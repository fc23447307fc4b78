----------------------------- MODULE AsyncEvent -----------------------------
(***************************************************************************)
(* async_event: a one-shot event that is set or cancelled, and one wait on *)
(* it.  As in AsyncJoin each operation holds mutex_ throughout and is one  *)
(* step, completions are posted to the executor of the wait's handler, and *)
(* the release build is modelled: a second wait while one is stored and a  *)
(* second set_event are asserted against and then go on.                   *)
(***************************************************************************)
EXTENDS Naturals

CONSTANTS
    Codes,      \* the error codes cancel may be called with
    MaxWaits    \* bound on calls of async_wait

ASSUME EventConstants ==
    /\ MaxWaits \in Nat
    /\ Codes \cap {"ok", "not_supported", "none"} = {}

VARIABLES
    event_set_, \* set_event has been called
    handler_,   \* the wait whose handler is stored, 0 for none
    error_,     \* the code of the last cancel, "none" before
    posted,     \* [wait, ec]: completions on their way to an executor
    done,       \* [wait, ec]: completions whose handler has run
    waits       \* calls of async_wait so far

vars == <<event_set_, handler_, error_, posted, done, waits>>

Waits == 1..MaxWaits
Result(w, code) == [wait |-> w, ec |-> code]
Results == [wait : Waits, ec : Codes \cup {"ok", "not_supported"}]

Init ==
    /\ event_set_ = FALSE
    /\ handler_ = 0
    /\ error_ = "none"
    /\ posted = {}
    /\ done = {}
    /\ waits = 0

-----------------------------------------------------------------------------
StoreWait(w) ==
    /\ handler_ = 0
    /\ error_ = "none"
    /\ ~event_set_
    /\ handler_' = w
    /\ UNCHANGED posted

\* The error takes precedence over the event.
PostWait(w) ==
    /\ \/ handler_ # 0 /\ posted' = posted \cup {Result(w, "not_supported")}
       \/ /\ handler_ = 0 /\ error_ # "none"
          /\ posted' = posted \cup {Result(w, error_)}
       \/ /\ handler_ = 0 /\ error_ = "none" /\ event_set_
          /\ posted' = posted \cup {Result(w, "ok")}
    /\ UNCHANGED handler_

async_wait ==
    /\ waits < MaxWaits
    /\ waits' = waits + 1
    /\ StoreWait(waits + 1) \/ PostWait(waits + 1)
    /\ UNCHANGED <<event_set_, error_, done>>

\* Mutant of ReleaseWaiter: posted and the handler kept.
ReleaseWaiterKeeps(code) ==
    /\ posted' = posted \cup {Result(w, code) : w \in {handler_} \ {0}}
    /\ UNCHANGED handler_

\* A stored handler is moved into a posted completion.
ReleaseWaiter(code) ==
    /\ handler_' = 0
    /\ posted' = posted \cup {Result(w, code) : w \in {handler_} \ {0}}

\* Mutant of cancel: only the stored wait learns of it.
cancelOnce(ec) ==
    /\ ReleaseWaiter(ec)
    /\ UNCHANGED <<event_set_, error_, done, waits>>

cancel(ec) ==
    /\ error_' = ec
    /\ ReleaseWaiter(ec)
    /\ UNCHANGED <<event_set_, done, waits>>

\* A stored handler is posted error_, which no stored wait has seen set.
set_event ==
    /\ event_set_' = TRUE
    /\ ReleaseWaiter(IF error_ = "none" THEN "ok" ELSE error_)
    /\ UNCHANGED <<error_, done, waits>>

\* An executor invokes the handler of a completed wait.
RunHandler(r) ==
    /\ posted' = posted \ {r}
    /\ done' = done \cup {r}
    /\ UNCHANGED <<event_set_, handler_, error_, waits>>

Next ==
    \/ async_wait
    \/ \E ec \in Codes : cancel(ec)
    \/ set_event
    \/ \E r \in posted : RunHandler(r)

Spec == Init /\ [][Next]_vars

-----------------------------------------------------------------------------
(* Properties.                                                             *)

\* Every variable has its type.
TypeOK ==
    /\ event_set_ \in BOOLEAN
    /\ handler_ \in 0..MaxWaits
    /\ error_ \in Codes \cup {"none"}
    /\ posted \subseteq Results
    /\ done \subseteq Results
    /\ waits \in 0..MaxWaits

\* Every wait is in exactly one place, stored, on its way or completed, with a
\* single result.
WaitAccounted ==
    /\ posted \cap done = {}
    /\ handler_ <= waits
    /\ \A r \in posted \cup done : r.wait <= waits
    /\ \A w \in 1..waits :
         \/ w = handler_ /\ \A r \in posted \cup done : r.wait # w
         \/ /\ w # handler_
            /\ \E r \in posted \cup done :
                 /\ r.wait = w
                 /\ \A q \in posted \cup done : q.wait = w => q = r

\* After a cancel no wait is given success, even if the event was or will be set.
NoSuccessAfterCancel ==
    [][error_ # "none" => \A r \in posted' \ posted : r.ec # "ok"]_vars

L == INSTANCE Latch WITH
    fired   <- event_set_,
    failed  <- error_,
    pending <- {handler_} \ {0},
    results <- posted \cup done

\* The event implements the latch: no result without its cause, and the pending
\* wait gets its result in the step that sets or cancels the event.
LatchSpec == L!Spec
=============================================================================
