------------------------------- MODULE Latch -------------------------------
(***************************************************************************)
(* What async_event and async_join_impl promise a waiter: an event that    *)
(* fires or fails, at most one wait pending on it, and a result for each   *)
(* wait that the event's history justifies.  A wait is given its result in *)
(* the same step that fires or fails the event: no wake-up can be missed.  *)
(***************************************************************************)
CONSTANTS
    Waits,      \* identifiers of the wait calls
    Codes       \* the error codes that cancel may be given

Ok           == "ok"
NotSupported == "not_supported"
NoCode       == "none"

VARIABLES
    fired,      \* the event has fired
    failed,     \* the code it failed with, or NoCode
    pending,    \* the waits without a result: none or one
    results     \* [wait, ec]: the results given

Result(w, code) == [wait |-> w, ec |-> code]

\* A join of no events has fired from the start.
Init ==
    /\ fired \in BOOLEAN
    /\ failed = NoCode
    /\ pending = {}
    /\ results = {}

\* Everything pending is given its result at once.
Release(code) ==
    /\ pending' = {}
    /\ results' = results \cup {Result(w, code) : w \in pending}

Wait(w) ==
    /\ w \notin pending
    /\ \A r \in results : r.wait # w
    /\ UNCHANGED <<fired, failed>>
    /\ \/ /\ failed # NoCode
          /\ results' = results \cup {Result(w, failed)}
          /\ UNCHANGED pending
       \/ /\ failed = NoCode /\ fired
          /\ results' = results \cup {Result(w, Ok)}
          /\ UNCHANGED pending
       \/ /\ pending # {}
          /\ results' = results \cup {Result(w, NotSupported)}
          /\ UNCHANGED pending
       \/ /\ failed = NoCode /\ ~fired /\ pending = {}
          /\ pending' = {w}
          /\ UNCHANGED results

Fire ==
    /\ fired' = TRUE
    /\ Release(Ok)
    /\ UNCHANGED failed

\* A failed event need not remember that it had fired.
Fail(code) ==
    /\ failed' = code
    /\ fired' \in {fired, FALSE}
    /\ Release(code)

\* Part of what the event was made of is withdrawn.
Reset ==
    /\ fired' = FALSE
    /\ UNCHANGED <<failed, pending, results>>

Next ==
    \/ \E w \in Waits : Wait(w)
    \/ Fire
    \/ \E code \in Codes : Fail(code)
    \/ Reset

Spec == Init /\ [][Next]_<<fired, failed, pending, results>>
=============================================================================
