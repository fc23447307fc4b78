----------------------------- MODULE RequestMap -----------------------------
(***************************************************************************)
(* json_rpc::request_map: the JSON-RPC requests in flight, and those held  *)
(* back until the connection is authenticated.  It is used by one thread;  *)
(* each call is one step, except that the continuation it hands a frame to *)
(* may throw in the middle of it.  Completions are posted to the handlers' *)
(* executors, each exactly once, so posting is taken as completing.        *)
(*                                                                         *)
(* A request is named by the number of its call.  The id in its frame is   *)
(* the place of the request in issued; the map of handlers is keyed by the *)
(* id converted to int, which is narrower than the id: KeyModulus stands   *)
(* for 2^32.                                                               *)
(***************************************************************************)
EXTENDS Naturals, Sequences, FiniteSets

CONSTANTS
    MaxRequests,    \* bound on calls of add_async_request
    KeyModulus      \* number of different keys of outstanding_

ASSUME RequestConstants ==
    /\ MaxRequests \in Nat
    /\ KeyModulus \in Nat \ {0}

VARIABLES
    auth_state_,    \* authenticated or not_authenticated
    pending_,       \* pending_authentication_: requests held back, in order
    outstanding_,   \* the map: key -> the request whose handler it holds
    issued,         \* issued[id]: the request that was given the id
    private,        \* the requests whose method starts with private/
    completed,      \* [req, res]: completions posted to handlers
    lost,           \* requests whose handler was destroyed without completion
    requests,       \* calls of add_async_request so far
    threw           \* the last call ended with an exception

vars == <<auth_state_, pending_, outstanding_, issued, private, completed,
          lost, requests, threw>>

Requests    == 1..MaxRequests
current_id_ == Len(issued)
Outcomes    == {"result", "failure", "invalid_content", "aborted"}
Completion(q, res) == [req |-> q, res |-> res]

\* Mutant of Key: two requests in a row share a key.
KeyHalf(id) == (id \div 2) % KeyModulus

\* The key under which an id is stored and looked up.
Key(id)     == id % KeyModulus

Init ==
    /\ auth_state_ = "not_authenticated"
    /\ pending_ = <<>>
    /\ outstanding_ = <<>>
    /\ issued = <<>>
    /\ private = {}
    /\ completed = {}
    /\ lost = {}
    /\ requests = 0
    /\ threw = FALSE

-----------------------------------------------------------------------------
\* Mutant of Stored: the return value of emplace() taken for granted.
StoredAlways(qs) == 1..Len(qs)

\* Of the requests qs, about to be given the next ids, those that emplace()
\* stores: a map that has the key already is left alone.
Stored(qs) ==
    {i \in 1..Len(qs) :
        /\ Key(current_id_ + i) \notin DOMAIN outstanding_
        /\ \A j \in 1..(i - 1) : Key(current_id_ + j) # Key(current_id_ + i)}

\* The requests qs get the next ids; a handler that is not stored is destroyed,
\* as are those of the requests in dropped.
Issue(qs, dropped) ==
    LET keyed(k) == {i \in Stored(qs) : Key(current_id_ + i) = k}
        new      == {Key(current_id_ + i) : i \in Stored(qs)}
    IN  /\ issued' = issued \o qs
        /\ outstanding_' =
             [k \in DOMAIN outstanding_ \cup new |->
                IF k \in DOMAIN outstanding_ THEN outstanding_[k]
                                             ELSE qs[CHOOSE i \in keyed(k) : TRUE]]
        /\ lost' = lost \cup dropped \cup {qs[i] : i \in (1..Len(qs)) \ Stored(qs)}

\* Mutant of HoldBack: the request is put before those already held back.
HoldBackFirst(q) ==
    /\ auth_state_ # "authenticated"
    /\ q \in private'
    /\ pending_' = <<q>> \o pending_
    /\ threw' = FALSE
    /\ UNCHANGED <<outstanding_, issued, lost>>

HoldBack(q) ==
    /\ auth_state_ # "authenticated"
    /\ q \in private'
    /\ pending_' = Append(pending_, q)
    /\ threw' = FALSE
    /\ UNCHANGED <<outstanding_, issued, lost>>

\* If the continuation throws, the handler is already stored and stays so.
SendNow(q) ==
    /\ auth_state_ = "authenticated" \/ q \notin private'
    /\ Issue(<<q>>, {})
    /\ threw' \in BOOLEAN
    /\ UNCHANGED pending_

add_async_request ==
    /\ requests < MaxRequests
    /\ requests' = requests + 1
    /\ private' \in {private, private \cup {requests'}}
    /\ HoldBack(requests') \/ SendNow(requests')
    /\ UNCHANGED <<auth_state_, completed>>

\* The held-back requests are issued in order.  If the continuation throws for
\* the n-th, the handlers of those after it are destroyed with the vector.
notify_autenticated ==
    /\ auth_state_ = "not_authenticated"
    /\ auth_state_' = "authenticated"
    /\ pending_' = <<>>
    /\ \E n \in 0..Len(pending_) :
         /\ Issue(SubSeq(pending_, 1, n), {pending_[i] : i \in (n + 1)..Len(pending_)})
         /\ \/ n = Len(pending_) /\ threw' = FALSE
            \/ n > 0 /\ threw' = TRUE
    /\ UNCHANGED <<private, completed, requests>>

RespondMatched(id, res) ==
    /\ Key(id) \in DOMAIN outstanding_
    /\ completed' = completed \cup {Completion(outstanding_[Key(id)], res)}
    /\ outstanding_' = [k \in DOMAIN outstanding_ \ {Key(id)} |-> outstanding_[k]]
    /\ threw' = FALSE

\* A response that matches nothing is logged.
RespondUnmatched(id) ==
    /\ Key(id) \notin DOMAIN outstanding_
    /\ threw' = FALSE
    /\ UNCHANGED <<outstanding_, completed>>

\* A well-formed response: the peer may send any id, and a frame with neither
\* a result nor an error.
async_complete(id, res) ==
    /\ RespondMatched(id, res) \/ RespondUnmatched(id)
    /\ UNCHANGED <<auth_state_, pending_, issued, private, lost, requests>>

\* A frame that is no object, or has no integer id.
async_complete_malformed ==
    /\ threw' = TRUE
    /\ UNCHANGED <<auth_state_, pending_, outstanding_, issued, private,
                   completed, lost, requests>>

\* Every handler is completed; the state of the authentication stays.
cancel ==
    /\ completed' = completed
         \cup {Completion(outstanding_[k], "aborted") : k \in DOMAIN outstanding_}
         \cup {Completion(pending_[i], "aborted") : i \in 1..Len(pending_)}
    /\ pending_' = <<>>
    /\ outstanding_' = <<>>
    /\ threw' = FALSE
    /\ UNCHANGED <<auth_state_, issued, private, lost, requests>>

Next ==
    \/ add_async_request
    \/ notify_autenticated
    \/ \E id \in 1..(MaxRequests + 1), res \in Outcomes \ {"aborted"} :
         async_complete(id, res)
    \/ async_complete_malformed
    \/ cancel

Spec == Init /\ [][Next]_vars

-----------------------------------------------------------------------------
(* Properties.                                                             *)

\* Every variable has its type.
TypeOK ==
    /\ auth_state_ \in {"not_authenticated", "authenticated"}
    /\ pending_ \in Seq(Requests)
    /\ DOMAIN outstanding_ \subseteq 0..(KeyModulus - 1)
    /\ \A k \in DOMAIN outstanding_ : outstanding_[k] \in Requests
    /\ issued \in Seq(Requests)
    /\ private \subseteq Requests
    /\ completed \subseteq [req : Requests, res : Outcomes]
    /\ lost \subseteq Requests
    /\ requests \in 0..MaxRequests
    /\ threw \in BOOLEAN

\* The handlers of a request that waits, is in flight, is completed or lost.
Held     == {pending_[i] : i \in 1..Len(pending_)}
InFlight == {outstanding_[k] : k \in DOMAIN outstanding_}
Answered == {r.req : r \in completed}

\* Every handler is in exactly one place, and none is completed twice, whatever
\* ids the peer answers, whichever keys collide and wherever a send throws.
RequestAccounted ==
    /\ Held \cup InFlight \cup Answered \cup lost = 1..requests
    /\ Len(pending_) + Cardinality(DOMAIN outstanding_) + Cardinality(completed)
         + Cardinality(lost) = requests

\* A handler is lost in two ways only.  A request that was held back goes down,
\* never issued, with the call of notify_autenticated that throws before its turn;
\* or emplace() finds its key taken, and then by a request that is still in flight
\* and whose id is the same modulo the keys: not before the ids outgrow the keys,
\* and not for a key whose request has been completed.
NoneLostSilently ==
    [][\A q \in lost' \ lost :
        \/ threw' /\ q \in Held /\ \A n \in 1..Len(issued') : issued'[n] # q
        \/ \E m, n \in 1..Len(issued') :
             /\ issued'[m] \in InFlight' /\ issued'[n] = q
             /\ m % KeyModulus = n % KeyModulus]_vars

\* A response completes the request of an id that is the same modulo the keys, so
\* that of its own id until the ids outgrow them: whatever ids the peer answers,
\* twice or late, no other handler is called.
ResponseMatches ==
    [][\A id \in 1..(MaxRequests + 1), res \in Outcomes \ {"aborted"} :
        async_complete(id, res) =>
            \A r \in completed' \ completed :
                \E n \in 1..Len(issued) :
                    /\ r.req = issued[n]
                    /\ n % KeyModulus = id % KeyModulus]_vars

\* The frames of private requests go out after the authentication, in the order
\* of the calls, and a held-back request is not overtaken by a later private one.
PrivateInOrder ==
    /\ \A i, j \in 1..Len(issued) :
         i < j /\ {issued[i], issued[j]} \subseteq private => issued[i] < issued[j]
    /\ Held # {} => /\ auth_state_ = "not_authenticated"
                    /\ \A i \in 1..Len(issued) : issued[i] \notin private
=============================================================================
