---------------------------- MODULE JsonRpcState ----------------------------
(***************************************************************************)
(* json_rpc::websocket_state_impl: a table of calls over the websocket of  *)
(* WebsocketState, whose actions this module takes over.  A call gets an   *)
(* id and an entry in the table, and its request goes to send_text(); the  *)
(* frames that arrive go to on_rx, which looks for the entry.              *)
(*                                                                         *)
(* A call is the number of its async_call, and so is its request; 0 is a   *)
(* frame that was moved from.                                              *)
(* Ids are 64 bits wide and counted from whatever request_id_ holds when   *)
(* the object is made: no constructor sets it.  FirstId is that value, and *)
(* IdModulus stands for 2^64.                                              *)
(* The peer answers, in any order and as often as it likes, requests that  *)
(* reached it, and may send an id that belongs to none.                    *)
(***************************************************************************)
EXTENDS WebsocketState, Integers

CONSTANTS
    MaxCalls,       \* bound on calls
    IdModulus,      \* number of ids
    FirstId         \* what the uninitialised request_id_ holds

ASSUME IdsSuffice ==
    /\ MaxCalls \in Nat /\ IdModulus \in Nat /\ MaxCalls < IdModulus
    /\ FirstId \in 0..(IdModulus - 1)

VARIABLES
    request_id_,
    call_handlers_, \* per id: the call whose handler is stored, 0 for no entry
    ids,            \* per call: the id in the text of its request
    calls,          \* calls made so far
    results,        \* per call: the results posted to its handler, each the
                    \* request that was answered or 0 for an error
    tx,             \* the requests in tx_queue: what w.queued is about
    carried,        \* the request that W was given and has not written, or 0
    wire            \* the requests that the peer has received

callVars == <<request_id_, call_handlers_, ids, calls, results>>
frameVars == <<tx, carried, wire>>
allVars == <<vars, callVars, frameVars>>

Ids   == 0..(IdModulus - 1)
Calls == 1..MaxCalls

JsonInit ==
    /\ Init
    /\ request_id_ = FirstId
    /\ call_handlers_ = [i \in Ids |-> 0]
    /\ ids = [n \in Calls |-> FirstId]
    /\ calls = 0
    /\ results = [n \in Calls |-> <<>>]
    /\ tx = <<>>
    /\ carried = 0
    /\ wire = {}

-----------------------------------------------------------------------------
(* async_call                                                              *)

\* request_id_++ on a signed 64-bit integer.  C++ leaves its overflow undefined; the
\* outcome taken is the wrap that the hardware's increment gives.
NextId == IF request_id_ = IdModulus - 1 THEN 0 ELSE request_id_ + 1

\* Mutant of RequestId: the id is read after it has been counted on.
RequestIdNext == NextId

\* The id that is put into the request.
RequestId == request_id_

\* send_text(): the request goes to W's pop, or behind what is queued.
Sent ==
    /\ SendText
    /\ IF w.popper
       THEN carried' = calls' /\ UNCHANGED tx
       ELSE tx' = Append(tx, calls') /\ UNCHANGED carried
    /\ call_handlers_' = [call_handlers_ EXCEPT ![request_id_] = calls']
    /\ UNCHANGED <<results, wire>>

\* Mutants of Refused: the entry is kept; the request is queued all the same.
RefusedKept ==
    /\ ~dangling /\ ~sender
    /\ results' = [results EXCEPT ![calls'] = Append(@, 0)]
    /\ call_handlers_' = [call_handlers_ EXCEPT ![request_id_] = calls']
    /\ UNCHANGED <<vars, frameVars>>

RefusedLate ==
    /\ ~dangling /\ ~sender
    /\ results' = [results EXCEPT ![calls'] = Append(@, 0)]
    /\ tx' = IF w.queued THEN Append(tx, calls') ELSE tx
    /\ UNCHANGED <<vars, call_handlers_, carried, wire>>

\* send_text() throws, as there is no connection: do_error posts the code and
\* erases the entry.
Refused ==
    /\ ~dangling /\ ~sender
    /\ results' = [results EXCEPT ![calls'] = Append(@, 0)]
    /\ call_handlers_' = [call_handlers_ EXCEPT ![request_id_] = 0]
    /\ UNCHANGED <<vars, frameVars>>

async_call ==
    /\ calls < MaxCalls
    /\ calls' = calls + 1
    /\ request_id_' = NextId
    /\ ids' = [ids EXCEPT ![calls'] = RequestId]
    /\ Sent \/ Refused

-----------------------------------------------------------------------------
(* Frames that arrive.                                                     *)

\* Mutant of Answered: the entry is erased before its handler is used.
AnsweredDropped(n) ==
    /\ call_handlers_[ids[n]] # 0
    /\ call_handlers_' = [call_handlers_ EXCEPT ![ids[n]] = 0]
    /\ UNCHANGED results

\* on_rx: the response to request n, with a result, an error or neither, completes
\* the call stored under its id and erases the entry.
Answered(n) ==
    /\ call_handlers_[ids[n]] # 0
    /\ results' = [results EXCEPT ![call_handlers_[ids[n]]] = Append(@, n)]
    /\ call_handlers_' = [call_handlers_ EXCEPT ![ids[n]] = 0]

Response(n) ==
    /\ ReadFrame
    /\ n \in wire
    /\ Answered(n)
    /\ UNCHANGED <<request_id_, ids, calls, frameVars>>

\* A call of the peer's, which goes to on_method, an id without an entry or a
\* frame with neither, which are logged; a binary frame.
OtherFrame == ReadFrame /\ UNCHANGED <<callVars, frameVars>>

-----------------------------------------------------------------------------
(* Requests on their way.                                                  *)

\* The peer has the request while W still waits for the write to complete: an
\* answer may be read before that.
Received ==
    /\ ~dangling
    /\ "write" \in ops /\ carried # 0
    /\ wire' = wire \cup {carried}
    /\ carried' = 0
    /\ UNCHANGED <<vars, callVars, tx>>

\* A write may fail before the peer has the request, or after.
WriteEnds ==
    /\ \/ carried = 0 /\ WriteDone
       \/ carried # 0 /\ Complete("write", "W", "error")
    /\ carried' = 0
    /\ UNCHANGED <<callVars, tx, wire>>

\* W goes on with the request it was given, or stops and drops it.
Popped ==
    /\ WriterPopped
    /\ carried' = IF w'.pc = "writing" THEN carried ELSE 0
    /\ UNCHANGED <<callVars, tx, wire>>

\* W's next pop: the front is moved from and stays, as in QueueImpl.
Wrote ==
    /\ WriterWrote
    /\ IF w'.pc = "popping" /\ tx # <<>>
       THEN carried' = Head(tx) /\ tx' = [tx EXCEPT ![1] = 0]
       ELSE UNCHANGED <<carried, tx>>
    /\ UNCHANGED <<callVars, wire>>

\* What the websocket does without a request.
Connection ==
    /\ \/ RunStart \/ ConnectCall \/ Close
       \/ ConnectDone \/ CloseDone \/ ReadDone
       \/ Requested \/ Connected \/ ReadClosed \/ ReadFails \/ Orphaned
       \/ WriterStart \/ CloserStart \/ CloserReleased \/ CloserDone
       \/ ConnectReturns
    /\ UNCHANGED <<callVars, frameVars>>

JsonNext ==
    \/ async_call
    \/ \E n \in Calls : Response(n)
    \/ OtherFrame
    \/ Received
    \/ WriteEnds
    \/ Popped
    \/ Wrote
    \/ Connection

\* A peer goes on answering the requests it has received, among other frames.
Unanswered == \E n \in wire : results[n] = <<>>

PeerFairness ==
    /\ WF_vars(Unanswered /\ Complete("read", "R", "frame"))
    /\ SF_allVars(\E n \in Calls : results[n] = <<>> /\ Response(n))

JsonSpec == JsonInit /\ [][JsonNext]_allVars /\ Fairness /\ PeerFairness

-----------------------------------------------------------------------------
(* Properties.                                                             *)

\* Every variable has its type; w.queued of the websocket says whether tx is empty.
CallTypeOK ==
    /\ TypeOK
    /\ request_id_ \in Ids
    /\ call_handlers_ \in [Ids -> 0..MaxCalls]
    /\ ids \in [Calls -> Ids]
    /\ calls \in 0..MaxCalls
    /\ results \in [Calls -> Seq(0..MaxCalls)]
    /\ tx \in Seq(0..MaxCalls)
    /\ carried \in 0..MaxCalls
    /\ wire \subseteq Calls
    /\ w.queued <=> tx # <<>>

\* A call that was made is in the table, under the id its request carries, or has
\* been given one result, never both and never neither: no handler is lost or
\* completed twice, whatever request_id_ started from, and across its overflow.
CallInOnePlace ==
    \A n \in Calls :
        LET stored == n <= calls /\ call_handlers_[ids[n]] = n
        IN /\ Len(results[n]) = (IF n > calls \/ stored THEN 0 ELSE 1)
           /\ \A i \in Ids : call_handlers_[i] = n => stored /\ i = ids[n]

\* A call is completed by the response to its own request, which has reached the
\* peer by then, or by an error; never by the response to another call.
OwnResponse ==
    \A n \in Calls : results[n] \in {<<>>, <<0>>} \/ (results[n] = <<n>> /\ n \in wire)

\* Each request is in one place at most, and is that of a call that was not refused:
\* a call completed with "not connected" is never carried out by the peer, and none is
\* sent twice.
RequestsAccounted ==
    \A n \in Calls :
        LET queued == {k \in 1..Len(tx) : tx[k] = n}
        IN /\ Cardinality(queued) + (IF carried = n THEN 1 ELSE 0)
                + (IF n \in wire THEN 1 ELSE 0) <= 1
           /\ queued # {} \/ carried = n \/ n \in wire => n <= calls /\ results[n] # <<0>>

\* Calls whose requests have reached the peer complete, unless the connection ends
\* first: then nothing completes them, as the table is only read when frames arrive.
CallsAnswered == Unanswered ~> (~Unanswered \/ Ended \/ dangling)
=============================================================================
