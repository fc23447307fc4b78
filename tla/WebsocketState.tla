--------------------------- MODULE WebsocketState ---------------------------
(***************************************************************************)
(* websocket_state_impl: one connection, from the call of operator() (the  *)
(* run) to its return.  Everything happens on one executor that runs its   *)
(* ready queue in order, so a step is what one task does between two       *)
(* suspensions.  Four coroutines take part:                                *)
(*    R  the run: waits for a connect request, connects, forks, reads      *)
(*    W  the write state: pops frames off its queue and writes them        *)
(*    C  the close state: waits for a close request, closes the websocket  *)
(*    K  the client's call of connect(), which waits for the run           *)
(* and the client's calls of close() and send_text().  The stream, and the *)
(* connect states below it, complete an operation whenever they like.      *)
(*                                                                         *)
(* write_state, close_state and connected_join live in R's frame.  When R  *)
(* has ended, a step of W or C, or a call through a handler that refers to *)
(* them, uses destroyed objects: the model records it in dangling and goes *)
(* no further, since the program may do anything from there on.  on_cancel_*)
(* of the write state also refers to locals of W's own frame.              *)
(***************************************************************************)
EXTENDS Naturals, Sequences, FiniteSets

VARIABLES
    inline,     \* net::co_spawn enters the coroutine at once, or else posts its
                \* first step: which one depends on Boost.Asio
    run,        \* pc of R, its close_request, and what on_close_ refers to
    latch,      \* connect_latch_: its state_, and whether its event is set
    sig,        \* connected_signal_: set, error_ and the stored handler
    kpc,        \* K: idle, waiting, ok, failed
    w,          \* W: pc, on_cancel_ set, handler stored in tx_queue, my_error,
                \*    frames in tx_queue
    c,          \* C: pc, on_close_ and on_cancel_ set, state_ of close_latch_,
                \*    event set
    sender,     \* on_send_text_ is set
    frames,     \* on_text_frame_ and on_binary_frame_ are set
    ops,        \* operations of the stream under way
    ready,      \* the executor's queue: [who resumes, with what result]
    closeCalled,    \* history: close() has been called while R was running and C,
                    \* if forked, had taken its first step
    dangling    \* a destroyed object has been used

vars == <<inline, run, latch, sig, kpc, w, c, sender, frames, ops, ready,
          closeCalled, dangling>>

\* Mutant of Item: the arguments swapped.
ItemSwapped(who, ec) == [who |-> ec, ec |-> who]

Item(who, ec) == [who |-> who, ec |-> ec]
Resume == [who : {"R", "W", "C", "K"}, ec : {"ok", "error", "closed", "frame"}]
Ended  == run.pc \in {"returned", "threw"}
Active == run.pc \in {"await_connect", "connecting", "reading"}

Init ==
    /\ inline \in BOOLEAN
    /\ run = [pc |-> "idle", closeReq |-> FALSE, onClose |-> "null"]
    /\ latch = [state |-> "not_waiting", set |-> FALSE]
    /\ sig = [set |-> FALSE, err |-> FALSE, handler |-> FALSE]
    /\ kpc = "idle"
    /\ w = [pc |-> "none", cancel |-> FALSE, popper |-> FALSE, err |-> FALSE,
            queued |-> FALSE]
    /\ c = [pc |-> "none", hooks |-> FALSE, latch |-> "not_waiting", set |-> FALSE]
    /\ sender = FALSE
    /\ frames = FALSE
    /\ ops = {}
    /\ ready = <<>>
    /\ closeCalled = FALSE
    /\ dangling = FALSE

ghosts == <<inline, closeCalled, dangling>>

-----------------------------------------------------------------------------
(* Calls of the client.                                                    *)

\* operator(): the handlers are installed, then connect_latch_.async_wait.
RunStart ==
    /\ ~dangling
    /\ run.pc = "idle"
    /\ run' = [run EXCEPT !.pc = "await_connect", !.onClose = "latch"]
    /\ frames' = TRUE
    /\ IF latch.set
       THEN ready' = Append(ready, Item("R", "ok")) /\ UNCHANGED latch
       ELSE latch' = [latch EXCEPT !.state = "waiting"] /\ UNCHANGED ready
    /\ UNCHANGED <<sig, kpc, w, c, sender, ops, ghosts>>

\* connect(): set_event on the latch, then async_wait on the signal.  A client
\* calls it once: connect() asserts that the latch is not triggered.
ConnectCall ==
    /\ ~dangling
    /\ kpc = "idle"
    /\ kpc' = "waiting"
    /\ latch' = [state |-> IF latch.state = "waiting" THEN "complete" ELSE latch.state,
                 set   |-> TRUE]
    /\ sig' = [sig EXCEPT !.handler = ~sig.err /\ ~sig.set]
    /\ ready' = ready
         \o (IF latch.state = "waiting" THEN <<Item("R", "ok")>> ELSE <<>>)
         \o (IF sig.err THEN <<Item("K", "error")>>
             ELSE IF sig.set THEN <<Item("K", "ok")>> ELSE <<>>)
    /\ UNCHANGED <<run, w, c, sender, frames, ops, ghosts>>

\* close() while the run waits for a connect request: connect_latch_.cancel().
CloseBeforeConnect ==
    /\ run.onClose = "latch"
    /\ run' = [run EXCEPT !.closeReq = TRUE]
    /\ latch' = [latch EXCEPT !.state = "error"]
    /\ ready' = IF latch.state = "waiting" THEN Append(ready, Item("R", "error"))
                                           ELSE ready
    /\ UNCHANGED <<w, c, sender, dangling>>

\* close() while connecting: the connect state ends with an error, now or when
\* its current operation completes, as closeReq tells it to.
CloseConnecting ==
    /\ run.onClose = "connect"
    /\ run' = [run EXCEPT !.closeReq = TRUE]
    /\ UNCHANGED <<latch, w, c, sender, ready, dangling>>

\* Mutants of CancelWriter: on_cancel_ leaves on_send_text_ set; the pop is
\* completed and its handler kept.
CancelWriterKeepsSender(first, last) ==
    \/ /\ ~w.cancel
       /\ ready' = first
       /\ UNCHANGED <<w, sender, dangling>>
    \/ /\ w.cancel /\ w.pc = "done"
       /\ dangling' = TRUE
       /\ ready' = first
       /\ UNCHANGED <<w, sender>>
    \/ /\ w.cancel /\ w.pc # "done"
       /\ w' = [w EXCEPT !.err = TRUE, !.popper = FALSE]
       /\ ready' = first \o (IF w.popper THEN <<Item("W", "error")>> ELSE <<>>) \o last
       /\ UNCHANGED <<sender, dangling>>

CancelWriterTwice(first, last) ==
    \/ /\ ~w.cancel
       /\ ready' = first
       /\ UNCHANGED <<w, sender, dangling>>
    \/ /\ w.cancel /\ w.pc # "done"
       /\ w' = [w EXCEPT !.err = TRUE]
       /\ sender' = FALSE
       /\ ready' = first \o (IF w.popper THEN <<Item("W", "error")>> ELSE <<>>) \o last
       /\ UNCHANGED dangling

\* write_state.cancel(): on_cancel_ is called whatever it is.  Empty, it throws;
\* left behind by a W that is done, it refers to W's destroyed frame; else it
\* completes a stored pop with the error.  first and last are the queue before
\* the call and what its caller adds after it.
CancelWriter(first, last) ==
    \/ /\ ~w.cancel
       /\ ready' = first
       /\ UNCHANGED <<w, sender, dangling>>
    \/ /\ w.cancel /\ w.pc = "done"
       /\ dangling' = TRUE
       /\ ready' = first
       /\ UNCHANGED <<w, sender>>
    \/ /\ w.cancel /\ w.pc # "done"
       /\ w' = [w EXCEPT !.err = TRUE, !.popper = FALSE]
       /\ sender' = FALSE
       /\ ready' = first \o (IF w.popper THEN <<Item("W", "error")>> ELSE <<>>) \o last
       /\ UNCHANGED dangling

\* Mutant of CloseConnected: only the writer hears of the close request.
CloseConnectedHalf ==
    /\ run.onClose = "action" /\ ~Ended
    /\ CancelWriter(ready, <<>>)
    /\ UNCHANGED <<run, latch, c>>

\* close() while connected: action_close, close_state.close() then
\* write_state.cancel(), which may throw out of close().
CloseConnected ==
    /\ run.onClose = "action" /\ ~Ended
    /\ c' = IF c.hooks
            THEN [c EXCEPT !.set = TRUE,
                           !.latch = IF @ = "waiting" THEN "complete" ELSE @]
            ELSE c
    /\ CancelWriter(IF c.hooks /\ c.latch = "waiting"
                    THEN Append(ready, Item("C", "ok")) ELSE ready, <<>>)
    /\ UNCHANGED <<run, latch>>

\* close() after a run that returned with on_close_ still set.
CloseDangling ==
    /\ run.onClose = "action" /\ Ended
    /\ dangling' = TRUE
    /\ UNCHANGED <<run, latch, w, c, sender, ready>>

Close ==
    /\ ~dangling
    /\ CloseBeforeConnect \/ CloseConnecting \/ CloseConnected \/ CloseDangling
    /\ closeCalled' = (closeCalled \/ (Active /\ c.pc # "spawned"))
    /\ UNCHANGED <<inline, sig, kpc, frames, ops>>

\* send_text(): the frame goes to a stored pop, or is queued.  A queued frame
\* never leaves the queue (QueueImpl), so whether there is one says it all.
SendText ==
    /\ ~dangling
    /\ sender
    /\ IF w.popper
       THEN w' = [w EXCEPT !.popper = FALSE] /\ ready' = Append(ready, Item("W", "ok"))
       ELSE w' = [w EXCEPT !.queued = TRUE] /\ UNCHANGED ready
    /\ UNCHANGED <<run, latch, sig, kpc, c, sender, frames, ops, ghosts>>

-----------------------------------------------------------------------------
(* The stream: an operation completes and its coroutine becomes ready.     *)

Complete(op, who, ec) ==
    /\ ~dangling
    /\ op \in ops
    /\ ops' = ops \ {op}
    /\ ready' = Append(ready, Item(who, ec))
    /\ UNCHANGED <<run, latch, sig, kpc, w, c, sender, frames, ghosts>>

ConnectDone == \E ec \in {"ok", "error"} : Complete("connect", "R", ec)
WriteDone   == \E ec \in {"ok", "error"} : Complete("write", "W", ec)
CloseDone   == \E ec \in {"ok", "error"} : Complete("close", "C", ec)
\* A frame handler that throws ends the read like an error of the stream.
ReadDone    == \E ec \in {"frame", "closed", "error"} : Complete("read", "R", ec)
\* The peer answers the close frame that C has sent.
PeerCloses  == c.pc \in {"closing", "done"} /\ Complete("read", "R", "closed")

-----------------------------------------------------------------------------
(* Tasks: the head of the ready queue resumes its coroutine.               *)

rest == Tail(ready)
Resuming(who) == ~dangling /\ ready # <<>> /\ Head(ready).who = who
result == Head(ready).ec

\* Mutant of RunFails: the client waiting in connect() is not told.
RunFailsSilently ==
    /\ run' = [run EXCEPT !.pc = IF run.closeReq THEN "returned" ELSE "threw",
                          !.onClose = "null"]
    /\ frames' = FALSE
    /\ ready' = rest
    /\ UNCHANGED <<latch, sig, kpc, w, c, sender, ops, ghosts>>

\* The handlers of the outer try block: connected_signal_.cancel(), and the
\* exception is swallowed if a close was requested.
RunFails ==
    /\ run' = [run EXCEPT !.pc = IF run.closeReq THEN "returned" ELSE "threw",
                          !.onClose = "null"]
    /\ frames' = FALSE
    /\ sig' = [sig EXCEPT !.err = TRUE, !.handler = FALSE]
    /\ ready' = IF sig.handler THEN Append(rest, Item("K", "error")) ELSE rest
    /\ UNCHANGED <<latch, kpc, w, c, sender, ops, ghosts>>

\* R resumes from connect_latch_: a close request wins over a connect request.
Requested ==
    /\ Resuming("R") /\ run.pc = "await_connect"
    /\ \/ /\ result = "error" \/ run.closeReq
          /\ RunFails
       \/ /\ result = "ok" /\ ~run.closeReq
          /\ run' = [run EXCEPT !.pc = "connecting", !.onClose = "connect"]
          /\ ops' = ops \cup {"connect"}
          /\ ready' = rest
          /\ UNCHANGED <<latch, sig, kpc, w, c, sender, frames, ghosts>>

\* W up to its first suspension: on_send_text_ and on_cancel_ set, pop started.
WriterStarted == [w EXCEPT !.pc = "popping", !.cancel = TRUE, !.popper = TRUE]
\* C up to its first suspension: on_close_ and on_cancel_ set, latch waited on.
CloserStarted == [c EXCEPT !.pc = "waiting", !.hooks = TRUE, !.latch = "waiting"]

\* Mutant of Announce: the stored handler is dropped.
AnnounceNothing == <<>>

\* The completion of connected_signal_.set_event().
Announce == IF sig.handler THEN <<Item("K", "ok")>> ELSE <<>>

\* Mutant of Fork: the connection is announced before the forks.
ForkAfter ==
    /\ sig' = [sig EXCEPT !.set = TRUE, !.handler = FALSE]
    /\ ops' = ops \cup {"read"}
    /\ w' = [w EXCEPT !.pc = "spawned"]
    /\ c' = [c EXCEPT !.pc = "spawned"]
    /\ ready' = rest \o Announce \o <<Item("W", "ok"), Item("C", "ok")>>
    /\ UNCHANGED sender

\* The connection is up: W and C are forked, the client is told, reading starts.
Fork ==
    /\ sig' = [sig EXCEPT !.set = TRUE, !.handler = FALSE]
    /\ ops' = ops \cup {"read"}
    /\ IF inline
       THEN /\ w' = WriterStarted
            /\ c' = CloserStarted
            /\ sender' = TRUE
            /\ ready' = rest \o Announce
       ELSE /\ w' = [w EXCEPT !.pc = "spawned"]
            /\ c' = [c EXCEPT !.pc = "spawned"]
            /\ ready' = rest \o <<Item("W", "ok"), Item("C", "ok")>> \o Announce
            /\ UNCHANGED sender

\* R resumes from connect_state: its error_check fails it if it was cancelled.
Connected ==
    /\ Resuming("R") /\ run.pc = "connecting"
    /\ \/ /\ result = "error" \/ run.closeReq
          /\ RunFails
       \/ /\ result = "ok" /\ ~run.closeReq
          /\ run' = [run EXCEPT !.pc = "reading", !.onClose = "action"]
          /\ Fork
          /\ UNCHANGED <<latch, kpc, frames, ghosts>>

\* The run returns; connected_join.async_wait() is called, not awaited.
RunReturns ==
    /\ run' = [run EXCEPT !.pc = "returned"]
    /\ frames' = FALSE

ReadFrame ==
    /\ Resuming("R") /\ run.pc = "reading" /\ result = "frame"
    /\ ops' = ops \cup {"read"}
    /\ ready' = rest
    /\ UNCHANGED <<run, latch, sig, kpc, w, c, sender, frames, ghosts>>

\* The websocket was closed by the peer: read_state returns.
ReadClosed ==
    /\ Resuming("R") /\ run.pc = "reading" /\ result = "closed"
    /\ RunReturns
    /\ ready' = rest
    /\ UNCHANGED <<latch, sig, kpc, w, c, sender, ops, ghosts>>

\* read_state throws: both cancels, unless the first one throws in turn and
\* leaves through the outer handlers.
ReadFails ==
    /\ Resuming("R") /\ run.pc = "reading" /\ result = "error"
    /\ CancelWriter(rest, IF c.hooks /\ c.latch = "waiting"
                          THEN <<Item("C", "error")>> ELSE <<>>)
    /\ IF w.cancel
       THEN /\ c' = IF c.hooks THEN [c EXCEPT !.latch = "error"] ELSE c
            /\ RunReturns
            /\ UNCHANGED sig
       ELSE /\ run' = [run EXCEPT !.pc = "threw", !.onClose = "null"]
            /\ frames' = FALSE
            /\ sig' = [sig EXCEPT !.err = TRUE]
            /\ UNCHANGED c
    /\ UNCHANGED <<inline, latch, kpc, ops, closeCalled>>

\* W and C resume only while R's frame exists.
Orphaned ==
    /\ Resuming("W") \/ Resuming("C")
    /\ Ended
    /\ dangling' = TRUE
    /\ ready' = rest
    /\ UNCHANGED <<run, latch, sig, kpc, w, c, sender, frames, ops,
                   inline, closeCalled>>

WriterResumes ==
    /\ Resuming("W") /\ ~Ended
    /\ UNCHANGED <<run, latch, sig, kpc, c, frames, ghosts>>

WriterStart ==
    /\ WriterResumes /\ w.pc = "spawned"
    /\ w' = WriterStarted
    /\ sender' = TRUE
    /\ ready' = rest
    /\ UNCHANGED ops

\* A pop completed by cancel throws; one completed before finds my_error set.
\* on_cancel_ keeps what it refers to.
WriterStops ==
    /\ w' = [w EXCEPT !.pc = "done"]
    /\ sender' = FALSE
    /\ ready' = rest
    /\ UNCHANGED ops

\* Mutant of WriterPopped: my_error is not looked at after the pop.
WriterPoppedOn ==
    /\ WriterResumes /\ w.pc = "popping"
    /\ \/ result = "error" /\ WriterStops
       \/ /\ result = "ok"
          /\ w' = [w EXCEPT !.pc = "writing", !.cancel = FALSE]
          /\ ops' = ops \cup {"write"}
          /\ ready' = rest
          /\ UNCHANGED sender

WriterPopped ==
    /\ WriterResumes /\ w.pc = "popping"
    /\ \/ (result = "error" \/ w.err) /\ WriterStops
       \/ /\ result = "ok" /\ ~w.err
          /\ w' = [w EXCEPT !.pc = "writing", !.cancel = FALSE]
          /\ ops' = ops \cup {"write"}
          /\ ready' = rest
          /\ UNCHANGED sender

\* The next pop: deferred at once if the queue holds a frame, else stored.
WriterWrote ==
    /\ WriterResumes /\ w.pc = "writing"
    /\ \/ (result = "error" \/ w.err) /\ WriterStops
       \/ /\ result = "ok" /\ ~w.err
          /\ w' = [w EXCEPT !.pc = "popping", !.cancel = TRUE, !.popper = ~w.queued]
          /\ ready' = IF w.queued THEN Append(rest, Item("W", "ok")) ELSE rest
          /\ UNCHANGED <<sender, ops>>

CloserResumes ==
    /\ Resuming("C") /\ ~Ended
    /\ ready' = rest
    /\ UNCHANGED <<run, latch, sig, kpc, w, sender, frames, ghosts>>

CloserStart ==
    /\ CloserResumes /\ c.pc = "spawned"
    /\ c' = CloserStarted
    /\ UNCHANGED ops

CloserReleased ==
    /\ CloserResumes /\ c.pc = "waiting"
    /\ \/ /\ result = "ok"
          /\ c' = [c EXCEPT !.pc = "closing", !.hooks = FALSE]
          /\ ops' = ops \cup {"close"}
       \/ /\ result = "error"
          /\ c' = [c EXCEPT !.pc = "done", !.hooks = FALSE]
          /\ UNCHANGED ops

CloserDone ==
    /\ CloserResumes /\ c.pc = "closing"
    /\ c' = [c EXCEPT !.pc = "done"]
    /\ UNCHANGED ops

ConnectReturns ==
    /\ Resuming("K")
    /\ kpc' = IF result = "ok" THEN "ok" ELSE "failed"
    /\ ready' = rest
    /\ UNCHANGED <<run, latch, sig, w, c, sender, frames, ops, ghosts>>

Task ==
    \/ Requested \/ Connected
    \/ ReadFrame \/ ReadClosed \/ ReadFails
    \/ Orphaned
    \/ WriterStart \/ WriterPopped \/ WriterWrote
    \/ CloserStart \/ CloserReleased \/ CloserDone
    \/ ConnectReturns

Next ==
    \/ RunStart
    \/ ConnectCall
    \/ Close
    \/ SendText
    \/ ConnectDone
    \/ WriteDone
    \/ CloseDone
    \/ ReadDone
    \/ Task

\* The executor runs what is ready.  The network completes a cancelled connect,
\* and a peer that was sent a close frame answers it, even between frames.
Fairness ==
    /\ WF_vars(Task)
    /\ WF_vars(run.closeReq /\ ConnectDone)
    /\ SF_vars(PeerCloses)

Spec == Init /\ [][Next]_vars /\ Fairness

-----------------------------------------------------------------------------
(* Properties.                                                             *)

RunStates == [pc : {"idle", "await_connect", "connecting", "reading", "returned", "threw"},
              closeReq : BOOLEAN,
              onClose : {"null", "latch", "connect", "action"}]
Latched   == {"not_waiting", "waiting", "complete", "error"}
WriterStates == [pc : {"none", "spawned", "popping", "writing", "done"},
                 cancel : BOOLEAN, popper : BOOLEAN, err : BOOLEAN, queued : BOOLEAN]
CloserStates == [pc : {"none", "spawned", "waiting", "closing", "done"},
                 hooks : BOOLEAN, latch : Latched, set : BOOLEAN]

\* Every variable has its type.
TypeOK ==
    /\ run \in RunStates
    /\ latch \in [state : Latched, set : BOOLEAN]
    /\ sig \in [set : BOOLEAN, err : BOOLEAN, handler : BOOLEAN]
    /\ kpc \in {"idle", "waiting", "ok", "failed"}
    /\ w \in WriterStates
    /\ c \in CloserStates
    /\ ops \subseteq {"connect", "read", "write", "close"}
    /\ ready \in Seq(Resume)
    /\ {inline, sender, frames, closeCalled, dangling} \subseteq BOOLEAN

\* A suspended coroutine has exactly one thing that will resume it: its handler
\* stored, its operation under way, or its place in the ready queue.  Two would
\* resume it twice; none would leave it for ever.
Wakeups(who, stored) ==
    {i \in 1..Len(ready) : ready[i].who = who} \cup (IF stored THEN {0} ELSE {})

OneWakeup ==
    ~dangling =>
        /\ Cardinality(Wakeups("R", \/ run.pc = "await_connect" /\ latch.state = "waiting"
                                    \/ "connect" \in ops \/ "read" \in ops))
             = (IF Active THEN 1 ELSE 0)
        /\ Cardinality(Wakeups("W", w.popper \/ "write" \in ops))
             = (IF w.pc \in {"spawned", "popping", "writing"} THEN 1 ELSE 0)
        /\ Cardinality(Wakeups("C", \/ c.pc = "waiting" /\ c.latch = "waiting"
                                    \/ "close" \in ops))
             = (IF c.pc \in {"spawned", "waiting", "closing"} THEN 1 ELSE 0)
        /\ Cardinality(Wakeups("K", sig.handler)) = (IF kpc = "waiting" THEN 1 ELSE 0)

\* When connect() returns to its caller without an error, W and C have reached
\* their first suspension: what the client sends or closes next is not lost
\* (websocket_state_impl.hpp:274-276).
ConnectedMeansForked ==
    kpc = "ok" => w.pc \notin {"none", "spawned"} /\ c.pc \notin {"none", "spawned"}

\* connect() and the run agree: connect() succeeds only over a connection that
\* came up, and fails only if the run has ended without one.  A run that ends, on
\* whatever way out, leaves no client waiting and no frame handlers, which own
\* objects of the caller's (websocket_state_impl.hpp:40-49).
ConnectAgreesWithRun ==
    /\ kpc = "ok" => sig.set
    /\ kpc = "failed" => Ended /\ w.pc = "none"
    /\ Ended => ~sig.handler /\ (sig.set \/ sig.err)
    /\ frames <=> Active

\* While on_send_text_ is set it refers to the queue of a W that still pops:
\* every way out of W, and its cancellation, takes it down.
SenderHasWriter == sender => w.pc \in {"popping", "writing"} /\ ~w.err

\* A cancelled W stops, whatever was posted to it before the cancel.
CancelledWriterStops == w.err ~> (w.pc = "done" \/ dangling)

\* connected_signal_ in the run and in connect() behaves as the latch that
\* AsyncEvent is shown to implement: a client that waits gets its result in the
\* step that brings the connection up or ends the run.
ConnectResults ==
    {[wait |-> 1, ec |-> ready[i].ec] : i \in {j \in 1..Len(ready) : ready[j].who = "K"}}
      \cup (IF kpc = "ok" THEN {[wait |-> 1, ec |-> "ok"]} ELSE {})
      \cup (IF kpc = "failed" THEN {[wait |-> 1, ec |-> "error"]} ELSE {})

Signal == INSTANCE Latch WITH
    Waits   <- {1},
    Codes   <- {"error"},
    fired   <- sig.set,
    failed  <- IF sig.err THEN "error" ELSE "none",
    pending <- IF sig.handler THEN {1} ELSE {},
    results <- ConnectResults

SignalSpec == Signal!Spec

\* Successful closing "is indicated by the return of the operator() coroutine"
\* (websocket_state_impl.hpp:56-58): a run that is asked to close ends, whatever the
\* connect request, the network and the ready queue interleave.  close() is dropped in
\* one window only, between the fork and the first step of the close state, which is
\* open where co_spawn posts that step (:259): at any other time it is heard.
CloseEndsRun == closeCalled ~> (Ended \/ dangling)

\* The rendezvous of R, W and C (comments at :239-242 and :309): when the run
\* returns from a connection, both forks are done.
JoinBeforeReturn ==
    run.pc = "returned" /\ sig.set => w.pc = "done" /\ c.pc = "done"

\* "if we get a read error, we must ensure that the write and close states are
\* properly canceled" (comment at :302-304).
ReadErrorCancelsBoth ==
    [][ReadFails => (w'.err \/ w'.pc = "done") /\ c'.latch # "waiting"]_vars
=============================================================================
