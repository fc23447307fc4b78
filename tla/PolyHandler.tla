---------------------------- MODULE PolyHandler ----------------------------
(***************************************************************************)
(* poly_handler: a slot for one completion handler of any type, kept in    *)
(* the slot itself if it is small and on the heap if it is big.  One       *)
(* thread uses the slots.  A handler may be assigned to a slot, moved to   *)
(* another, invoked, posted to its executor or dropped; while it runs, its *)
(* body may do any of these, with the slot it was invoked from as well.    *)
(*                                                                         *)
(* A handler is named by the number of its assignment.  Moving a C++       *)
(* object makes another one and leaves the first to be destroyed: live     *)
(* counts a handler's objects that were constructed and not destroyed.     *)
(*                                                                         *)
(* Callers move a slot only if it holds a handler, and never to itself:    *)
(* the move assignment uses kind_ without a test.                          *)
(*                                                                         *)
(* emplace_with_guards wraps the handler together with work guards for its *)
(* own executor and a default one.  Moving the wrapper moves its guards    *)
(* and leaves null ones behind (WorkGuard), so what counts is where the    *)
(* handler is.  Guards that belong to no handler share the contexts.       *)
(***************************************************************************)
EXTENDS Integers, Sequences, SequencesExt, FiniteSets

CONSTANTS
    Slots,          \* the poly_handlers of the program
    MaxHandlers,    \* bound on assignments
    Sizes,          \* small and big handlers, or only one of the two
    Contexts,       \* the io_contexts handlers are associated with
    Default,        \* that of the default executor
    FreeGuards      \* work guards that belong to no handler

ASSUME HandlerConstants ==
    /\ MaxHandlers \in Nat
    /\ Sizes \subseteq {"small", "big"}
    /\ Default \in Contexts
    /\ IsFiniteSet(FreeGuards)

VARIABLES
    held,       \* per slot: the handler, 0 when kind_ is null
    kind,       \* per handler: size, executor and contexts it holds guards for
    posted,     \* handlers moved into a completion on an executor's queue
    running,    \* handlers being invoked, the innermost last
    calls,      \* per handler: how often it was invoked
    live,       \* per handler: its objects not yet destroyed
    made,       \* assignments so far
    task,       \* the context whose completion is being run, as a set
    exists, context_,   \* the free guards
    io                  \* outstanding work of the contexts

slotVars == <<held, kind, posted, running, calls, live, made, task>>
vars == <<slotVars, exists, context_, io>>

Handlers == 1..MaxHandlers
Minus(f, h) == IF h = 0 THEN f ELSE [f EXCEPT ![h] = @ - 1]

\* The places a handler is in: slots, completions and calls.
Places(h) ==
    ({"slot"} \X {s \in Slots : held[s] = h})
      \cup ({"posted"} \X {i \in 1..Len(posted) : posted[i] = h})
      \cup ({"running"} \X {i \in 1..Len(running) : running[i] = h})

\* The work of a context apart from the free guards: the guards of handlers that
\* are somewhere, and completions that are queued or being run.
Tasks == [c \in Contexts |->
    Cardinality({h \in Handlers : Places(h) # {} /\ c \in kind[h].guards})
      + Cardinality({i \in 1..Len(posted) : kind[posted[i]].exec = c})
      + Cardinality(task \cap {c})]

Work == INSTANCE WorkGuard WITH Guards <- FreeGuards, tasks <- Tasks

Guarded(h) == IF h = 0 THEN {} ELSE kind[h].guards

Init ==
    /\ held = [s \in Slots |-> 0]
    /\ kind = [h \in Handlers |-> [size |-> "none", exec |-> Default, guards |-> {}]]
    /\ posted = <<>>
    /\ running = <<>>
    /\ calls = [h \in Handlers |-> 0]
    /\ live = [h \in Handlers |-> 0]
    /\ made = 0
    /\ task = {}
    /\ Work!GuardInit

-----------------------------------------------------------------------------
\* Mutant of assign: what the slot held is overwritten, not destroyed.
assignOver(s, k) ==
    /\ made < MaxHandlers
    /\ made' = made + 1
    /\ held' = [held EXCEPT ![s] = made']
    /\ kind' = [kind EXCEPT ![made'] = k]
    /\ live' = [live EXCEPT ![made'] = 1]
    /\ io' = Work!finish(Work!add(io, k.guards), Guarded(held[s]))
    /\ UNCHANGED <<posted, running, calls, task, exists, context_>>

\* operator=(Actual): destroy(), then construct() with the kind its size gives.  A
\* wrapper comes with its guards, which exist before those of the old handler go.
assign(s, k) ==
    /\ made < MaxHandlers
    /\ made' = made + 1
    /\ held' = [held EXCEPT ![s] = made']
    /\ kind' = [kind EXCEPT ![made'] = k]
    /\ live' = [Minus(live, held[s]) EXCEPT ![made'] = 1]
    /\ io' = Work!finish(Work!add(io, k.guards), Guarded(held[s]))
    /\ UNCHANGED <<posted, running, calls, task, exists, context_>>

\* A handler without guards.
Plain(s) ==
    \E z \in Sizes : assign(s, [size |-> z, exec |-> Default, guards |-> {}])

\* A handler with an executor of its own, or else bound to the default one.  The
\* contexts of both are running.
emplace_with_guards(s, e) ==
    /\ {e, Default} \cap io.stopped = {}
    /\ \E z \in Sizes : assign(s, [size |-> z, exec |-> e, guards |-> {e, Default}])

\* Mutant of move: the source keeps its kind_.
moveCopies(s, t) ==
    /\ s # t /\ held[s] # 0
    /\ held' = [held EXCEPT ![t] = held[s]]
    /\ live' = Minus(live, held[t])
    /\ io' = Work!finish(io, Guarded(held[t]))
    /\ UNCHANGED <<kind, posted, running, calls, made, task, exists, context_>>

\* Move assignment: the target's handler is destroyed.  A small handler is moved
\* and the one left behind destroyed; of a big one only the pointer is moved.
move(s, t) ==
    /\ s # t /\ held[s] # 0
    /\ held' = [held EXCEPT ![t] = held[s], ![s] = 0]
    /\ live' = Minus(live, held[t])
    /\ io' = Work!finish(io, Guarded(held[t]))
    /\ UNCHANGED <<kind, posted, running, calls, made, task, exists, context_>>

\* The destructor.
destroy(s) ==
    /\ held[s] # 0
    /\ held' = [held EXCEPT ![s] = 0]
    /\ live' = Minus(live, held[s])
    /\ io' = Work!finish(io, Guarded(held[s]))
    /\ UNCHANGED <<kind, posted, running, calls, made, task, exists, context_>>

\* What invoke() of the big vtable leaves of a handler moved to its local: the
\* object on the heap, whose memory is given back and its destructor not called.
Remains(h) == IF kind[h].size = "big" THEN 1 ELSE 0

\* invoke() up to the call of the handler, which has been moved to a local: that of
\* the small vtable destroys the one in the slot.
Begin(h) ==
    /\ running' = Append(running, h)
    /\ calls' = [calls EXCEPT ![h] = @ + 1]
    /\ live' = [live EXCEPT ![h] = @ + Remains(h)]

\* Mutant of invoke: kind_ is cleared only when the handler has returned.
invokeLate(s) ==
    /\ held[s] # 0
    /\ Begin(held[s])
    /\ UNCHANGED <<held, kind, posted, made, task, exists, context_, io>>

\* operator(): an empty slot throws and changes nothing.
invoke(s) ==
    /\ held[s] # 0
    /\ held' = [held EXCEPT ![s] = 0]
    /\ Begin(held[s])
    /\ UNCHANGED <<kind, posted, made, task, exists, context_, io>>

\* Mutant of Return: the guards stay with what is left of a big handler.
ReturnLeaks ==
    /\ running # <<>>
    /\ LET h == running[Len(running)]
           last == IF Len(running) = 1 THEN task ELSE {}
       IN /\ live' = Minus(live, h)
          /\ io' = Work!finish(IF kind[h].size = "big" THEN io
                               ELSE Work!finish(io, Guarded(h)), last)
          /\ task' = task \ last
    /\ running' = SubSeq(running, 1, Len(running) - 1)
    /\ UNCHANGED <<held, kind, posted, calls, made, exists, context_>>

\* The handler returns and the local is destroyed with its guards; then, in a
\* completion, the context has done its task.
Return ==
    /\ running # <<>>
    /\ LET h == running[Len(running)]
           last == IF Len(running) = 1 THEN task ELSE {}
       IN /\ live' = Minus(live, h)
          /\ io' = Work!finish(Work!finish(io, Guarded(h)), last)
          /\ task' = task \ last
    /\ running' = SubSeq(running, 1, Len(running) - 1)
    /\ UNCHANGED <<held, kind, posted, calls, made, exists, context_>>

\* The handler is moved into a completion, a task of its executor's.
post_completion(s) ==
    /\ held[s] # 0
    /\ held' = [held EXCEPT ![s] = 0]
    /\ posted' = Append(posted, held[s])
    /\ io' = Work!add(io, {kind[held[s]].exec})
    /\ UNCHANGED <<kind, running, calls, live, made, task, exists, context_>>

\* A context that has not stopped runs the first of its completions when the thread
\* is back in its loop.
RunPosted(i) ==
    /\ running = <<>>
    /\ LET e == kind[posted[i]].exec
       IN /\ e \notin io.stopped
          /\ \A j \in 1..(i - 1) : kind[posted[j]].exec # e
          /\ task' = {e}
    /\ posted' = RemoveAt(posted, i)
    /\ Begin(posted[i])
    /\ UNCHANGED <<held, kind, made, exists, context_, io>>

\* Guards of other parts of the program.
FreeGuard == UNCHANGED slotVars /\ Work!GuardOperation

Next ==
    \/ \E s \in Slots : Plain(s)
    \/ \E s \in Slots, e \in Contexts : emplace_with_guards(s, e)
    \/ \E s, t \in Slots : move(s, t)
    \/ \E s \in Slots : destroy(s) \/ invoke(s) \/ post_completion(s)
    \/ Return
    \/ \E i \in 1..Len(posted) : RunPosted(i)
    \/ FreeGuard

Spec == Init /\ [][Next]_vars

-----------------------------------------------------------------------------
(* Properties.                                                             *)

\* Every variable has its type.
TypeOK ==
    /\ held \in [Slots -> 0..MaxHandlers]
    /\ kind \in [Handlers -> [size : {"none", "small", "big"}, exec : Contexts,
                             guards : SUBSET Contexts]]
    /\ posted \in Seq(Handlers)
    /\ running \in Seq(Handlers)
    /\ calls \in [Handlers -> 0..1]
    /\ live \in [Handlers -> 0..2]
    /\ made \in 0..MaxHandlers
    /\ task \subseteq Contexts

\* A handler is in one place at most, and has been called only if it runs or is
\* gone: whatever the body of a running handler does to the slot it came from, no
\* handler is called twice.
OnePlace ==
    \A h \in Handlers :
        /\ \A p, q \in Places(h) : p = q
        /\ \A s \in Slots : held[s] = h => calls[h] = 0
        /\ \A i \in 1..Len(posted) : posted[i] = h => calls[h] = 0

\* A handler has one object while it is somewhere and none when it is gone, so what
\* it owns is released exactly once, also across moves, posts and calls that reuse
\* its slot.  The exception is exact: a big handler that has been called leaves one
\* object that nothing destroys, and no other handler ever does.
ObjectsBalanced ==
    \A h \in Handlers :
        live[h] = (IF Places(h) = {} THEN 0 ELSE 1)
                    + (IF kind[h].size = "big" /\ calls[h] = 1 THEN 1 ELSE 0)

\* The work the contexts count is the guards of handlers that are stored, posted or
\* running, their queued completions and the free guards: none is left with the
\* remains of an invoked handler, and none lost in a move or an assignment.
CountExact == Work!CountExact

\* While a handler with guards is anywhere, the contexts of its executor and of the
\* default one have not stopped: what will complete it can be posted, and it can run.
GuardsKeepRunning ==
    /\ Work!GuardedRuns
    /\ \A h \in Handlers : Places(h) # {} => kind[h].guards \cap io.stopped = {}
=============================================================================
