----------------------------- MODULE WorkGuard ------------------------------
(***************************************************************************)
(* cheap_work_guard: an object that keeps an io_context from running out   *)
(* of work.  context_[g] is the set of the contexts g counts for: one, or  *)
(* none after a reset or a move, which the code calls null.  The context   *)
(* counts guards and queued tasks, and stops when the count comes down to  *)
(* zero, even for a moment.                                                *)
(*                                                                         *)
(* Guards are made for contexts that still run, and not used by two        *)
(* threads at a time; the count itself is atomic.                          *)
(***************************************************************************)
EXTENDS Integers, FiniteSets

CONSTANTS Guards, Contexts

VARIABLES
    exists,     \* guards constructed and not destroyed
    context_,   \* per guard: what it counts for
    tasks,      \* per context: other work, as a task on its queue
    io          \* the contexts: outstanding work, and which have stopped

guardVars == <<exists, context_, tasks, io>>

\* No guard has been constructed; the contexts are new and have not run yet.
GuardInit ==
    /\ exists = {}
    /\ context_ = [g \in Guards |-> {}]
    /\ tasks = [c \in Contexts |-> 0]
    /\ io = [work |-> [c \in Contexts |-> 0], stopped |-> {}]

\* add: on_work_started on each context of C; null has none.
add(s, C) ==
    [work    |-> [c \in Contexts |-> IF c \in C THEN s.work[c] + 1 ELSE s.work[c]],
     stopped |-> s.stopped]

\* destroy: on_work_finished; the one that takes the count to zero stops the context.
finish(s, C) ==
    [work    |-> [c \in Contexts |-> IF c \in C THEN s.work[c] - 1 ELSE s.work[c]],
     stopped |-> s.stopped \cup {c \in C : s.work[c] = 1}]

-----------------------------------------------------------------------------
(* Operations on guards.  Other work is no concern of theirs.              *)

construct(g, c) ==
    /\ g \notin exists /\ c \notin io.stopped
    /\ exists' = exists \cup {g}
    /\ context_' = [context_ EXCEPT ![g] = {c}]
    /\ io' = add(io, {c})

copyConstruct(g, o) ==
    /\ g \notin exists /\ o \in exists
    /\ exists' = exists \cup {g}
    /\ context_' = [context_ EXCEPT ![g] = context_[o]]
    /\ io' = add(io, context_[o])

moveConstruct(g, o) ==
    /\ g \notin exists /\ o \in exists
    /\ exists' = exists \cup {g}
    /\ context_' = [context_ EXCEPT ![g] = context_[o], ![o] = {}]
    /\ UNCHANGED io

\* Mutant of copyAssign: the old context is released first, even if it is the new one.
copyAssignNaive(g, o) ==
    /\ {g, o} \subseteq exists
    /\ context_' = [context_ EXCEPT ![g] = context_[o]]
    /\ io' = add(finish(io, context_[g]), context_[o])
    /\ UNCHANGED exists

\* Nothing happens between guards of one context, g = o included.
copyAssign(g, o) ==
    /\ {g, o} \subseteq exists
    /\ context_' = [context_ EXCEPT ![g] = context_[o]]
    /\ io' = IF context_[g] # context_[o]
             THEN finish(add(io, context_[o]), context_[g]) ELSE io
    /\ UNCHANGED exists

\* The source is emptied before the old context is looked at: a guard moved to
\* itself stays as it is.
moveAssign(g, o) ==
    /\ {g, o} \subseteq exists
    /\ LET emptied == [context_ EXCEPT ![o] = {}]
       IN /\ context_' = [emptied EXCEPT ![g] = context_[o]]
          /\ io' = finish(io, emptied[g])
    /\ UNCHANGED exists

reset(g) ==
    /\ g \in exists
    /\ context_' = [context_ EXCEPT ![g] = {}]
    /\ io' = finish(io, context_[g])
    /\ UNCHANGED exists

destruct(g) ==
    /\ g \in exists
    /\ exists' = exists \ {g}
    /\ context_' = [context_ EXCEPT ![g] = {}]
    /\ io' = finish(io, context_[g])

GuardOperation ==
    \/ \E g \in Guards, c \in Contexts : construct(g, c)
    \/ \E g, o \in Guards : copyConstruct(g, o)
    \/ \E g, o \in Guards : moveConstruct(g, o)
    \/ \E g, o \in Guards : copyAssign(g, o)
    \/ \E g, o \in Guards : moveAssign(g, o)
    \/ \E g \in Guards : reset(g)
    \/ \E g \in Guards : destruct(g)

\* The context queues a task, and runs one.
Task(c) ==
    /\ UNCHANGED <<exists, context_>>
    /\ \/ tasks' = [tasks EXCEPT ![c] = @ + 1] /\ io' = add(io, {c})
       \/ /\ tasks[c] > 0 /\ c \notin io.stopped
          /\ tasks' = [tasks EXCEPT ![c] = @ - 1]
          /\ io' = finish(io, {c})

GuardNext ==
    \/ GuardOperation /\ UNCHANGED tasks
    \/ \E c \in Contexts : Task(c)

GuardSpec == GuardInit /\ [][GuardNext]_guardVars

-----------------------------------------------------------------------------
(* Properties.                                                             *)

\* The work a context counts is its guards and its tasks, so that it neither stops
\* early nor waits for a guard that is gone.
CountExact ==
    \A c \in Contexts :
        io.work[c] = Cardinality({g \in Guards : c \in context_[g]}) + tasks[c]

\* A context with a guard has not stopped: no copy, move or assignment takes its
\* count through zero on the way.
GuardedRuns ==
    \A g \in Guards : context_[g] \cap io.stopped = {}
=============================================================================
