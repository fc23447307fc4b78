-------------------------- MODULE AsyncEventProofs --------------------------
(***************************************************************************)
(* Safety of AsyncEvent for every set of error codes and every number of   *)
(* waits: each wait is in one place and gets one result, a stored wait is  *)
(* one no set or cancel has reached, and the event implements the latch.   *)
(***************************************************************************)
EXTENDS AsyncEvent, TLAPS

\* A stored wait is one that neither set_event nor cancel has reached: what
\* set_event asserts of error_ when it finds a handler, and no missed wake-up.
StoredMeansUntouched == handler_ # 0 => ~event_set_ /\ error_ = "none"

IInv == TypeOK /\ WaitAccounted /\ StoredMeansUntouched

\* A wait that is refused or answered at once is accounted for: its result is
\* the only one it has.
LEMMA PostStep ==
    ASSUME IInv, waits' = waits + 1, waits' \in Waits,
           NEW code \in Codes \cup {"ok", "not_supported"},
           posted' = posted \cup {Result(waits', code)},
           UNCHANGED <<handler_, done>>
    PROVE  posted' \subseteq Results /\ WaitAccounted'
<1> USE EventConstants DEF IInv, TypeOK, Waits
<1> DEFINE new == Result(waits', code)
<1>1. new \in Results /\ new.wait = waits' /\ posted' \subseteq Results
  BY DEF Result, Results
<1>2. \A r \in posted \cup done : r.wait <= waits /\ r.wait \in Nat
  BY DEF WaitAccounted, Results
<1>3. new \notin posted \cup done /\ handler_ # waits'
  BY <1>1, <1>2 DEF WaitAccounted
<1>4. posted' \cup done' = (posted \cup done) \cup {new} /\ posted' \cap done' = {}
  BY <1>3 DEF WaitAccounted
<1>5. handler_' <= waits' /\ \A r \in posted' \cup done' : r.wait <= waits'
  BY <1>1, <1>2, <1>4 DEF WaitAccounted
<1>6. ASSUME NEW w \in 1..waits'
      PROVE  \/ w = handler_' /\ \A r \in posted' \cup done' : r.wait # w
             \/ /\ w # handler_'
                /\ \E r \in posted' \cup done' :
                     /\ r.wait = w
                     /\ \A q \in posted' \cup done' : q.wait = w => q = r
  <2>1. CASE w = waits'
    BY <1>1, <1>2, <1>3, <1>4, <2>1
  <2>2. CASE w # waits'
    <3>1. w \in 1..waits
      BY <2>2
    <3>2. new.wait # w
      BY <1>1, <2>2
    <3> QED BY <1>4, <3>1, <3>2 DEF WaitAccounted
  <2> QED BY <2>1, <2>2
<1> QED BY <1>1, <1>4, <1>5, <1>6 DEF WaitAccounted

\* The stored wait, if there is one, gets its only result when it is released.
LEMMA ReleaseStep ==
    ASSUME IInv, NEW code \in Codes \cup {"ok"}, ReleaseWaiter(code),
           UNCHANGED <<done, waits>>
    PROVE  posted' \subseteq Results /\ WaitAccounted'
<1> USE EventConstants DEF IInv, TypeOK, Waits, ReleaseWaiter
<1>1. CASE handler_ = 0
  <2>1. posted' = posted /\ handler_' = handler_
    BY <1>1
  <2> QED BY <2>1 DEF WaitAccounted
<1>2. CASE handler_ # 0
  <2> DEFINE new == Result(handler_, code)
  <2>1. posted' = posted \cup {new} /\ handler_' = 0
    BY <1>2
  <2>2. handler_ \in 1..waits
    BY <1>2 DEF WaitAccounted
  <2>3. new \in Results /\ new.wait = handler_ /\ posted' \subseteq Results
    BY <1>2, <2>1 DEF Result, Results
  <2>4. \A r \in posted \cup done : r.wait # handler_
    BY <2>2 DEF WaitAccounted
  <2>5. posted' \cup done' = (posted \cup done) \cup {new} /\ posted' \cap done' = {}
    BY <2>1, <2>3, <2>4 DEF WaitAccounted
  <2>6. handler_' <= waits' /\ \A r \in posted' \cup done' : r.wait <= waits'
    BY <2>1, <2>2, <2>3, <2>5 DEF WaitAccounted
  <2>7. ASSUME NEW w \in 1..waits'
        PROVE  /\ w # handler_'
               /\ \E r \in posted' \cup done' :
                    /\ r.wait = w
                    /\ \A q \in posted' \cup done' : q.wait = w => q = r
    <3>1. CASE w = handler_
      BY <2>1, <2>3, <2>4, <2>5, <3>1
    <3>2. CASE w # handler_
      BY <2>1, <2>3, <2>5, <3>2 DEF WaitAccounted
    <3> QED BY <3>1, <3>2
  <2> QED BY <2>3, <2>5, <2>6, <2>7 DEF WaitAccounted
<1> QED BY <1>1, <1>2

LEMMA InitInvariant == Init => IInv
<1> SUFFICES ASSUME Init PROVE IInv
  OBVIOUS
<1>1. TypeOK
  <2>1. event_set_ \in BOOLEAN
    BY Zenon DEF Init
  <2>2. waits \in 0..MaxWaits /\ handler_ \in 0..MaxWaits
    BY EventConstants DEF Init
  <2> QED BY <2>1, <2>2 DEF Init, TypeOK
<1>2. WaitAccounted
  BY DEF Init, WaitAccounted
<1>3. StoredMeansUntouched
  BY DEF Init, StoredMeansUntouched
<1> QED BY <1>1, <1>2, <1>3 DEF IInv

LEMMA StepInvariant == IInv /\ [Next]_vars => IInv'
<1> SUFFICES ASSUME IInv, [Next]_vars PROVE IInv'
  OBVIOUS
<1> USE EventConstants DEF IInv
<1>1. CASE async_wait
  <2>1. waits' = waits + 1 /\ waits' \in Waits
    BY <1>1 DEF async_wait, TypeOK, Waits
  <2>2. CASE StoreWait(waits + 1)
    <3>1. handler_ = 0 /\ handler_' = waits' /\ error_' = "none" /\ ~event_set_'
      BY <1>1, <2>1, <2>2 DEF async_wait, StoreWait
    <3>2. UNCHANGED <<posted, done, event_set_, error_>>
      BY <1>1, <2>2 DEF async_wait, StoreWait
    <3>3. TypeOK' /\ StoredMeansUntouched'
      BY <2>1, <3>1, <3>2 DEF TypeOK, StoredMeansUntouched, Waits
    <3>4. \A r \in posted \cup done : r.wait <= waits /\ r.wait \in Nat
      BY DEF WaitAccounted, TypeOK, Results, Waits
    <3>5. WaitAccounted'
      BY <2>1, <3>1, <3>2, <3>4 DEF WaitAccounted, TypeOK
    <3> QED BY <3>3, <3>5
  <2>3. CASE PostWait(waits + 1)
    <3>1. PICK code \in Codes \cup {"ok", "not_supported"} :
             posted' = posted \cup {Result(waits', code)}
      BY <2>1, <2>3 DEF PostWait, TypeOK
    <3>2. UNCHANGED <<handler_, done, event_set_, error_>>
      BY <1>1, <2>3 DEF async_wait, PostWait
    <3>3. posted' \subseteq Results /\ WaitAccounted'
      BY <2>1, <3>1, <3>2, PostStep
    <3> QED BY <2>1, <3>2, <3>3 DEF TypeOK, StoredMeansUntouched, Waits
  <2> QED BY <1>1, <2>2, <2>3 DEF async_wait
<1>2. ASSUME NEW ec \in Codes, cancel(ec) PROVE IInv'
  <2>1. posted' \subseteq Results /\ WaitAccounted'
    BY <1>2, ReleaseStep DEF cancel
  <2>2. TypeOK'
    BY <1>2, <2>1 DEF cancel, ReleaseWaiter, TypeOK
  <2> QED BY <1>2, <2>1, <2>2 DEF cancel, ReleaseWaiter, StoredMeansUntouched
<1>3. CASE set_event
  <2> DEFINE code == IF error_ = "none" THEN "ok" ELSE error_
  <2>1. code \in Codes \cup {"ok"} /\ ReleaseWaiter(code) /\ UNCHANGED <<done, waits>>
    BY <1>3 DEF set_event, TypeOK
  <2>2. posted' \subseteq Results /\ WaitAccounted'
    BY <2>1, ReleaseStep
  <2>3. TypeOK'
    BY <1>3, <2>2 DEF set_event, ReleaseWaiter, TypeOK
  <2> QED BY <1>3, <2>2, <2>3 DEF set_event, ReleaseWaiter, StoredMeansUntouched
<1>4. ASSUME NEW r \in posted, RunHandler(r) PROVE IInv'
  <2>1. posted' \cup done' = posted \cup done /\ posted' \cap done' = {}
    BY <1>4 DEF RunHandler, WaitAccounted
  <2>2. WaitAccounted'
    BY <1>4, <2>1 DEF RunHandler, WaitAccounted
  <2>3. TypeOK'
    BY <1>4 DEF RunHandler, TypeOK
  <2> QED BY <1>4, <2>2, <2>3 DEF RunHandler, StoredMeansUntouched
<1>5. CASE UNCHANGED vars
  BY <1>5 DEF vars, TypeOK, WaitAccounted, StoredMeansUntouched
<1> QED BY <1>1, <1>2, <1>3, <1>4, <1>5 DEF Next

LEMMA Invariant == Spec => []IInv
<1> QED BY InitInvariant, StepInvariant, PTL DEF Spec

\* The types.
THEOREM TypeCorrect == Spec => []TypeOK
<1>1. IInv => TypeOK
  BY DEF IInv
<1> QED BY <1>1, Invariant, PTL

\* However many waits, sets and cancels of however many threads: a wait is
\* stored, on its way or completed, and never has two results.
THEOREM OneResultPerWait == Spec => []WaitAccounted
<1>1. IInv => WaitAccounted
  BY DEF IInv
<1> QED BY <1>1, Invariant, PTL

\* No wait is stored in an event that was set or cancelled before.
THEOREM NoMissedWakeup == Spec => []StoredMeansUntouched
<1>1. IInv => StoredMeansUntouched
  BY DEF IInv
<1> QED BY <1>1, Invariant, PTL

\* async_wait consults error_ before event_set_, and set_event gives a stored
\* wait the error if there is one: after a cancel nothing succeeds.
THEOREM CancelBeatsSet == Spec => NoSuccessAfterCancel
<1> DEFINE A == error_ # "none" => \A r \in posted' \ posted : r.ec # "ok"
<1>1. IInv /\ [Next]_vars => [A]_vars
  <2> SUFFICES ASSUME IInv, Next, error_ # "none", NEW r \in posted' \ posted
               PROVE  r.ec # "ok"
    BY DEF vars
  <2> USE EventConstants DEF IInv, Result
  <2>0. error_ \in Codes /\ error_ # "ok" /\ handler_ = 0
    BY DEF TypeOK, StoredMeansUntouched
  <2>1. CASE async_wait
    BY <2>0, <2>1 DEF async_wait, StoreWait, PostWait
  <2>2. CASE \E ec \in Codes : cancel(ec)
    BY <2>0, <2>2 DEF cancel, ReleaseWaiter
  <2>3. CASE set_event
    BY <2>0, <2>3 DEF set_event, ReleaseWaiter
  <2>4. CASE \E q \in posted : RunHandler(q)
    BY <2>4 DEF RunHandler
  <2> QED BY <2>1, <2>2, <2>3, <2>4 DEF Next
<1> QED BY <1>1, Invariant, PTL DEF Spec, NoSuccessAfterCancel

\* Every step of the event is a step of the latch or none: the wait pending when
\* the event is set or cancelled gets its result in that very step.
THEOREM ImplementsLatch == Spec => LatchSpec
<1>1. Init => L!Init
  <2> SUFFICES ASSUME Init PROVE L!Init
    OBVIOUS
  <2>1. event_set_ \in BOOLEAN
    BY Zenon DEF Init
  <2>2. error_ = "none" /\ {handler_} \ {0} = {} /\ posted \cup done = {}
    BY DEF Init
  <2> QED BY <2>1, <2>2 DEF L!Init, L!NoCode
<1>2. IInv /\ [Next]_vars => [L!Next]_<<event_set_, error_, {handler_} \ {0}, posted \cup done>>
  <2> SUFFICES ASSUME IInv, [Next]_vars
               PROVE  \/ L!Next
                      \/ UNCHANGED <<event_set_, error_, {handler_} \ {0}, posted \cup done>>
    OBVIOUS
  <2> USE EventConstants DEF IInv, Result, L!Result, L!Ok, L!NoCode, L!NotSupported
  <2>1. CASE async_wait
    <3> DEFINE w == waits + 1
    <3>1. w \in Waits
      BY <2>1 DEF async_wait, TypeOK, Waits
    <3>2. /\ handler_ # w
          /\ \A r \in posted \cup done : r.wait # w
      BY DEF WaitAccounted, TypeOK, Results, Waits
    <3>3. UNCHANGED <<event_set_, error_, done>>
      BY <2>1 DEF async_wait
    <3>4. CASE StoreWait(w)
      BY <3>1, <3>2, <3>3, <3>4 DEF StoreWait, L!Next, L!Wait, Waits
    <3>5. CASE PostWait(w)
      BY <3>1, <3>2, <3>3, <3>5 DEF PostWait, StoredMeansUntouched, L!Next, L!Wait
    <3> QED BY <2>1, <3>4, <3>5 DEF async_wait
  <2>2. ASSUME NEW ec \in Codes, cancel(ec) PROVE L!Next
    BY <2>2 DEF cancel, ReleaseWaiter, L!Next, L!Fail, L!Release
  <2>3. CASE set_event
    <3>1. CASE handler_ = 0
      BY <2>3, <3>1 DEF set_event, ReleaseWaiter, L!Next, L!Fire, L!Release
    <3>2. CASE handler_ # 0
      BY <2>3, <3>2 DEF set_event, ReleaseWaiter, StoredMeansUntouched,
                        L!Next, L!Fire, L!Release
    <3> QED BY <3>1, <3>2
  <2>4. CASE \E r \in posted : RunHandler(r)
    BY <2>4 DEF RunHandler
  <2>5. CASE UNCHANGED vars
    BY <2>5 DEF vars
  <2> QED BY <2>1, <2>2, <2>3, <2>4, <2>5 DEF Next
<1> QED BY <1>1, <1>2, Invariant, PTL DEF Spec, LatchSpec, L!Spec
=============================================================================
