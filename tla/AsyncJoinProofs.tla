-------------------------- MODULE AsyncJoinProofs --------------------------
(***************************************************************************)
(* Safety of AsyncJoin for every set of events and of error codes and      *)
(* every number of waits and unsets: each wait is in one place and gets    *)
(* one result, no trigger is missed, the first cancel is final, and the    *)
(* join implements the latch.                                              *)
(***************************************************************************)
EXTENDS AsyncJoin, TLAPS

\* No missed trigger: a stored wait is one some event is still missing for, in
\* whatever order threads set, unset and wait.
NoMissedTrigger == state_ = "waiting" => ~triggered

\* Success means that all events are set from the moment it is decided on, but
\* for the two ways in which an event unset later can withdraw it.
OkJustified ==
    ~withdrawn =>
        /\ state_ = "complete" => triggered
        /\ \A r \in posted : r.ec = "ok" => triggered

IInv == TypeOK /\ WaitAccounted /\ NoMissedTrigger /\ CancelIsFinal /\ OkJustified

\* A wait that is refused or answered at once is accounted for: its result is
\* the only one it has.
LEMMA PostStep ==
    ASSUME TypeOK, WaitAccounted, waits' = waits + 1, waits' \in Waits,
           NEW code \in Codes \cup {"ok", "not_supported"},
           posted' = posted \cup {Result(waits', code)},
           UNCHANGED <<state_, handler_, done>>
    PROVE  posted' \subseteq Results /\ WaitAccounted'
<1> USE JoinConstants DEF TypeOK, Waits
<1> DEFINE new == Result(waits', code)
<1>1. new \in Results /\ new.wait = waits' /\ posted' \subseteq Results
  BY DEF Result, Results
<1>2. \A r \in posted \cup done : r.wait <= waits /\ r.wait \in Nat
  BY DEF WaitAccounted, Results
<1>3. new \notin posted \cup done /\ handler_ # waits'
  BY <1>1, <1>2 DEF WaitAccounted
<1>4. posted' \cup done' = (posted \cup done) \cup {new} /\ posted' \cap done' = {}
  BY <1>3 DEF WaitAccounted
<1>5. handler_' <= waits' /\ \A r \in posted' \cup done' : r.wait <= waits'
  BY <1>1, <1>2, <1>4 DEF WaitAccounted
<1>6. ASSUME NEW w \in 1..waits'
      PROVE  \/ w = handler_' /\ \A r \in posted' \cup done' : r.wait # w
             \/ /\ w # handler_'
                /\ \E r \in posted' \cup done' :
                     /\ r.wait = w
                     /\ \A q \in posted' \cup done' : q.wait = w => q = r
  <2>1. CASE w = waits'
    BY <1>1, <1>2, <1>3, <1>4, <2>1
  <2>2. CASE w # waits'
    <3>1. w \in 1..waits
      BY <2>2
    <3>2. new.wait # w
      BY <1>1, <2>2
    <3> QED BY <1>4, <3>1, <3>2 DEF WaitAccounted
  <2> QED BY <2>1, <2>2
<1> QED BY <1>1, <1>4, <1>5, <1>6 DEF WaitAccounted

\* The stored wait gets its only result when it is released.
LEMMA ReleaseStep ==
    ASSUME TypeOK, WaitAccounted, state_ = "waiting", state_' # "waiting",
           NEW code \in Codes \cup {"ok"}, ReleaseWaiter(code),
           UNCHANGED <<done, waits>>
    PROVE  posted' \subseteq Results /\ WaitAccounted'
<1> USE JoinConstants DEF TypeOK, Waits, ReleaseWaiter
<1> DEFINE new == Result(handler_, code)
<1>1. posted' = posted \cup {new} /\ handler_' = 0
  OBVIOUS
<1>2. handler_ \in 1..waits
  BY DEF WaitAccounted
<1>3. new \in Results /\ new.wait = handler_ /\ posted' \subseteq Results
  BY <1>1, <1>2 DEF Result, Results
<1>4. \A r \in posted \cup done : r.wait # handler_
  BY <1>2 DEF WaitAccounted
<1>5. posted' \cup done' = (posted \cup done) \cup {new} /\ posted' \cap done' = {}
  BY <1>1, <1>3, <1>4 DEF WaitAccounted
<1>6. handler_' <= waits' /\ \A r \in posted' \cup done' : r.wait <= waits'
  BY <1>1, <1>2, <1>3, <1>5 DEF WaitAccounted
<1>7. ASSUME NEW w \in 1..waits'
      PROVE  /\ w # handler_'
             /\ \E r \in posted' \cup done' :
                  /\ r.wait = w
                  /\ \A q \in posted' \cup done' : q.wait = w => q = r
  <2>1. CASE w = handler_
    BY <1>1, <1>3, <1>4, <1>5, <2>1
  <2>2. CASE w # handler_
    BY <1>1, <1>3, <1>5, <2>2 DEF WaitAccounted
  <2> QED BY <2>1, <2>2
<1> QED BY <1>1, <1>5, <1>6, <1>7, <1>3 DEF WaitAccounted

LEMMA InitInvariant == Init => IInv
<1> SUFFICES ASSUME Init PROVE IInv
  OBVIOUS
<1> USE JoinConstants DEF Init
<1>1. TypeOK
  <2>1. withdrawn \in BOOLEAN
    OBVIOUS
  <2> QED BY <2>1 DEF TypeOK, States
<1>2. WaitAccounted
  BY DEF WaitAccounted
<1>3. NoMissedTrigger /\ CancelIsFinal /\ OkJustified
  BY DEF NoMissedTrigger, CancelIsFinal, OkJustified
<1> QED BY <1>1, <1>2, <1>3 DEF IInv

\* A new wait is stored if the join is idle and an event is missing, else it is
\* answered at once.
LEMMA WaitInvariant == ASSUME IInv, async_wait PROVE IInv'
<1> USE JoinConstants DEF IInv
<1>1. waits' = waits + 1 /\ waits' \in Waits /\ waits \in Nat /\ failedFrom \in Nat
  BY DEF async_wait, TypeOK, Waits
<1>2. UNCHANGED <<events_, error_, done, unsets, failedFrom, withdrawn, triggered>>
  BY DEF async_wait, triggered
<1>3. \A r \in posted \cup done : r.wait <= waits /\ r.wait \in Nat
  BY DEF WaitAccounted, TypeOK, Results, Waits
<1>4. CASE StoreWait(waits + 1)
  <2>1. /\ state_ = "not_waiting" /\ ~triggered
        /\ state_' = "waiting" /\ handler_' = waits' /\ posted' = posted
    BY <1>1, <1>4 DEF StoreWait
  <2>2. TypeOK'
    BY <1>1, <1>2, <2>1 DEF TypeOK, Waits, States
  <2>3. handler_ = 0
    BY <2>1 DEF WaitAccounted
  <2>4. WaitAccounted'
    BY <1>1, <1>2, <1>3, <2>1, <2>3 DEF WaitAccounted
  <2>5. NoMissedTrigger' /\ OkJustified'
    BY <1>2, <2>1 DEF NoMissedTrigger, OkJustified
  <2>6. CancelIsFinal'
    BY <1>2, <2>1 DEF CancelIsFinal
  <2> QED BY <2>2, <2>4, <2>5, <2>6
<1>5. CASE PostWait(waits + 1)
  <2>1. UNCHANGED <<state_, handler_>>
    BY <1>5 DEF PostWait
  <2>2. PICK code \in Codes \cup {"ok", "not_supported"} :
          /\ posted' = posted \cup {Result(waits', code)}
          /\ state_ = "error" => code = error_
          /\ code = "ok" => state_ = "complete" \/ triggered
    <3>1. CASE state_ = "waiting"
      BY <1>1, <1>5, <3>1 DEF PostWait
    <3>2. CASE state_ = "complete" \/ (state_ = "not_waiting" /\ triggered)
      BY <1>1, <1>5, <3>2 DEF PostWait
    <3>3. CASE state_ = "error"
      BY <1>1, <1>5, <3>3 DEF PostWait, CancelIsFinal, TypeOK
    <3> QED BY <1>5, <3>1, <3>2, <3>3 DEF PostWait
  <2>3. posted' \subseteq Results /\ WaitAccounted'
    BY <1>1, <1>2, <2>1, <2>2, PostStep
  <2>4. TypeOK'
    BY <1>1, <1>2, <2>1, <2>3 DEF TypeOK, Waits
  <2>5. NoMissedTrigger' /\ OkJustified'
    BY <1>2, <2>1, <2>2 DEF NoMissedTrigger, OkJustified, Result
  <2>6. CancelIsFinal'
    BY <1>1, <1>2, <2>1, <2>2 DEF CancelIsFinal, Result
  <2> QED BY <2>3, <2>4, <2>5, <2>6
<1> QED BY <1>4, <1>5 DEF async_wait

\* cancel fails the stored wait, which was started before it, and every later one.
LEMMA CancelInvariant == ASSUME IInv, NEW ec \in Codes, cancel(ec) PROVE IInv'
<1> USE JoinConstants DEF IInv
<1>1. /\ state_ # "error" /\ state_' = "error" /\ error_' = ec /\ ec # "none"
      /\ failedFrom' = waits + 1
      /\ UNCHANGED <<events_, done, waits, unsets, withdrawn, triggered>>
  BY DEF cancel, triggered
<1>2. posted' \subseteq Results /\ WaitAccounted' /\ handler_' \in 0..MaxWaits
  <2>1. CASE state_ = "waiting"
    BY <1>1, <2>1, ReleaseStep DEF cancel, ReleaseWaiter, TypeOK
  <2>2. CASE state_ # "waiting"
    BY <1>1, <2>2 DEF cancel, WaitAccounted, TypeOK
  <2> QED BY <2>1, <2>2
<1>3. TypeOK'
  BY <1>1, <1>2 DEF TypeOK, States
<1>4. \A r \in posted' \ posted : r.ec = ec
  BY DEF cancel, ReleaseWaiter, Result
<1>5. NoMissedTrigger' /\ OkJustified'
  BY <1>1, <1>4 DEF NoMissedTrigger, OkJustified
<1>6. \A r \in posted' \cup done' : r.wait \in Nat /\ r.wait <= waits
  BY <1>1, <1>2, <1>3 DEF WaitAccounted, TypeOK, Results, Waits
<1>7. CancelIsFinal'
  BY <1>1, <1>6 DEF CancelIsFinal, TypeOK
<1> QED BY <1>2, <1>3, <1>5, <1>7

\* The event that completes the set releases the stored wait.
LEMMA SetInvariant == ASSUME IInv, NEW e \in Events, set_event(e) PROVE IInv'
<1> USE JoinConstants DEF IInv
<1>1. /\ events_' = events_ \cup {e}
      /\ UNCHANGED <<error_, done, waits, unsets, failedFrom, withdrawn>>
  BY DEF set_event
<1>2. triggered => triggered'
  BY <1>1 DEF triggered
<1>3. CASE state_ = "waiting" /\ events_' = Events
  <2>1. state_' = "complete" /\ ReleaseWaiter("ok")
    BY <1>3 DEF set_event
  <2>2. posted' \subseteq Results /\ WaitAccounted'
    BY <1>1, <1>3, <2>1, ReleaseStep
  <2>3. TypeOK'
    BY <1>1, <2>1, <2>2 DEF TypeOK, States, ReleaseWaiter
  <2>4. NoMissedTrigger' /\ OkJustified'
    BY <1>1, <1>3, <2>1 DEF NoMissedTrigger, OkJustified, triggered
  <2>5. failedFrom' = 0 /\ error_' = "none"
    BY <1>1, <1>3 DEF CancelIsFinal, TypeOK
  <2>6. CancelIsFinal'
    BY <2>1, <2>5 DEF CancelIsFinal
  <2> QED BY <2>2, <2>3, <2>4, <2>6
<1>4. CASE ~(state_ = "waiting" /\ events_' = Events)
  <2>1. UNCHANGED <<state_, handler_, posted>>
    BY <1>4 DEF set_event
  <2>2. TypeOK'
    BY <1>1, <2>1 DEF TypeOK
  <2>3. WaitAccounted'
    BY <1>1, <2>1 DEF WaitAccounted
  <2>4. NoMissedTrigger' /\ OkJustified'
    BY <1>1, <1>2, <1>4, <2>1 DEF NoMissedTrigger, OkJustified, triggered
  <2>5. CancelIsFinal'
    BY <1>1, <2>1 DEF CancelIsFinal
  <2> QED BY <2>2, <2>3, <2>4, <2>5
<1> QED BY <1>3, <1>4

LEMMA UnsetInvariant == ASSUME IInv, NEW e \in Events, unset_event(e) PROVE IInv'
<1> USE JoinConstants DEF IInv
<1>1. /\ events_' = events_ \ {e} /\ ~triggered'
      /\ UNCHANGED <<state_, handler_, error_, posted, done, waits, failedFrom>>
  BY DEF unset_event, triggered
<1>2. unsets' \in 0..MaxUnsets
  BY DEF unset_event, TypeOK
<1>3. withdrawn' \in BOOLEAN
  BY Zenon DEF unset_event, TypeOK
<1>4. ~withdrawn' => state_ # "complete" /\ \A r \in posted : r.ec # "ok"
  BY Zenon DEF unset_event
<1>5. TypeOK'
  BY <1>1, <1>2, <1>3 DEF TypeOK
<1>6. WaitAccounted' /\ CancelIsFinal'
  BY <1>1 DEF WaitAccounted, CancelIsFinal
<1>7. NoMissedTrigger' /\ OkJustified'
  BY <1>1, <1>4 DEF NoMissedTrigger, OkJustified
<1> QED BY <1>5, <1>6, <1>7

LEMMA RunInvariant == ASSUME IInv, NEW r \in posted, RunHandler(r) PROVE IInv'
<1> USE DEF IInv
<1>1. /\ posted' \subseteq posted /\ done' = done \cup {r}
      /\ UNCHANGED <<state_, events_, handler_, error_, waits, unsets, failedFrom, withdrawn,
                   triggered>>
  BY DEF RunHandler, triggered
<1>2. posted' \cup done' = posted \cup done /\ posted' \cap done' = {}
  BY DEF RunHandler, WaitAccounted
<1>3. TypeOK'
  BY <1>1 DEF TypeOK
<1>4. WaitAccounted' /\ CancelIsFinal'
  BY <1>1, <1>2 DEF WaitAccounted, CancelIsFinal
<1>5. NoMissedTrigger' /\ OkJustified'
  BY <1>1 DEF NoMissedTrigger, OkJustified
<1> QED BY <1>3, <1>4, <1>5

LEMMA StepInvariant == IInv /\ [Next]_vars => IInv'
<1> SUFFICES ASSUME IInv, [Next]_vars PROVE IInv'
  OBVIOUS
<1>1. CASE UNCHANGED vars
  BY <1>1 DEF vars, IInv, TypeOK, WaitAccounted, NoMissedTrigger, CancelIsFinal,
              OkJustified, triggered
<1> QED BY <1>1, WaitInvariant, CancelInvariant, SetInvariant, UnsetInvariant,
           RunInvariant DEF Next

LEMMA Invariant == Spec => []IInv
<1> QED BY InitInvariant, StepInvariant, PTL DEF Spec

\* The types.
THEOREM TypeCorrect == Spec => []TypeOK
<1>1. IInv => TypeOK
  BY DEF IInv
<1> QED BY <1>1, Invariant, PTL

\* However many threads wait, set, unset and cancel: a handler is stored exactly
\* in state waiting, and no wait has two results.
THEOREM OneResultPerWait == Spec => []WaitAccounted
<1>1. IInv => WaitAccounted
  BY DEF IInv
<1> QED BY <1>1, Invariant, PTL

\* No wait stays stored once the last event is set.
THEOREM TriggerNotMissed == Spec => []NoMissedTrigger
<1>1. IInv => NoMissedTrigger
  BY DEF IInv
<1> QED BY <1>1, Invariant, PTL

\* Every wait started after the first cancel is given its code.
THEOREM FirstCancelWins == Spec => []CancelIsFinal
<1>1. IInv => CancelIsFinal
  BY DEF IInv
<1> QED BY <1>1, Invariant, PTL

\* A handler invoked without an error may call events(), unless an event was unset
\* while its success was on its way or after the join had completed.
THEOREM EventsReadable == Spec => OkMeansTriggered
<1> DEFINE A == \A r \in done' \ done : r.ec = "ok" /\ ~withdrawn => triggered
<1>1. IInv /\ [Next]_vars => [A]_vars
  <2> SUFFICES ASSUME IInv, Next, NEW r \in done' \ done, r.ec = "ok", ~withdrawn
               PROVE  triggered
    BY DEF vars
  <2>1. r \in posted
    BY DEF Next, async_wait, cancel, set_event, unset_event, RunHandler
  <2> QED BY <2>1 DEF IInv, OkJustified
<1> QED BY <1>1, Invariant, PTL DEF Spec, OkMeansTriggered

\* Every step of the join is a step of the latch or none: the pending wait gets
\* its result in the step that sets the last event or cancels the join.
THEOREM ImplementsLatch == Spec => LatchSpec
<1> DEFINE fired   == triggered \/ state_ = "complete"
           pending == {handler_} \ {0}
           results == posted \cup done
<1>1. Init => L!Init
  <2> SUFFICES ASSUME Init PROVE L!Init
    OBVIOUS
  <2>1. fired \in BOOLEAN
    BY DEF triggered
  <2>2. error_ = "none" /\ pending = {} /\ results = {}
    BY DEF Init
  <2> QED BY <2>1, <2>2 DEF L!Init, L!NoCode
<1>2. IInv /\ [Next]_vars => [L!Next]_<<fired, error_, pending, results>>
  <2> SUFFICES ASSUME IInv, [Next]_vars
               PROVE  L!Next \/ UNCHANGED <<fired, error_, pending, results>>
    OBVIOUS
  <2> USE JoinConstants DEF IInv, Result, L!Result, L!Ok, L!NoCode, L!NotSupported
  <2>1. CASE async_wait
    <3> DEFINE w == waits + 1
    <3>1. w \in Waits
      BY <2>1 DEF async_wait, TypeOK, Waits
    <3>2. handler_ # w /\ \A r \in posted \cup done : r.wait # w
      BY DEF WaitAccounted, TypeOK, Results, Waits
    <3>3. UNCHANGED <<events_, error_, done, triggered>>
      BY <2>1 DEF async_wait, triggered
    <3>4. CASE StoreWait(w)
      BY <3>1, <3>2, <3>3, <3>4
         DEF StoreWait, WaitAccounted, CancelIsFinal, L!Next, L!Wait, Waits
    <3>5. CASE PostWait(w)
      BY <3>1, <3>2, <3>3, <3>5
         DEF PostWait, WaitAccounted, CancelIsFinal, L!Next, L!Wait
    <3> QED BY <2>1, <3>4, <3>5 DEF async_wait
  <2>2. ASSUME NEW ec \in Codes, cancel(ec) PROVE L!Next
    <3>1. error_' = ec /\ UNCHANGED <<triggered, done>> /\ state_' = "error"
      BY <2>2 DEF cancel, triggered
    <3>2. fired' \in {fired, FALSE}
      BY <3>1
    <3>3. L!Release(ec)
      BY <2>2 DEF cancel, ReleaseWaiter, WaitAccounted, L!Release
    <3> QED BY <3>1, <3>2, <3>3 DEF L!Next, L!Fail
  <2>3. ASSUME NEW e \in Events, set_event(e)
        PROVE  L!Next \/ UNCHANGED <<fired, error_, pending, results>>
    <3>1. error_' = error_ /\ done' = done /\ (triggered => triggered')
      BY <2>3 DEF set_event, triggered
    <3>2. CASE state_ = "waiting" /\ events_' = Events
      <4>1. fired' = TRUE
        BY <2>3, <3>2 DEF set_event
      <4>2. L!Release("ok")
        BY <2>3, <3>2 DEF set_event, ReleaseWaiter, WaitAccounted, L!Release
      <4> QED BY <3>1, <4>1, <4>2 DEF L!Next, L!Fire
    <3>3. CASE ~(state_ = "waiting" /\ events_' = Events)
      <4>1. UNCHANGED <<state_, handler_, posted>>
        BY <2>3, <3>3 DEF set_event
      <4>2. CASE state_ # "waiting" /\ triggered'
        <5>1. pending = {} /\ L!Release("ok") /\ fired' = TRUE
          BY <3>1, <4>1, <4>2 DEF WaitAccounted, L!Release
        <5> QED BY <3>1, <5>1 DEF L!Next, L!Fire
      <4>3. CASE ~triggered'
        BY <3>1, <4>1, <4>3
      <4> QED BY <3>3, <4>2, <4>3 DEF triggered
    <3> QED BY <3>2, <3>3
  <2>4. ASSUME NEW e \in Events, unset_event(e)
        PROVE  L!Next \/ UNCHANGED <<fired, error_, pending, results>>
    <3>1. ~triggered' /\ UNCHANGED <<state_, handler_, error_, posted, done>>
      BY <2>4 DEF unset_event, triggered
    <3> QED BY <3>1 DEF L!Next, L!Reset
  <2>5. CASE \E r \in posted : RunHandler(r)
    BY <2>5 DEF RunHandler, triggered
  <2>6. CASE UNCHANGED vars
    BY <2>6 DEF vars, triggered
  <2> QED BY <2>1, <2>2, <2>3, <2>4, <2>5, <2>6 DEF Next
<1> QED BY <1>1, <1>2, Invariant, PTL DEF Spec, LatchSpec, L!Spec
=============================================================================
