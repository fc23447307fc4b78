------------------------- MODULE ConnectChainProofs -------------------------
(***************************************************************************)
(* Safety of ConnectChain for every number of layers: no hook outlives its *)
(* frame, no operation starts after a cancel, and a cancelled connect does *)
(* not succeed.  The codes recorded by the hooks carry the argument: once  *)
(* cancel() was called, every frame that exists has recorded one.          *)
(***************************************************************************)
EXTENDS ConnectChain, TLAPS

CancelRecorded == asked => \A i \in 1..at : my_error[i] # "none"

IInv == TypeOK /\ HooksOwned /\ NothingStartsAfterCancel /\ CancelRecorded

\* The end of a run, whatever ends it.
LEMMA UnwindStep ==
    ASSUME IInv, NEW result \in Codes \cup {"connected", "failed"}, Unwind(result)
    PROVE  IInv'
<1> USE ChainConstants DEF IInv, Unwind
<1>1. at' = 0 /\ on_cancel_' = NoHooks /\ my_error' = NoErrors
  OBVIOUS
<1>2. TypeOK'
  BY DEF TypeOK, NoHooks, NoErrors, Hooks, Layers
<1>3. HooksOwned'
  BY <1>1 DEF HooksOwned, NoHooks, Layers
<1>4. NothingStartsAfterCancel' /\ CancelRecorded'
  BY <1>1 DEF NothingStartsAfterCancel, CancelRecorded
<1> QED BY <1>2, <1>3, <1>4

\* Resuming with an operation that ended well, a cancel() has left its code.
LEMMA UncheckedIsUnasked ==
    ASSUME IInv, op = "ok", \A i \in Checked : my_error[i] = "none"
    PROVE  ~asked
BY DEF IInv, TypeOK, CancelRecorded, Checked

LEMMA ResumeInvariant == ASSUME IInv, Resume PROVE IInv'
<1> USE ChainConstants
<1>1. CASE OperationFails \/ ServerNameFails \/ Connected
  BY <1>1, UnwindStep DEF OperationFails, ServerNameFails, Connected
<1>2. CASE ErrorCheckThrows
  <2>1. PICK i \in Checked : my_error[i] # "none" /\ Unwind(my_error[i])
    BY <1>2 DEF ErrorCheckThrows
  <2>2. op = "ok"
    BY <1>2 DEF ErrorCheckThrows
  <2>3. i \in Layers
    BY <2>2 DEF Checked, IInv, TypeOK, Layers
  <2>4. my_error[i] \in Codes
    BY <2>1, <2>3 DEF IInv, TypeOK
  <2> QED BY <2>1, <2>4, UnwindStep
<1>3. CASE NextLayer
  <2> USE <1>3 DEF NextLayer
  <2>1. at \in 2..Depth /\ at' = at - 1
    BY DEF IInv, TypeOK
  <2>2. ~asked
    BY UncheckedIsUnasked
  <2>3. TypeOK'
    BY <2>1 DEF IInv, TypeOK, Hooks, Layers
  <2>4. HooksOwned'
    BY <2>1 DEF IInv, TypeOK, HooksOwned, Layers
  <2> QED BY <2>2, <2>3, <2>4 DEF IInv, NothingStartsAfterCancel, CancelRecorded
<1> QED BY <1>1, <1>2, <1>3 DEF Resume

\* cancel() gets through to every frame, and to the operation in progress.
LEMMA CancelInvariant == ASSUME IInv, NEW ec \in Codes, cancel(ec) PROVE IInv'
<1> USE ChainConstants DEF IInv, cancel
<1>1. Reached = 1..at
  BY DEF Reached, HooksOwned, TypeOK, Layers
<1>2. UNCHANGED <<at, on_cancel_, outcome, runs>>
  OBVIOUS
<1>3. my_error' \in [Layers -> Codes \cup {"none"}]
      /\ \A i \in 1..at : my_error'[i] = ec
  BY <1>1 DEF TypeOK, Layers
<1>4. at # 0 => op' # "pending"
  BY <1>1 DEF TypeOK, HooksOwned, Layers
<1>5. at = 0 => op' = op
  BY DEF TypeOK
<1>6. op' = op \/ op' = "cancelled"
  OBVIOUS
<1>7. asked' \in BOOLEAN
  BY Zenon DEF TypeOK
<1>8. TypeOK'
  BY <1>2, <1>3, <1>5, <1>6, <1>7 DEF TypeOK
<1>9. HooksOwned'
  BY <1>2 DEF HooksOwned
<1>10. NothingStartsAfterCancel' /\ CancelRecorded'
  BY <1>2, <1>3, <1>4 DEF NothingStartsAfterCancel, CancelRecorded
<1> QED BY <1>8, <1>9, <1>10

LEMMA InitInvariant == Init => IInv
<1> SUFFICES ASSUME Init PROVE IInv
  OBVIOUS
<1> USE ChainConstants DEF Init
<1>1. TypeOK
  <2>1. asked \in BOOLEAN
    BY Zenon
  <2>2. at \in 0..Depth /\ runs \in 0..MaxRuns
    OBVIOUS
  <2> QED BY <2>1, <2>2 DEF TypeOK, NoHooks, NoErrors, Hooks, Layers
<1>2. HooksOwned
  BY DEF HooksOwned, NoHooks, Layers
<1> QED BY <1>1, <1>2 DEF IInv, NothingStartsAfterCancel, CancelRecorded

LEMMA StepInvariant == IInv /\ [Next]_vars => IInv'
<1> SUFFICES ASSUME IInv, [Next]_vars PROVE IInv'
  OBVIOUS
<1> USE ChainConstants
<1>1. CASE Start
  <2>1. TypeOK'
    <3>1. asked' \in BOOLEAN
      BY <1>1, Zenon DEF Start
    <3>2. at' \in 0..Depth /\ at' # 0 /\ runs' \in 0..MaxRuns
      BY <1>1 DEF Start, IInv, TypeOK
    <3>3. on_cancel_' \in [Layers -> Hooks] /\ my_error' \in [Layers -> Codes \cup {"none"}]
      BY <1>1 DEF Start, NoErrors, Hooks
    <3> QED BY <1>1, <3>1, <3>2, <3>3 DEF Start, TypeOK
  <2>2. HooksOwned'
    BY <1>1 DEF Start, HooksOwned, Layers
  <2> QED BY <1>1, <2>1, <2>2 DEF Start, IInv, NothingStartsAfterCancel, CancelRecorded
<1>2. CASE OperationEnds
  <2>1. TypeOK'
    BY <1>2 DEF OperationEnds, IInv, TypeOK
  <2> QED BY <1>2, <2>1 DEF OperationEnds, IInv, HooksOwned,
                            NothingStartsAfterCancel, CancelRecorded
<1>3. CASE UNCHANGED vars
  BY <1>3 DEF vars, IInv, TypeOK, HooksOwned, NothingStartsAfterCancel, CancelRecorded
<1> QED BY <1>1, <1>2, <1>3, ResumeInvariant, CancelInvariant DEF Next

LEMMA Invariant == Spec => []IInv
<1> QED BY InitInvariant, StepInvariant, PTL DEF Spec

\* The types.
THEOREM TypeCorrect == Spec => []TypeOK
<1>1. IInv => TypeOK
  BY DEF IInv
<1> QED BY <1>1, Invariant, PTL

\* on_cancel_ of every layer is set exactly while its frame exists, for the stage
\* the frame is in.
THEOREM HooksMatchFrames == Spec => []HooksOwned
<1>1. IInv => HooksOwned
  BY DEF IInv
<1> QED BY <1>1, Invariant, PTL

\* However deep the chain, a cancel() finds the operation in progress, and no
\* layer starts another one.
THEOREM CancelReachesOperation == Spec => []NothingStartsAfterCancel
<1>1. IInv => NothingStartsAfterCancel
  BY DEF IInv
<1> QED BY <1>1, Invariant, PTL

\* The chain implements the cancellable operation: no run of it that is cancelled
\* succeeds.
THEOREM ImplementsCancellable == Spec => CancellableSpec
<1> DEFINE st == IF at # 0 THEN (IF asked THEN "cancelled" ELSE "running")
                 ELSE IF outcome = "none" THEN "idle"
                 ELSE IF outcome = "connected" THEN "succeeded" ELSE "failed"
<1>1. Init => C!Init
  BY DEF Init, C!Init
<1>2. IInv /\ [Next]_vars => [C!Next]_st
  <2> SUFFICES ASSUME IInv, [Next]_vars PROVE C!Next \/ UNCHANGED st
    OBVIOUS
  <2> USE ChainConstants DEF C!Next
  <2>1. CASE Start
    BY <2>1 DEF Start, IInv, TypeOK, C!Start
  <2>2. CASE Resume
    <3>1. op \in {"ok", "failed"} /\ at # 0
      BY <2>2 DEF Resume, OperationFails, ErrorCheckThrows, NextLayer,
                  ServerNameFails, Connected, IInv, TypeOK
    <3>2. CASE OperationFails \/ ServerNameFails
      BY <3>1, <3>2 DEF OperationFails, ServerNameFails, Unwind, C!Fail
    <3>3. CASE ErrorCheckThrows
      <4>1. PICK i \in Checked : my_error[i] # "none" /\ Unwind(my_error[i])
        BY <3>3 DEF ErrorCheckThrows
      <4>2. my_error[i] \in Codes
        BY <3>1, <4>1 DEF Checked, IInv, TypeOK, Layers
      <4> QED BY <3>1, <4>1, <4>2 DEF Unwind, C!Fail
    <3>4. CASE NextLayer
      BY <3>1, <3>4 DEF NextLayer, IInv, TypeOK
    <3>5. CASE Connected
      <4>1. ~asked
        BY <3>5 DEF Connected, IInv, CancelRecorded
      <4> QED BY <3>1, <3>5, <4>1 DEF Connected, Unwind, C!Succeed
    <3> QED BY <2>2, <3>2, <3>3, <3>4, <3>5 DEF Resume
  <2>3. CASE \E ec \in Codes : cancel(ec)
    BY <2>3 DEF cancel, IInv, TypeOK, C!Cancel
  <2>4. CASE OperationEnds
    BY <2>4 DEF OperationEnds
  <2>5. CASE UNCHANGED vars
    BY <2>5 DEF vars
  <2> QED BY <2>1, <2>2, <2>3, <2>4, <2>5 DEF Next
<1> QED BY <1>1, <1>2, Invariant, PTL DEF Spec, CancellableSpec, C!Spec
=============================================================================
