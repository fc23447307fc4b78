--------------------------- MODULE QueueImplProofs ---------------------------
(***************************************************************************)
(* The types of queue_impl, and that each pop is in one place and is       *)
(* completed in turn, for any number of pushes, pops and cancels.  A pop   *)
(* starts only when none is outstanding, so that there is at most one      *)
(* stored handler or one completion on its way: OneAtATime, without which  *)
(* PopAccounted is not inductive.                                          *)
(***************************************************************************)
EXTENDS QueueImpl, TLAPS

\* The consumer waits for one pop at a time.
OneAtATime == pops - Len(done) \in 0..1

IInv == TypeOK /\ OneAtATime /\ PopAccounted

\* Sequences of completions by their lengths and elements.
LEMMA Empty == Len(<<>>) = 0 /\ \A S : <<>> \in Seq(S)
OBVIOUS

LEMMA Appended ==
    ASSUME NEW S, NEW s \in Seq(S), NEW x \in S
    PROVE  /\ Append(s, x) \in Seq(S) /\ Len(s) \in Nat
           /\ Len(Append(s, x)) = Len(s) + 1
           /\ Append(s, x)[Len(s) + 1] = x
           /\ \A i \in 1..Len(s) : Append(s, x)[i] = s[i]
OBVIOUS

LEMMA HeadAndTail ==
    ASSUME NEW S, NEW s \in Seq(S), s # <<>>
    PROVE  /\ Head(s) \in S /\ Head(s) = s[1] /\ Tail(s) \in Seq(S)
           /\ Len(s) \in Nat \ {0} /\ Len(Tail(s)) = Len(s) - 1
           /\ \A i \in 1..Len(Tail(s)) : Tail(s)[i] = s[i + 1]
OBVIOUS

LEMMA InitHolds == Init => IInv
<1> SUFFICES ASSUME Init PROVE IInv
  OBVIOUS
<1>1. /\ pushes \in 0..MaxPushes /\ pops \in 0..MaxPops /\ cancels \in 0..MaxCancels
      /\ handler_ \in 0..MaxPops
  BY BoundsAreNat DEF Init
<1>2. queue_ = <<>> /\ posted = <<>> /\ done = <<>> /\ handler_ = 0 /\ pops = 0
  BY DEF Init
<1>3. TypeOK
  BY <1>1, <1>2, Empty DEF TypeOK
<1>4. Len(posted) = 0 /\ Len(done) = 0 /\ handler_ = 0 /\ pops = 0
  BY <1>2, Empty
<1>5. OneAtATime /\ PopAccounted
  BY <1>4 DEF OneAtATime, PopAccounted
<1> QED BY <1>3, <1>5 DEF IInv

\* A completion is posted for the outstanding pop, which was stored or is new.
LEMMA PostedHolds ==
    ASSUME IInv, NEW r \in Completion,
           posted = <<>>, posted' = Append(posted, r), handler_' = 0,
           r.pop = pops', pops' = Len(done) + 1, pops' \in 0..MaxPops, done' = done,
           queue_' \in Seq(0..MaxPushes),
           pushes' \in 0..MaxPushes, cancels' \in 0..MaxCancels
    PROVE  IInv'
<1>1. posted \in Seq(Completion) /\ done \in Seq(Completion)
  BY DEF IInv, TypeOK
<1>2. /\ posted' \in Seq(Completion) /\ Len(posted') = 1 /\ posted'[1] = r
      /\ Len(done) \in Nat
  BY <1>1, Appended
<1>3. TypeOK'
  BY <1>1, <1>2, BoundsAreNat DEF TypeOK
<1>4. PopAccounted' /\ OneAtATime'
  BY <1>2 DEF IInv, PopAccounted, OneAtATime
<1> QED BY <1>3, <1>4 DEF IInv

LEMMA StepHolds == IInv /\ [Next]_vars => IInv'
<1> SUFFICES ASSUME IInv, [Next]_vars PROVE IInv'
  OBVIOUS
<1>1. /\ queue_ \in Seq(0..MaxPushes) /\ handler_ \in 0..MaxPops
      /\ posted \in Seq(Completion) /\ done \in Seq(Completion)
      /\ pushes \in 0..MaxPushes /\ pops \in 0..MaxPops /\ cancels \in 0..MaxCancels
      /\ Len(posted) \in Nat /\ Len(done) \in Nat /\ Len(posted) = 0 <=> posted = <<>>
  BY DEF IInv, TypeOK
<1>2. /\ Len(posted) + (IF handler_ # 0 THEN 1 ELSE 0) = pops - Len(done)
      /\ handler_ # 0 => handler_ = pops /\ queue_ = <<>>
      /\ pops - Len(done) \in 0..1
  BY DEF IInv, PopAccounted, OneAtATime
\* A stored handler is that of the only pop outstanding.
<1>3. handler_ # 0 => /\ posted = <<>> /\ pops = Len(done) + 1
                      /\ handler_ = pops /\ handler_ \in 1..MaxPops
  BY <1>1, <1>2
<1>4. CASE push
  <2>1. pushes' \in 0..MaxPushes /\ pushes' = pushes + 1
        /\ UNCHANGED <<done, pops, cancels>>
    BY <1>1, <1>4, BoundsAreNat DEF push
  <2>2. CASE handler_ # 0
    <3>1. posted' = Append(posted, Value(handler_, pushes')) /\ handler_' = 0
          /\ queue_' = queue_
      BY <1>4, <2>2 DEF push
    <3>2. Value(handler_, pushes') \in Completion /\ Value(handler_, pushes').pop = pops
      BY <1>3, <2>1, <2>2 DEF Value, Completion
    <3> QED BY <1>1, <1>3, <2>1, <2>2, <3>1, <3>2, PostedHolds
  <2>3. CASE handler_ = 0
    <3>1. queue_' = Append(queue_, pushes') /\ UNCHANGED <<handler_, posted>>
      BY <1>4, <2>3 DEF push
    <3>2. queue_' \in Seq(0..MaxPushes)
      <4> DEFINE S == 0..MaxPushes
      <4>1. queue_ \in Seq(S) /\ pushes' \in S
        BY <1>1, <2>1
      <4> HIDE DEF S
      <4>2. queue_' \in Seq(S)
        BY <3>1, <4>1
      <4> QED BY <4>2 DEF S
    <3>3. TypeOK'
      BY <1>1, <2>1, <3>1, <3>2 DEF TypeOK
    <3>4. PopAccounted' /\ OneAtATime'
      BY <2>1, <2>3, <3>1 DEF IInv, PopAccounted, OneAtATime
    <3> QED BY <3>3, <3>4 DEF IInv
  <2> QED BY <2>2, <2>3
<1>5. CASE async_pop
  <2>1. /\ pops = Len(done) /\ pops' = pops + 1 /\ pops' \in 1..MaxPops
        /\ UNCHANGED <<done, pushes, cancels>>
    BY <1>1, <1>5, BoundsAreNat DEF async_pop
  <2>2. posted = <<>> /\ handler_ = 0
    BY <1>1, <1>2, <2>1
  <2>3. CASE TakeFront(pops')
    <3>1. /\ queue_ # <<>> /\ posted' = Append(posted, Value(pops', Head(queue_)))
          /\ queue_' = [queue_ EXCEPT ![1] = 0] /\ handler_' = 0
      BY <2>2, <2>3 DEF TakeFront
    <3>2. Head(queue_) \in 0..MaxPushes
      BY <1>1, <3>1, HeadAndTail
    <3>3. queue_' \in Seq(0..MaxPushes)
      <4> DEFINE S == 0..MaxPushes
      <4>1. queue_ \in Seq(S) /\ 0 \in S
        BY <1>1, BoundsAreNat
      <4> HIDE DEF S
      <4>2. queue_' \in Seq(S)
        BY <3>1, <4>1
      <4> QED BY <4>2 DEF S
    <3>4. Value(pops', Head(queue_)) \in Completion
          /\ Value(pops', Head(queue_)).pop = pops'
      BY <2>1, <3>2 DEF Value, Completion
    <3> QED BY <1>1, <2>1, <2>2, <3>1, <3>3, <3>4, PostedHolds
  <2>4. CASE queue_ = <<>> /\ handler_' = pops' /\ UNCHANGED <<queue_, posted>>
    <3>1. TypeOK'
      BY <1>1, <2>1, <2>4 DEF TypeOK
    <3>2. PopAccounted' /\ OneAtATime'
      BY <1>1, <2>1, <2>2, <2>4 DEF IInv, PopAccounted, OneAtATime
    <3> QED BY <3>1, <3>2 DEF IInv
  <2> QED BY <1>5, <2>3, <2>4 DEF async_pop
<1>6. CASE cancel
  <2>1. /\ cancels' \in 0..MaxCancels /\ handler_' = 0
        /\ UNCHANGED <<queue_, done, pushes, pops>>
    BY <1>1, <1>6, BoundsAreNat DEF cancel
  <2>2. CASE handler_ # 0
    <3>1. posted' = Append(posted, Failure(handler_))
      BY <1>6, <2>2 DEF cancel
    <3>2. Failure(handler_) \in Completion /\ Failure(handler_).pop = pops
      BY <1>3, <2>2, BoundsAreNat DEF Failure, Completion
    <3> QED BY <1>1, <1>3, <2>1, <2>2, <3>1, <3>2, PostedHolds
  <2>3. CASE handler_ = 0
    <3>1. posted' = posted /\ handler_' = handler_
      BY <1>6, <2>1, <2>3 DEF cancel
    <3>2. TypeOK'
      BY <1>1, <2>1, <3>1 DEF TypeOK
    <3>3. PopAccounted' /\ OneAtATime'
      BY <2>1, <3>1 DEF IInv, PopAccounted, OneAtATime
    <3> QED BY <3>2, <3>3 DEF IInv
  <2> QED BY <2>2, <2>3
<1>7. CASE RunCompletion
  <2>1. /\ posted # <<>> /\ posted' = Tail(posted) /\ done' = Append(done, Head(posted))
        /\ UNCHANGED <<queue_, handler_, pushes, pops, cancels>>
    BY <1>7 DEF RunCompletion
  <2>2. /\ Head(posted) \in Completion /\ Head(posted) = posted[1]
        /\ posted' \in Seq(Completion) /\ Len(posted) \in Nat \ {0}
        /\ Len(posted') = Len(posted) - 1
    BY <1>1, <2>1, HeadAndTail
  <2>3. /\ done' \in Seq(Completion) /\ Len(done') = Len(done) + 1
        /\ done'[Len(done) + 1] = posted[1]
        /\ \A i \in 1..Len(done) : done'[i] = done[i]
    BY <1>1, <2>1, <2>2, Appended
  <2>4. Len(posted) = 1 /\ handler_ = 0 /\ posted' = <<>> /\ pops = Len(done) + 1
    BY <1>1, <1>2, <2>2
  <2>5. TypeOK'
    BY <1>1, <2>1, <2>2, <2>3 DEF TypeOK
  <2>6. PopAccounted' /\ OneAtATime'
    <3>1. posted[1].pop = Len(done) + 1
      BY <2>4 DEF IInv, PopAccounted
    <3>2. \A i \in 1..Len(done) : done[i].pop = i
      BY DEF IInv, PopAccounted
    <3>3. ASSUME NEW i \in 1..Len(done') PROVE done'[i].pop = i
      <4>1. i \in 1..Len(done) \/ i = Len(done) + 1
        BY <1>1, <2>3
      <4> QED BY <2>3, <3>1, <3>2, <4>1
    <3>4. Len(posted') = 0 /\ handler_' = 0 /\ pops' - Len(done') = 0
      BY <1>1, <2>1, <2>2, <2>3, <2>4
    <3> QED BY <3>3, <3>4 DEF PopAccounted, OneAtATime
  <2> QED BY <2>5, <2>6 DEF IInv
<1>8. CASE UNCHANGED vars
  BY <1>8 DEF vars, IInv, TypeOK, OneAtATime, PopAccounted
<1> QED BY <1>4, <1>5, <1>6, <1>7, <1>8 DEF Next

\* The types of queue_impl.
THEOREM TypeCorrect == Spec => []TypeOK
<1>1. IInv => TypeOK
  BY DEF IInv
<1> QED BY InitHolds, StepHolds, <1>1, PTL DEF Spec

\* Every pop is stored or completed once, in turn, and no frame is queued while one
\* is stored.
THEOREM PopsInOnePlace == Spec => []PopAccounted
<1>1. IInv => PopAccounted
  BY DEF IInv
<1> QED BY InitHolds, StepHolds, <1>1, PTL DEF Spec
=============================================================================
