------------------------- MODULE PolyHandlerProofs --------------------------
(***************************************************************************)
(* Proofs about PolyHandler, and about WorkGuard, whose operations it      *)
(* performs.                                                               *)
(*                                                                         *)
(* An operation on guards changes the work of every context by as much as  *)
(* the number of guards that count for it (GuardsCounted), whatever else   *)
(* counts: that is the whole argument for guards alone, and here the part  *)
(* of the free ones.  A step of the slots changes the work by as much as   *)
(* the load, which is what CountExact counts besides free guards.          *)
(*                                                                         *)
(* CountExact and GuardsKeepRunning need each other: a context stops only  *)
(* when its count comes to zero, and a count that is exact is not zero     *)
(* while a guard is anywhere.  Both need OnePlace, or a handler's guards   *)
(* would be counted twice, and that needs the stages a handler goes        *)
(* through (Staged), with no two places of a kind alike (Once).            *)
(***************************************************************************)
EXTENDS PolyHandler, FiniteSetTheorems, SequenceTheorems, TLAPS

\* The guards by themselves, beside tasks that come and go as they like.
VARIABLE tasks

Guard == INSTANCE WorkGuard WITH Guards <- FreeGuards

-----------------------------------------------------------------------------
(* Counting.                                                               *)

\* How much a set counts for x.
One(x, S) == IF x \in S THEN 1 ELSE 0

LEMMA OneIsInt == \A x, S : One(x, S) \in Int /\ One(x, {}) = 0
BY DEF One

\* Two sets that differ in one element at most differ in their size by as much.
LEMMA Differs ==
    ASSUME NEW S, NEW T, NEW x, IsFiniteSet(S), T \ {x} = S \ {x}
    PROVE  /\ IsFiniteSet(T)
           /\ Cardinality(T) \in Nat /\ Cardinality(S) \in Nat
           /\ Cardinality(T) = Cardinality(S) - One(x, S) + One(x, T)
<1> DEFINE R == S \ {x}
<1>1. /\ IsFiniteSet(R) /\ Cardinality(S) \in Nat /\ Cardinality(R) \in Nat
      /\ Cardinality(S) = Cardinality(R) + One(x, S)
  <2>1. /\ IsFiniteSet(R)
        /\ Cardinality(R) = IF x \in S THEN Cardinality(S) - 1 ELSE Cardinality(S)
    BY FS_RemoveElement
  <2> HIDE DEF R
  <2>2. Cardinality(S) \in Nat /\ Cardinality(R) \in Nat
    BY <2>1, FS_CardinalityType
  <2> QED BY <2>1, <2>2 DEF One
<1>2. T = IF x \in T THEN R \cup {x} ELSE R
  OBVIOUS
<1>3. x \notin R
  OBVIOUS
<1> HIDE DEF R
<1>4. IsFiniteSet(T) /\ Cardinality(T) = Cardinality(R) + One(x, T)
  <2>1. CASE x \in T
    BY <1>1, <1>2, <1>3, <2>1, FS_AddElement DEF One
  <2>2. CASE x \notin T
    BY <1>1, <1>2, <2>2 DEF One
  <2> QED BY <2>1, <2>2
<1>5. Cardinality(T) \in Nat
  BY <1>4, FS_CardinalityType
<1>6. One(x, S) \in Int /\ One(x, T) \in Int
  BY OneIsInt
<1> QED BY <1>1, <1>4, <1>5, <1>6

\* The two instances of the guards count as this module does.
LEMMA SameSize == \A S : Guard!Cardinality(S) = Cardinality(S) /\ Work!Cardinality(S) = Cardinality(S)
BY DEF Guard!Cardinality, Work!Cardinality, Cardinality

\* A sequence without its i-th element.
LEMMA Removal ==
    ASSUME NEW S, NEW q \in Seq(S), NEW i \in 1..Len(q), NEW r, r = RemoveAt(q, i)
    PROVE  /\ r \in Seq(S) /\ Len(q) \in Nat /\ Len(r) = Len(q) - 1
           /\ \A j \in 1..Len(r) : r[j] = IF j < i THEN q[j] ELSE q[j + 1]
<1> DEFINE a == SubSeq(q, 1, i - 1)
           b == SubSeq(q, i + 1, Len(q))
<1>1. Len(q) \in Nat /\ \A j \in 1..Len(q) : q[j] \in S
  OBVIOUS
<1>2. a \in Seq(S) /\ Len(a) = i - 1 /\ \A j \in 1..(i - 1) : a[j] = q[j]
  OBVIOUS
<1>3. /\ b \in Seq(S) /\ Len(b) = Len(q) - i
      /\ \A j \in 1..(Len(q) - i) : b[j] = q[i + j]
  OBVIOUS
<1>4. r = a \o b
  BY DEF RemoveAt
<1> HIDE DEF a, b
<1>5. /\ a \o b \in Seq(S) /\ Len(a \o b) = Len(a) + Len(b)
      /\ \A j \in 1..(Len(a) + Len(b)) :
           (a \o b)[j] = IF j <= Len(a) THEN a[j] ELSE b[j - Len(a)]
  <2>1. \A u, v \in Seq(S) :
          /\ u \o v \in Seq(S) /\ Len(u \o v) = Len(u) + Len(v)
          /\ \A j \in 1..(Len(u) + Len(v)) :
               (u \o v)[j] = IF j <= Len(u) THEN u[j] ELSE v[j - Len(u)]
    BY ConcatProperties
  <2> QED BY <1>2, <1>3, <2>1, Zenon
<1>6. r \in Seq(S) /\ Len(r) = Len(a) + Len(b)
  BY <1>4, <1>5
<1>7. i \in Nat /\ i <= Len(q) /\ Len(r) = Len(q) - 1
  BY <1>1, <1>2, <1>3, <1>6
<1>8. ASSUME NEW j \in 1..Len(r) PROVE r[j] = IF j < i THEN q[j] ELSE q[j + 1]
  <2>1. r[j] = IF j <= Len(a) THEN a[j] ELSE b[j - Len(a)]
    BY <1>4, <1>5, <1>6
  <2>2. CASE j < i
    <3>1. j \in 1..(i - 1) /\ j <= Len(a)
      BY <1>1, <1>2, <1>7, <2>2
    <3> QED BY <1>2, <2>1, <2>2, <3>1
  <2>3. CASE ~(j < i)
    <3>1. j - Len(a) \in 1..(Len(q) - i) /\ ~(j <= Len(a)) /\ i + (j - Len(a)) = j + 1
      BY <1>1, <1>2, <1>7, <2>3
    <3>2. b[j - Len(a)] = q[j + 1]
      BY <1>3, <3>1
    <3> QED BY <2>1, <2>3, <3>1, <3>2
  <2> QED BY <2>2, <2>3
<1> QED BY <1>1, <1>6, <1>7, <1>8

\* A sequence without its last element.
LEMMA Shorter ==
    ASSUME NEW S, NEW q \in Seq(S), NEW l \in 1..Len(q)
    PROVE  /\ SubSeq(q, 1, l - 1) \in Seq(S)
           /\ Len(SubSeq(q, 1, l - 1)) = l - 1
           /\ \A j \in 1..(l - 1) : SubSeq(q, 1, l - 1)[j] = q[j]
OBVIOUS

\* Of the places of a sequence that have a property, those of the others are left,
\* one less or as many.
LEMMA RemovalCounts ==
    ASSUME NEW S, NEW q \in Seq(S), NEW i \in 1..Len(q), NEW P
    PROVE  LET r == RemoveAt(q, i)
               I == {j \in 1..Len(q) : q[j] \in P}
               J == {j \in 1..Len(r) : r[j] \in P}
           IN Cardinality(J) = Cardinality(I) - One(q[i], P) /\ Cardinality(I) \in Nat
<1> DEFINE r == RemoveAt(q, i)
           I == {j \in 1..Len(q) : q[j] \in P}
           J == {j \in 1..Len(r) : r[j] \in P}
           f == [j \in J |-> IF j < i THEN j ELSE j + 1]
<1>1. /\ r \in Seq(S) /\ Len(q) \in Nat /\ Len(r) = Len(q) - 1
      /\ \A j \in 1..Len(r) : r[j] = IF j < i THEN q[j] ELSE q[j + 1]
  BY Removal
<1> HIDE DEF r
<1>2. IsFiniteSet(I) /\ IsFiniteSet(J)
  <2>1. IsFiniteSet(1..Len(q)) /\ IsFiniteSet(1..Len(r))
    BY <1>1, FS_Interval
  <2> QED BY <2>1, FS_Subset
<1>3. f \in Bijection(J, I \ {i})
  <2>1. \A j \in J : f[j] \in I \ {i}
    BY <1>1
  <2>2. f \in [J -> I \ {i}]
    BY <2>1
  <2>3. \A j, k \in J : f[j] = f[k] => j = k
    BY <1>1
  <2>4. \A k \in I \ {i} : \E j \in J : f[j] = k
    <3> SUFFICES ASSUME NEW k \in I \ {i} PROVE \E j \in J : f[j] = k
      OBVIOUS
    <3>1. CASE k < i
      BY <1>1, <3>1
    <3>2. CASE k > i
      <4>1. k - 1 \in J /\ f[k - 1] = k
        BY <1>1, <3>2
      <4> QED BY <4>1
    <3> QED BY <3>1, <3>2
  <2> HIDE DEF f
  <2> QED BY <2>2, <2>3, <2>4 DEF Bijection, Injection, Surjection, IsInjective
<1>4. Cardinality(J) = Cardinality(I \ {i})
  <2>1. ExistsBijection(J, I \ {i})
    BY <1>3 DEF ExistsBijection
  <2> HIDE DEF I, J
  <2> QED BY <1>2, <2>1, FS_Bijection
<1>5. i \in I <=> q[i] \in P
  BY <1>1
<1> HIDE DEF I, J
<1>6. /\ Cardinality(I \ {i}) = Cardinality(I) - One(q[i], P) /\ Cardinality(I) \in Nat
  <2>1. Cardinality(I \ {i}) = IF i \in I THEN Cardinality(I) - 1 ELSE Cardinality(I)
    BY <1>2, FS_RemoveElement
  <2>2. Cardinality(I) \in Nat
    BY <1>2, FS_CardinalityType
  <2> QED BY <1>5, <2>1, <2>2 DEF One
<1> QED BY <1>4, <1>6 DEF I, J, r

-----------------------------------------------------------------------------
(* Guards.                                                                 *)

IO == [work : [Contexts -> Int], stopped : SUBSET Contexts]

Holders(f, c) == {g \in FreeGuards : c \in f[g]}

\* f and f2 differ for guard g only.
SameBut(f, f2, g) == \A h \in FreeGuards \ {g} : f2[h] = f[h]

\* The types, and a guard that does not exist holds nothing.
GuardsOK ==
    /\ exists \subseteq FreeGuards
    /\ context_ \in [FreeGuards -> SUBSET Contexts]
    /\ io \in IO
    /\ \A g \in FreeGuards \ exists : context_[g] = {}

\* What add and finish do to the work of each context.
LEMMA AddWork ==
    ASSUME NEW s \in IO, NEW C \in SUBSET Contexts
    PROVE  /\ Work!add(s, C) \in IO
           /\ Work!add(s, C).stopped = s.stopped
           /\ \A c \in Contexts : Work!add(s, C).work[c] = s.work[c] + One(c, C)
BY DEF Work!add, IO, One

LEMMA FinishWork ==
    ASSUME NEW s \in IO, NEW C \in SUBSET Contexts
    PROVE  /\ Work!finish(s, C) \in IO
           /\ s.stopped \subseteq Work!finish(s, C).stopped
           /\ \A c \in Work!finish(s, C).stopped :
                c \in s.stopped \/ Work!finish(s, C).work[c] = 0
           /\ \A c \in Contexts : Work!finish(s, C).work[c] = s.work[c] - One(c, C)
BY DEF Work!finish, IO, One

\* When one guard changes, each count of guards changes by one at most.
LEMMA Recount ==
    ASSUME NEW f, NEW f2, NEW g \in FreeGuards, NEW c, SameBut(f, f2, g)
    PROVE  /\ Cardinality(Holders(f, c)) \in Nat
           /\ Cardinality(Holders(f2, c)) =
                Cardinality(Holders(f, c)) - One(c, f[g]) + One(c, f2[g])
<1>1. IsFiniteSet(Holders(f, c)) /\ IsFiniteSet(Holders(f2, c))
  BY HandlerConstants, FS_Subset DEF Holders
<1>2. /\ Holders(f2, c) \ {g} = Holders(f, c) \ {g}
      /\ One(g, Holders(f, c)) = One(c, f[g])
      /\ One(g, Holders(f2, c)) = One(c, f2[g])
  BY DEF Holders, SameBut, One
<1> QED BY <1>1, <1>2, Differs

\* The guards of a context are finitely many, so that none is left when none counts.
LEMMA Counts ==
    ASSUME NEW f, NEW c
    PROVE  /\ Cardinality(Holders(f, c)) \in Nat
           /\ Cardinality(Holders(f, c)) = 0 => \A g \in FreeGuards : c \notin f[g]
<1>1. IsFiniteSet(Holders(f, c))
  BY HandlerConstants, FS_Subset DEF Holders
<1>2. Cardinality(Holders(f, c)) = 0 => Holders(f, c) = {}
  BY <1>1, FS_EmptySet
<1> QED BY <1>1, <1>2, FS_CardinalityType DEF Holders

\* Every operation empties one guard, maybe itself, and then gives one guard its
\* contexts.
LEMMA Replaced ==
    ASSUME NEW o \in FreeGuards, NEW g \in FreeGuards, NEW f, NEW f2, NEW k,
           SameBut(k, f, o), SameBut(f, f2, g), NEW c
    PROVE  Cardinality(Holders(f2, c)) =
             Cardinality(Holders(k, c)) - One(c, k[o]) + One(c, f[o])
                                        - One(c, f[g]) + One(c, f2[g])
<1>1. /\ Cardinality(Holders(f, c)) =
           Cardinality(Holders(k, c)) - One(c, k[o]) + One(c, f[o])
      /\ Cardinality(Holders(f2, c)) =
           Cardinality(Holders(f, c)) - One(c, f[g]) + One(c, f2[g])
      /\ Cardinality(Holders(k, c)) \in Nat
  BY Recount
<1>2. One(c, k[o]) \in Int /\ One(c, f[o]) \in Int /\ One(c, f[g]) \in Int
      /\ One(c, f2[g]) \in Int
  BY OneIsInt
<1> QED BY <1>1, <1>2

\* What an operation on guards leaves: the work has changed by as much as the number of
\* guards, there is none for a context it stopped, and no guard on contexts other
\* than those of guards and running ones.
Good ==
    /\ GuardsOK'
    /\ \A c \in Contexts :
         io'.work[c] - Cardinality(Holders(context_', c))
           = io.work[c] - Cardinality(Holders(context_, c))
    /\ \A c \in io'.stopped : c \in io.stopped \/ io'.work[c] = 0
    /\ \A g \in FreeGuards : \A c \in context_'[g] :
         c \notin io.stopped \/ \E o \in FreeGuards : c \in context_[o]

\* Every operation, for guards g and o: o is given f[o], then g what it has at last.
LEMMA Operates ==
    ASSUME GuardsOK, NEW o \in FreeGuards, NEW g \in FreeGuards, NEW f,
           SameBut(context_, f, o), SameBut(f, context_', g),
           io' \in IO,
           \A c \in Contexts :
               io'.work[c] = io.work[c] - One(c, context_[o]) + One(c, f[o])
                                        - One(c, f[g]) + One(c, context_'[g])
    PROVE  \A c \in Contexts :
             io'.work[c] - Cardinality(Holders(context_', c))
               = io.work[c] - Cardinality(Holders(context_, c))
<1> SUFFICES ASSUME NEW c \in Contexts
             PROVE  io'.work[c] - Cardinality(Holders(context_', c))
                      = io.work[c] - Cardinality(Holders(context_, c))
  OBVIOUS
<1>1. Cardinality(Holders(context_', c)) =
        Cardinality(Holders(context_, c)) - One(c, context_[o]) + One(c, f[o])
                                          - One(c, f[g]) + One(c, context_'[g])
  BY Replaced
<1>2. /\ Cardinality(Holders(context_, c)) \in Nat
      /\ io.work[c] \in Int
  BY Counts DEF GuardsOK, IO
<1>3. One(c, context_[o]) \in Int /\ One(c, f[o]) \in Int /\ One(c, f[g]) \in Int
      /\ One(c, context_'[g]) \in Int
  BY OneIsInt
<1> QED BY <1>1, <1>2, <1>3

\* As Operates, when no guard but g changes.
LEMMA OperatesOn ==
    ASSUME GuardsOK, NEW g \in FreeGuards, SameBut(context_, context_', g), io' \in IO,
           \A c \in Contexts :
               io'.work[c] = io.work[c] - One(c, context_[g]) + One(c, context_'[g])
    PROVE  \A c \in Contexts :
             io'.work[c] - Cardinality(Holders(context_', c))
               = io.work[c] - Cardinality(Holders(context_, c))
<1> SUFFICES ASSUME NEW c \in Contexts
             PROVE  io'.work[c] - Cardinality(Holders(context_', c))
                      = io.work[c] - Cardinality(Holders(context_, c))
  OBVIOUS
<1>1. Cardinality(Holders(context_', c)) =
        Cardinality(Holders(context_, c)) - One(c, context_[g]) + One(c, context_'[g])
  BY Recount
<1>2. /\ Cardinality(Holders(context_, c)) \in Nat
      /\ io.work[c] \in Int
  BY Counts DEF GuardsOK, IO
<1>3. One(c, context_[g]) \in Int /\ One(c, context_'[g]) \in Int
  BY OneIsInt
<1> QED BY <1>1, <1>2, <1>3

LEMMA GuardsCounted ==
    ASSUME GuardsOK, Work!GuardOperation
    PROVE  Good
<1> USE DEF GuardsOK
<1>0. \A d \in Contexts : /\ One(d, {}) = 0
                          /\ io.work[d] \in Int
                          /\ \A S : One(d, S) \in Int
  BY OneIsInt DEF IO
<1>1. ASSUME NEW g \in FreeGuards, NEW c \in Contexts, Work!construct(g, c)
      PROVE  Good
  <2> DEFINE C == {c}
  <2>1. /\ io' \in IO /\ io'.stopped = io.stopped
        /\ \A d \in Contexts : io'.work[d] = io.work[d] + One(d, C)
    BY <1>1, AddWork DEF Work!construct
  <2>2. /\ SameBut(context_, context_', g)
        /\ context_[g] = {} /\ context_'[g] = C
    BY <1>1 DEF Work!construct, SameBut
  <2> HIDE DEF C
  <2>3. \A d \in Contexts :
          io'.work[d] = io.work[d] - One(d, context_[g]) + One(d, context_'[g])
    BY <1>0, <2>1, <2>2
  <2>4. \A d \in Contexts :
          io'.work[d] - Cardinality(Holders(context_', d))
            = io.work[d] - Cardinality(Holders(context_, d))
    BY <2>1, <2>2, <2>3, OperatesOn
  <2> QED BY <1>1, <2>1, <2>2, <2>4 DEF Work!construct, Good, C
<1>2. ASSUME NEW g \in FreeGuards, NEW o \in FreeGuards, Work!copyConstruct(g, o)
      PROVE  Good
  <2>1. /\ io' \in IO /\ io'.stopped = io.stopped
        /\ \A d \in Contexts : io'.work[d] = io.work[d] + One(d, context_[o])
    BY <1>2, AddWork DEF Work!copyConstruct
  <2>2. /\ SameBut(context_, context_', g)
        /\ context_[g] = {} /\ context_'[g] = context_[o]
    BY <1>2 DEF Work!copyConstruct, SameBut
  <2>3. \A d \in Contexts :
          io'.work[d] = io.work[d] - One(d, context_[g]) + One(d, context_'[g])
    BY <1>0, <2>1, <2>2
  <2>4. \A d \in Contexts :
          io'.work[d] - Cardinality(Holders(context_', d))
            = io.work[d] - Cardinality(Holders(context_, d))
    BY <2>1, <2>2, <2>3, OperatesOn
  <2> QED BY <1>2, <2>1, <2>2, <2>4 DEF Work!copyConstruct, Good
<1>3. ASSUME NEW g \in FreeGuards, NEW o \in FreeGuards, Work!moveConstruct(g, o)
      PROVE  Good
  <2> DEFINE f == [context_ EXCEPT ![o] = {}]
  <2>1. /\ SameBut(context_, f, o) /\ SameBut(f, context_', g)
        /\ f[o] = {} /\ f[g] = {} /\ context_'[g] = context_[o]
        /\ io' = io
    BY <1>3 DEF Work!moveConstruct, SameBut
  <2> HIDE DEF f
  <2>2. \A d \in Contexts :
          io'.work[d] = io.work[d] - One(d, context_[o]) + One(d, f[o])
                                   - One(d, f[g]) + One(d, context_'[g])
    BY <1>0, <2>1
  <2>3. \A d \in Contexts :
          io'.work[d] - Cardinality(Holders(context_', d))
            = io.work[d] - Cardinality(Holders(context_, d))
    BY <2>1, <2>2, Operates
  <2> QED BY <1>3, <2>1, <2>3 DEF Work!moveConstruct, Good
<1>4. ASSUME NEW g \in FreeGuards, NEW o \in FreeGuards, Work!copyAssign(g, o)
      PROVE  Good
  <2>1. /\ SameBut(context_, context_', g)
        /\ context_'[g] = context_[o]
    BY <1>4 DEF Work!copyAssign, SameBut
  <2>2. /\ io' \in IO
        /\ \A d \in io'.stopped : d \in io.stopped \/ io'.work[d] = 0
        /\ \A d \in Contexts :
             io'.work[d] = io.work[d] - One(d, context_[g]) + One(d, context_'[g])
    <3>1. CASE context_[g] = context_[o]
      <4>1. io' = io /\ context_[g] = context_'[g]
        BY <1>4, <2>1, <3>1 DEF Work!copyAssign
      <4> QED BY <1>0, <4>1
    <3>2. CASE context_[g] # context_[o]
      <4> DEFINE more == Work!add(io, context_[o])
      <4>1. /\ more \in IO /\ more.stopped = io.stopped
            /\ \A d \in Contexts : more.work[d] = io.work[d] + One(d, context_[o])
        BY AddWork
      <4>2. io' = Work!finish(more, context_[g])
        BY <1>4, <3>2 DEF Work!copyAssign
      <4> HIDE DEF more
      <4>3. /\ io' \in IO
            /\ \A d \in io'.stopped : d \in more.stopped \/ io'.work[d] = 0
            /\ \A d \in Contexts : io'.work[d] = more.work[d] - One(d, context_[g])
        BY <4>1, <4>2, FinishWork
      <4> QED BY <1>0, <2>1, <4>1, <4>3
    <3> QED BY <3>1, <3>2
  <2>4. \A d \in Contexts :
          io'.work[d] - Cardinality(Holders(context_', d))
            = io.work[d] - Cardinality(Holders(context_, d))
    BY <2>1, <2>2, OperatesOn
  <2> QED BY <1>4, <2>1, <2>2, <2>4 DEF Work!copyAssign, Good
<1>5. ASSUME NEW g \in FreeGuards, NEW o \in FreeGuards, Work!moveAssign(g, o)
      PROVE  Good
  <2> DEFINE f == [context_ EXCEPT ![o] = {}]
  <2>1. /\ SameBut(context_, f, o) /\ SameBut(f, context_', g)
        /\ f[o] = {} /\ f[g] \in SUBSET Contexts /\ context_'[g] = context_[o]
        /\ io' = Work!finish(io, f[g])
    BY <1>5 DEF Work!moveAssign, SameBut
  <2> HIDE DEF f
  <2>2. /\ io' \in IO
        /\ \A d \in io'.stopped : d \in io.stopped \/ io'.work[d] = 0
        /\ \A d \in Contexts : io'.work[d] = io.work[d] - One(d, f[g])
    BY <2>1, FinishWork
  <2>3. \A d \in Contexts :
          io'.work[d] = io.work[d] - One(d, context_[o]) + One(d, f[o])
                                   - One(d, f[g]) + One(d, context_'[g])
    BY <1>0, <2>1, <2>2
  <2>4. \A d \in Contexts :
          io'.work[d] - Cardinality(Holders(context_', d))
            = io.work[d] - Cardinality(Holders(context_, d))
    BY <2>1, <2>2, <2>3, Operates
  <2> QED BY <1>5, <2>1, <2>2, <2>4 DEF Work!moveAssign, Good
<1>6. ASSUME NEW g \in FreeGuards, Work!reset(g) \/ Work!destruct(g)
      PROVE  Good
  <2>1. /\ SameBut(context_, context_', g)
        /\ context_'[g] = {} /\ io' = Work!finish(io, context_[g])
    BY <1>6 DEF Work!reset, Work!destruct, SameBut
  <2>2. /\ io' \in IO
        /\ \A d \in io'.stopped : d \in io.stopped \/ io'.work[d] = 0
        /\ \A d \in Contexts : io'.work[d] = io.work[d] - One(d, context_[g])
    BY <2>1, FinishWork
  <2>3. \A d \in Contexts :
          io'.work[d] = io.work[d] - One(d, context_[g]) + One(d, context_'[g])
    BY <1>0, <2>1, <2>2
  <2>4. \A d \in Contexts :
          io'.work[d] - Cardinality(Holders(context_', d))
            = io.work[d] - Cardinality(Holders(context_, d))
    BY <2>1, <2>2, <2>3, OperatesOn
  <2> QED BY <1>6, <2>1, <2>2, <2>4 DEF Work!reset, Work!destruct, Good
<1> QED BY <1>1, <1>2, <1>3, <1>4, <1>5, <1>6 DEF Work!GuardOperation

-----------------------------------------------------------------------------
(* Guards of a program without handlers, beside any other work.            *)

AloneOK ==
    /\ GuardsOK /\ tasks \in [Contexts -> Nat]
    /\ Guard!CountExact /\ Guard!GuardedRuns

LEMMA AloneInit == Guard!GuardInit => AloneOK
<1> SUFFICES ASSUME Guard!GuardInit PROVE AloneOK
  OBVIOUS
<1>1. \A c \in Contexts : {g \in FreeGuards : c \in context_[g]} = {}
  BY DEF Guard!GuardInit
<1>2. GuardsOK /\ Guard!GuardedRuns /\ tasks \in [Contexts -> Nat]
  BY DEF Guard!GuardInit, GuardsOK, Guard!GuardedRuns, IO
<1>3. Guard!CountExact
  <2>1. \A c \in Contexts : Guard!Cardinality({g \in FreeGuards : c \in context_[g]}) = 0
    BY <1>1, FS_EmptySet, SameSize
  <2> QED BY <2>1 DEF Guard!GuardInit, Guard!CountExact
<1> QED BY <1>2, <1>3 DEF AloneOK

\* A step that stops a context leaves it no work, and so no guard.
LEMMA AloneStep == AloneOK /\ [Guard!GuardNext]_(Guard!guardVars) => AloneOK'
<1> SUFFICES ASSUME AloneOK, [Guard!GuardNext]_(Guard!guardVars) PROVE AloneOK'
  OBVIOUS
<1> DEFINE n(f, c) == Cardinality(Holders(f, c))
<1>1. \A c \in Contexts : /\ io.work[c] = n(context_, c) + tasks[c]
                          /\ n(context_, c) \in Nat /\ n(context_', c) \in Nat
                          /\ tasks[c] \in Nat
  BY Counts, SameSize DEF AloneOK, Guard!CountExact, Holders
<1>2. ASSUME GuardsOK', tasks' \in [Contexts -> Nat],
             \A c \in Contexts : io'.work[c] = n(context_', c) + tasks'[c],
             \A c \in io'.stopped : c \in io.stopped \/ io'.work[c] = 0,
             \A g \in FreeGuards : \A c \in context_'[g] :
               c \notin io.stopped \/ \E o \in FreeGuards : c \in context_[o]
      PROVE  AloneOK'
  <2>1. Guard!CountExact'
    BY <1>2, SameSize DEF Guard!CountExact, Holders
  <2>2. ASSUME NEW g \in FreeGuards, NEW c \in context_'[g], c \in io'.stopped
        PROVE  FALSE
    <3>1. c \notin io.stopped
      BY <1>2, <2>2 DEF AloneOK, Guard!GuardedRuns
    <3>2. c \in Contexts /\ io'.work[c] = 0 /\ tasks'[c] \in Nat
      BY <1>2, <2>2, <3>1 DEF GuardsOK
    <3>3. n(context_', c) = 0
      BY <1>1, <1>2, <3>2
    <3> QED BY <2>2, <3>3, Counts
  <2> QED BY <1>2, <2>1, <2>2 DEF AloneOK, Guard!GuardedRuns
<1>3. CASE Guard!GuardOperation /\ UNCHANGED tasks
  <2>1. Work!GuardOperation
    BY <1>3 DEF Guard!GuardOperation, Guard!construct, Guard!copyConstruct,
        Guard!moveConstruct, Guard!copyAssign, Guard!moveAssign, Guard!reset,
        Guard!destruct, Guard!add, Guard!finish, Work!GuardOperation,
        Work!construct, Work!copyConstruct, Work!moveConstruct, Work!copyAssign,
        Work!moveAssign, Work!reset, Work!destruct, Work!add, Work!finish
  <2>2. Good
    BY <2>1, GuardsCounted DEF AloneOK
  <2>3. \A c \in Contexts : io'.work[c] = n(context_', c) + tasks'[c]
    <3> TAKE c \in Contexts
    <3>1. io'.work[c] - n(context_', c) = io.work[c] - n(context_, c)
      BY <2>2 DEF Good
    <3>2. io'.work[c] \in Int
      BY <2>2 DEF Good, GuardsOK, IO
    <3> HIDE DEF n
    <3> QED BY <1>1, <1>3, <3>1, <3>2
  <2> QED BY <1>2, <1>3, <2>2, <2>3 DEF Good, AloneOK
<1>4. ASSUME NEW d \in Contexts, Guard!Task(d) PROVE AloneOK'
  <2>1. context_' = context_ /\ exists' = exists
    BY <1>4 DEF Guard!Task
  <2>2. CASE tasks' = [tasks EXCEPT ![d] = @ + 1] /\ io' = Guard!add(io, {d})
    <3>1. /\ io' \in IO /\ io'.stopped = io.stopped
          /\ \A c \in Contexts : io'.work[c] = io.work[c] + (IF c = d THEN 1 ELSE 0)
      BY <2>2 DEF Guard!add, AloneOK, GuardsOK, IO
    <3>2. tasks' \in [Contexts -> Nat]
          /\ \A c \in Contexts : tasks'[c] = tasks[c] + (IF c = d THEN 1 ELSE 0)
      BY <2>2 DEF AloneOK
    <3>3. \A c \in Contexts : io'.work[c] = n(context_', c) + tasks'[c]
      <4> HIDE DEF n
      <4> QED BY <1>1, <2>1, <3>1, <3>2
    <3> QED BY <1>2, <2>1, <3>1, <3>2, <3>3 DEF AloneOK, GuardsOK
  <2>3. CASE /\ tasks[d] > 0
             /\ tasks' = [tasks EXCEPT ![d] = @ - 1] /\ io' = Guard!finish(io, {d})
    <3>1. /\ io' \in IO
          /\ \A c \in io'.stopped : c \in io.stopped \/ io'.work[c] = 0
          /\ \A c \in Contexts : io'.work[c] = io.work[c] - (IF c = d THEN 1 ELSE 0)
      BY <2>3 DEF Guard!finish, AloneOK, GuardsOK, IO
    <3>2. tasks' \in [Contexts -> Nat]
          /\ \A c \in Contexts : tasks'[c] = tasks[c] - (IF c = d THEN 1 ELSE 0)
      BY <1>1, <2>3 DEF AloneOK
    <3>3. \A c \in Contexts : io'.work[c] = n(context_', c) + tasks'[c]
      <4> HIDE DEF n
      <4> QED BY <1>1, <2>1, <3>1, <3>2
    <3> QED BY <1>2, <2>1, <3>1, <3>2, <3>3 DEF AloneOK, GuardsOK
  <2> QED BY <1>4, <2>2, <2>3 DEF Guard!Task
<1>5. CASE UNCHANGED Guard!guardVars
  BY <1>5 DEF Guard!guardVars, AloneOK, GuardsOK, Guard!CountExact, Guard!GuardedRuns
<1> QED BY <1>3, <1>4, <1>5 DEF Guard!GuardNext

\* However guards are made, copied, moved, assigned and destroyed, the work of a
\* context is its guards and its tasks.
THEOREM WorkIsCounted == Guard!GuardSpec => []Guard!CountExact
<1>1. AloneOK => Guard!CountExact
  BY DEF AloneOK
<1> QED BY AloneInit, AloneStep, <1>1, PTL DEF Guard!GuardSpec

\* A context that a guard counts for never stops, whatever its guards and its tasks do.
THEOREM GuardedContextRuns == Guard!GuardSpec => []Guard!GuardedRuns
<1>1. AloneOK => Guard!GuardedRuns
  BY DEF AloneOK
<1> QED BY AloneInit, AloneStep, <1>1, PTL DEF Guard!GuardSpec

-----------------------------------------------------------------------------
(* Handlers.                                                               *)

InSlot(h)    == \E s \in Slots : held[s] = h
InPosted(h)  == \E i \in 1..Len(posted) : posted[i] = h
InRunning(h) == \E i \in 1..Len(running) : running[i] = h
Placed(h)    == InSlot(h) \/ InPosted(h) \/ InRunning(h)

\* TypeOK, but for the bounds on objects, which follow.
Types ==
    /\ held \in [Slots -> 0..MaxHandlers]
    /\ kind \in [Handlers -> [size : {"none", "small", "big"}, exec : Contexts,
                             guards : SUBSET Contexts]]
    /\ posted \in Seq(Handlers)
    /\ running \in Seq(Handlers)
    /\ calls \in [Handlers -> 0..1]
    /\ live \in [Handlers -> Int]
    /\ made \in 0..MaxHandlers
    /\ task \subseteq Contexts

\* No two places of a kind have the same handler.
Once ==
    /\ \A s, t \in Slots : held[s] # 0 /\ held[s] = held[t] => s = t
    /\ \A i, j \in 1..Len(posted) : posted[i] = posted[j] => i = j
    /\ \A i, j \in 1..Len(running) : running[i] = running[j] => i = j

\* A handler goes from a slot to a completion, and from either to a call: only one
\* that was made, and only once.
Staged ==
    \A h \in Handlers :
        /\ Placed(h) => h <= made
        /\ h > made => calls[h] = 0
        /\ InSlot(h) => ~InPosted(h)
        /\ InSlot(h) \/ InPosted(h) => calls[h] = 0
        /\ InRunning(h) => calls[h] = 1

\* A handler has an object while it is somewhere, and a big one that was called has
\* another, which nothing destroys.
Objects ==
    \A h \in Handlers :
        /\ h <= made => kind[h].size \in {"small", "big"}
        /\ live[h] = (IF Placed(h) THEN 1 ELSE 0)
                      + (IF kind[h].size = "big" /\ calls[h] = 1 THEN 1 ELSE 0)

\* A context that runs a completion does so for the outermost of the calls.
TaskRuns == task = {} \/ (running # <<>> /\ \E e \in Contexts : task = {e})

Own == Types /\ Once /\ Staged /\ Objects /\ TaskRuns

IInv == Own /\ GuardsOK /\ CountExact /\ GuardsKeepRunning

LEMMA PlacesMean == \A h : Places(h) # {} <=> Placed(h)
<1> SUFFICES ASSUME NEW h PROVE Places(h) # {} <=> Placed(h)
  OBVIOUS
<1>1. \A s \in Slots : held[s] = h => <<"slot", s>> \in Places(h)
  BY DEF Places
<1>2. \A i \in 1..Len(posted) : posted[i] = h => <<"posted", i>> \in Places(h)
  BY DEF Places
<1>3. \A i \in 1..Len(running) : running[i] = h => <<"running", i>> \in Places(h)
  BY DEF Places
<1>4. Placed(h) => Places(h) # {}
  BY <1>1, <1>2, <1>3 DEF Placed, InSlot, InPosted, InRunning
<1>5. ASSUME NEW p \in Places(h) PROVE Placed(h)
  BY <1>5 DEF Places, Placed, InSlot, InPosted, InRunning
<1> QED BY <1>4, <1>5

\* The types of the handlers, and each in one place.
LEMMA OwnMeans == Own => TypeOK /\ OnePlace /\ ObjectsBalanced
<1> SUFFICES ASSUME Own PROVE TypeOK /\ OnePlace /\ ObjectsBalanced
  OBVIOUS
<1> USE DEF Own
<1>1. TypeOK
  <2>1. \A h \in Handlers : live[h] \in 0..2
    BY DEF Objects
  <2> QED BY <2>1 DEF Types, TypeOK
<1>2. OnePlace
  <2> SUFFICES ASSUME NEW h \in Handlers
               PROVE  /\ \A p, q \in Places(h) : p = q
                      /\ \A s \in Slots : held[s] = h => calls[h] = 0
                      /\ \A i \in 1..Len(posted) : posted[i] = h => calls[h] = 0
    BY DEF OnePlace
  <2>1. h # 0
    BY HandlerConstants DEF Handlers
  <2>2. /\ \A s, t \in {s \in Slots : held[s] = h} : s = t
        /\ \A i, j \in {i \in 1..Len(posted) : posted[i] = h} : i = j
        /\ \A i, j \in {i \in 1..Len(running) : running[i] = h} : i = j
    BY <2>1 DEF Once
  <2>3. /\ ~(InSlot(h) /\ InPosted(h)) /\ ~(InSlot(h) /\ InRunning(h))
        /\ ~(InPosted(h) /\ InRunning(h))
    BY DEF Staged
  <2>4. \A p, q \in Places(h) : p = q
    BY <2>2, <2>3 DEF Places, InSlot, InPosted, InRunning
  <2> QED BY <2>4 DEF Staged, InSlot, InPosted
<1>3. ObjectsBalanced
  <2> SUFFICES ASSUME NEW h \in Handlers
               PROVE  live[h] = (IF Places(h) = {} THEN 0 ELSE 1)
                        + (IF kind[h].size = "big" /\ calls[h] = 1 THEN 1 ELSE 0)
    BY DEF ObjectsBalanced
  <2> QED BY PlacesMean DEF Objects
<1> QED BY <1>1, <1>2, <1>3

\* What the handlers are to the count of a context.
Holding(c) == {h \in Handlers : Placed(h) /\ c \in kind[h].guards}
ForContext(c) == {h \in Handlers : kind[h].exec = c}
Queued(c)  == {i \in 1..Len(posted) : posted[i] \in ForContext(c)}
Load(c)    == Cardinality(Holding(c)) + Cardinality(Queued(c)) + One(c, task)

LEMMA HoldingFinite ==
    \A c : IsFiniteSet(Holding(c)) /\ Cardinality(Holding(c)) \in Nat
<1> SUFFICES ASSUME NEW c
             PROVE  IsFiniteSet(Holding(c)) /\ Cardinality(Holding(c)) \in Nat
  OBVIOUS
<1>1. IsFiniteSet(Handlers)
  BY HandlerConstants, FS_Interval DEF Handlers
<1> QED BY <1>1, FS_Subset, FS_CardinalityType DEF Holding

LEMMA QueuedFinite ==
    Types => \A c : IsFiniteSet(Queued(c)) /\ Cardinality(Queued(c)) \in Nat
<1> SUFFICES ASSUME Types, NEW c
             PROVE  IsFiniteSet(Queued(c)) /\ Cardinality(Queued(c)) \in Nat
  OBVIOUS
<1>1. IsFiniteSet(1..Len(posted))
  BY FS_Interval DEF Types
<1> QED BY <1>1, FS_Subset, FS_CardinalityType DEF Queued

\* CountExact in these terms.
LEMMA CountMeans ==
    Types => (CountExact <=> \A c \in Contexts :
                io.work[c] = Cardinality(Holders(context_, c)) + Load(c))
<1> SUFFICES ASSUME Types, NEW c \in Contexts PROVE Tasks[c] = Load(c)
  BY SameSize DEF CountExact, Work!CountExact, Holders
<1>1. {h \in Handlers : Places(h) # {} /\ c \in kind[h].guards} = Holding(c)
  BY PlacesMean DEF Holding
<1>2. {i \in 1..Len(posted) : kind[posted[i]].exec = c} = Queued(c)
  BY DEF Queued, ForContext, Types
<1>3. Cardinality(task \cap {c}) = One(c, task)
  <2>1. task \cap {c} = IF c \in task THEN {c} ELSE {}
    OBVIOUS
  <2> QED BY <2>1, FS_EmptySet, FS_Singleton DEF One
<1> QED BY <1>1, <1>2, <1>3 DEF Tasks, Load

LEMMA LoadIsNat ==
    Types => \A c : Load(c) \in Nat /\ (Load(c) = 0 => Cardinality(Holding(c)) = 0)
<1> SUFFICES ASSUME Types, NEW c
             PROVE  Load(c) \in Nat /\ (Load(c) = 0 => Cardinality(Holding(c)) = 0)
  OBVIOUS
<1>1. Cardinality(Holding(c)) \in Nat /\ Cardinality(Queued(c)) \in Nat
  BY HoldingFinite, QueuedFinite
<1>2. One(c, task) \in Nat
  BY DEF One
<1> QED BY <1>1, <1>2 DEF Load

\* A handler whose guards count for a context that has no work is nowhere.
LEMMA NoneHolds ==
    \A d : Cardinality(Holding(d)) = 0
             => \A h \in Handlers : Placed(h) => d \notin kind[h].guards
BY HoldingFinite, FS_EmptySet DEF Holding

-----------------------------------------------------------------------------
(* Steps.                                                                  *)

\* The state of the handlers after a step is good if the work has changed by as much
\* as the load, what was stopped has no work, and the handlers that are somewhere
\* hold no guards on contexts that had stopped before.
LEMMA Settled ==
    ASSUME IInv, Own', UNCHANGED <<exists, context_>>, io' \in IO,
           \A c \in Contexts : io'.work[c] - Load(c)' = io.work[c] - Load(c),
           \A c \in io'.stopped : c \in io.stopped \/ io'.work[c] <= 0,
           \A h \in Handlers : Placed(h)' => kind'[h].guards \cap io.stopped = {}
    PROVE  IInv'
<1>1. /\ GuardsOK' /\ Types /\ Types' /\ io \in IO
  BY DEF IInv, GuardsOK, Own
<1>2. \A c \in Contexts :
        /\ Load(c) \in Nat /\ Load(c)' \in Nat
        /\ Load(c)' = 0 => Cardinality(Holding(c))' = 0
  <2>1. (Types => \A c : Load(c) \in Nat /\ (Load(c) = 0 => Cardinality(Holding(c)) = 0))'
    BY LoadIsNat, PTL
  <2> QED BY <1>1, <2>1, LoadIsNat
<1>3. \A c \in Contexts : Cardinality(Holders(context_, c)) \in Nat
  BY Counts
<1>4. /\ \A c \in Contexts : io.work[c] = Cardinality(Holders(context_, c)) + Load(c)
      /\ \A c \in Contexts : io.work[c] \in Int /\ io'.work[c] \in Int
  BY <1>1, CountMeans DEF IInv, IO
<1>5. \A c \in Contexts : io'.work[c] = Cardinality(Holders(context_, c)) + Load(c)'
  BY <1>2, <1>3, <1>4
<1>6. CountExact'
  <2>1. (Types => (CountExact <=> \A c \in Contexts :
            io.work[c] = Cardinality(Holders(context_, c)) + Load(c)))'
    BY CountMeans, PTL
  <2> QED BY <1>1, <1>5, <2>1
<1>7. (\A d : Cardinality(Holding(d)) = 0
             => \A h \in Handlers : Placed(h) => d \notin kind[h].guards)'
  BY NoneHolds, PTL
<1>8. ASSUME NEW c \in io'.stopped, c \notin io.stopped
      PROVE  /\ \A g \in FreeGuards : c \notin context_[g]
             /\ \A h \in Handlers : Placed(h)' => c \notin kind'[h].guards
  <2>1. c \in Contexts /\ io'.work[c] <= 0
    BY <1>8 DEF IO
  <2>2. Cardinality(Holders(context_, c)) = 0 /\ Load(c)' = 0
    BY <1>2, <1>3, <1>5, <2>1
  <2>3. Cardinality(Holding(c))' = 0
    BY <1>2, <2>1, <2>2
  <2> QED BY <1>8, <2>2, <2>3, <1>7, Counts
<1>9. GuardsKeepRunning'
  <2>1. \A g \in FreeGuards : context_'[g] \cap io'.stopped = {}
    BY <1>8 DEF IInv, GuardsKeepRunning, Work!GuardedRuns
  <2>2. \A h \in Handlers : Placed(h)' => kind'[h].guards \cap io'.stopped = {}
    BY <1>8
  <2>3. (\A h : Places(h) # {} <=> Placed(h))'
    BY PlacesMean, PTL
  <2> QED BY <2>1, <2>2, <2>3 DEF GuardsKeepRunning, Work!GuardedRuns
<1> QED BY <1>1, <1>6, <1>9 DEF IInv

LEMMA InitHolds == Init => IInv
<1> SUFFICES ASSUME Init PROVE IInv
  OBVIOUS
<1> USE HandlerConstants DEF Init, Work!GuardInit
<1>1. \A h \in Handlers : ~Placed(h)
  BY DEF Placed, InSlot, InPosted, InRunning, Handlers
<1>2. Own
  <2>1. Types
    BY DEF Types
  <2>2. Once /\ TaskRuns
    BY DEF Once, TaskRuns
  <2>3. Staged
    BY <1>1 DEF Staged, Placed
  <2>4. Objects
    BY <1>1 DEF Objects, Handlers
  <2> QED BY <2>1, <2>2, <2>3, <2>4 DEF Own
<1>3. GuardsOK
  BY DEF GuardsOK, IO
<1>4. CountExact
  <2> SUFFICES ASSUME NEW c \in Contexts
               PROVE  Cardinality(Holders(context_, c)) + Load(c) = 0
    BY <1>2, CountMeans DEF Own
  <2>1. Holders(context_, c) = {} /\ Holding(c) = {} /\ Queued(c) = {}
    BY <1>1 DEF Holders, Holding, Queued
  <2>2. One(c, task) = 0
    BY DEF One
  <2>3. /\ Cardinality(Holders(context_, c)) = 0 /\ Cardinality(Holding(c)) = 0
        /\ Cardinality(Queued(c)) = 0
    BY <2>1, FS_EmptySet
  <2> QED BY <2>2, <2>3 DEF Load
<1>5. GuardsKeepRunning
  BY DEF GuardsKeepRunning, Work!GuardedRuns
<1> QED BY <1>2, <1>3, <1>4, <1>5 DEF IInv

\* A handler that is nowhere any more no longer counts for the contexts of its guards.
LEMMA Dropped ==
    ASSUME NEW o \in 0..MaxHandlers, o # 0 => Placed(o), kind' = kind,
           \A h \in Handlers : Placed(h)' <=> Placed(h) /\ h # o
    PROVE  \A c : Cardinality(Holding(c))' = Cardinality(Holding(c)) - One(c, Guarded(o))
<1> SUFFICES ASSUME NEW c
             PROVE  Cardinality(Holding(c))' = Cardinality(Holding(c)) - One(c, Guarded(o))
  OBVIOUS
<1>1. Holding(c)' = Holding(c) \ {o}
  BY DEF Holding
<1>2. o \in Holding(c) <=> c \in Guarded(o)
  BY HandlerConstants DEF Holding, Guarded, Handlers
<1>3. Cardinality(Holding(c) \ {o}) =
        IF o \in Holding(c) THEN Cardinality(Holding(c)) - 1 ELSE Cardinality(Holding(c))
  BY HoldingFinite, FS_RemoveElement
<1> QED BY <1>1, <1>2, <1>3, HoldingFinite DEF One

LEMMA AssignStep ==
    ASSUME IInv, NEW s \in Slots,
           NEW k \in [size : {"small", "big"}, exec : Contexts, guards : SUBSET Contexts],
           k.guards \cap io.stopped = {}, assign(s, k)
    PROVE  IInv'
<1> DEFINE o == held[s]
           n == made + 1
<1> USE HandlerConstants
<1>1. /\ Own /\ Types /\ Once /\ Staged /\ Objects /\ TaskRuns /\ io \in IO
  BY DEF IInv, Own, GuardsOK
<1>2. /\ n \in Handlers /\ n \in 1..MaxHandlers /\ made' = n /\ o \in 0..MaxHandlers
      /\ held' = [held EXCEPT ![s] = n] /\ kind' = [kind EXCEPT ![n] = k]
      /\ live' = [Minus(live, o) EXCEPT ![n] = 1]
      /\ io' = Work!finish(Work!add(io, k.guards), Guarded(o))
      /\ UNCHANGED <<posted, running, calls, task, exists, context_>>
  BY <1>1 DEF assign, Types, Handlers
<1>3. ~Placed(n) /\ calls[n] = 0 /\ n # 0
  BY <1>1, <1>2 DEF Staged, Types
<1>4. o # 0 => /\ o \in Handlers /\ o # n /\ InSlot(o) /\ Placed(o) /\ calls[o] = 0
               /\ ~InPosted(o) /\ ~InRunning(o)
  <2>1. o # 0 => o \in Handlers /\ InSlot(o) /\ Placed(o)
    BY <1>2 DEF Handlers, InSlot, Placed
  <2> QED BY <2>1, <1>1, <1>3 DEF Staged
<1>5. ASSUME NEW h \in Handlers
      PROVE  /\ InSlot(h)' <=> h = n \/ (InSlot(h) /\ h # o)
             /\ InPosted(h)' <=> InPosted(h)
             /\ InRunning(h)' <=> InRunning(h)
             /\ Placed(h)' <=> h = n \/ (Placed(h) /\ h # o)
  <2>1. h # 0
    BY DEF Handlers
  <2>2. held'[s] = n /\ \A t \in Slots \ {s} : held'[t] = held[t]
    BY <1>1, <1>2 DEF Types
  <2>3. InSlot(h)' <=> h = n \/ (InSlot(h) /\ h # o)
    BY <1>1, <2>1, <2>2 DEF InSlot, Once
  <2>4. (InPosted(h)' <=> InPosted(h)) /\ (InRunning(h)' <=> InRunning(h))
    BY <1>2 DEF InPosted, InRunning
  <2>5. h = o => ~InPosted(h) /\ ~InRunning(h)
    BY <1>4, <2>1
  <2> QED BY <2>3, <2>4, <2>5 DEF Placed
<1>6. Types'
  <2>1. Minus(live, o) \in [Handlers -> Int]
    BY <1>1, <1>2 DEF Types, Minus, Handlers
  <2>2. kind' \in [Handlers -> [size : {"none", "small", "big"}, exec : Contexts,
                               guards : SUBSET Contexts]]
    BY <1>1, <1>2 DEF Types
  <2> QED BY <1>1, <1>2, <2>1, <2>2 DEF Types
<1>7. Once'
  <2>1. \A t \in Slots : held[t] # n
    BY <1>3 DEF Placed, InSlot
  <2> QED BY <1>1, <1>2, <2>1 DEF Once, Types
<1>8. Staged'
  <2> SUFFICES ASSUME NEW h \in Handlers
               PROVE  /\ Placed(h)' => h <= made'
                      /\ h > made' => calls'[h] = 0
                      /\ InSlot(h)' => ~InPosted(h)'
                      /\ InSlot(h)' \/ InPosted(h)' => calls'[h] = 0
                      /\ InRunning(h)' => calls'[h] = 1
    BY DEF Staged
  <2>1. h <= made \/ h = n \/ h > n
    BY <1>1 DEF Handlers, Types
  <2>2. h > n => h > made
    BY <1>1 DEF Handlers, Types
  <2>3. h <= made => h <= n
    BY <1>1 DEF Handlers, Types
  <2>4. ~InSlot(n) /\ ~InPosted(n) /\ ~InRunning(n)
    BY <1>3 DEF Placed
  <2> HIDE DEF n, o
  <2>5. CASE h = n
    BY <1>2, <1>3, <1>5, <2>4, <2>5 DEF Handlers
  <2>6. CASE h # n
    BY <1>1, <1>2, <1>5, <2>1, <2>2, <2>3, <2>6 DEF Staged, Handlers
  <2> QED BY <2>5, <2>6
<1>9. Objects'
  <2> SUFFICES ASSUME NEW h \in Handlers
               PROVE  /\ h <= made' => kind'[h].size \in {"small", "big"}
                      /\ live'[h] = (IF Placed(h)' THEN 1 ELSE 0)
                           + (IF kind'[h].size = "big" /\ calls'[h] = 1 THEN 1 ELSE 0)
    BY DEF Objects
  <2>1. CASE h = n
    BY <1>1, <1>2, <1>3, <1>5, <2>1 DEF Types, Minus
  <2>2. CASE h # n
    <3>1. kind'[h] = kind[h] /\ calls'[h] = calls[h]
      BY <1>1, <1>2, <2>2 DEF Types
    <3>2. live'[h] = IF h = o THEN live[h] - 1 ELSE live[h]
      BY <1>1, <1>2, <2>2 DEF Types, Minus, Handlers
    <3>3. h <= made' => h <= made
      BY <1>1, <1>2, <2>2 DEF Types, Handlers
    <3>4. h = o => live[h] = 1 /\ calls[h] = 0 /\ ~Placed(h)'
      BY <1>1, <1>4, <1>5, <2>2 DEF Objects, Handlers
    <3>5. h # o => (Placed(h)' <=> Placed(h))
      BY <1>5, <2>2
    <3> QED BY <1>1, <3>1, <3>2, <3>3, <3>4, <3>5 DEF Objects
  <2> QED BY <2>1, <2>2
<1>10. Own'
  BY <1>1, <1>2, <1>6, <1>7, <1>8, <1>9 DEF Own, TaskRuns
<1>11. Guarded(o) \in SUBSET Contexts
  BY <1>1, <1>2, <1>4 DEF Types, Guarded
<1>12. /\ io' \in IO
       /\ \A c \in io'.stopped : c \in io.stopped \/ io'.work[c] <= 0
       /\ \A c \in Contexts :
            io'.work[c] = io.work[c] + One(c, k.guards) - One(c, Guarded(o))
  <2> DEFINE a == Work!add(io, k.guards)
             C == Guarded(o)
             b == Work!finish(a, C)
  <2>1. /\ a \in IO /\ a.stopped = io.stopped
        /\ \A c \in Contexts : a.work[c] = io.work[c] + One(c, k.guards)
    BY <1>1, AddWork
  <2>2. io' = b /\ C \in SUBSET Contexts
    BY <1>2, <1>11
  <2> HIDE DEF a, C
  <2>3. /\ b \in IO
        /\ \A c \in b.stopped : c \in a.stopped \/ b.work[c] = 0
        /\ \A c \in Contexts : b.work[c] = a.work[c] - One(c, C)
    BY <2>1, <2>2, FinishWork
  <2> HIDE DEF b
  <2>4. \A c \in Contexts : b.work[c] = io.work[c] + One(c, k.guards) - One(c, C)
    BY <1>1, <2>1, <2>3, OneIsInt DEF IO
  <2>5. \A c \in b.stopped : c \in io.stopped \/ b.work[c] <= 0
    BY <2>1, <2>3
  <2> QED BY <2>2, <2>3, <2>4, <2>5 DEF C
<1>13. ASSUME NEW c \in Contexts
       PROVE  Load(c)' = Load(c) + One(c, k.guards) - One(c, Guarded(o))
  <2>1. Queued(c)' = Queued(c)
    <3>1. \A i \in 1..Len(posted) : posted[i] # n /\ posted[i] \in Handlers
      BY <1>1, <1>3 DEF Placed, InPosted, Types
    <3> QED BY <1>1, <1>2, <3>1 DEF Queued, ForContext, Types
  <2>2. One(c, task)' = One(c, task)
    BY <1>2 DEF One
  <2> DEFINE M == Holding(c) \ {o}
  <2>3. M = {h \in Handlers : Placed(h) /\ h # o /\ c \in kind[h].guards}
    BY DEF Holding
  <2>4. Holding(c)' = {h \in Handlers : Placed(h)' /\ c \in kind'[h].guards}
    BY DEF Holding
  <2>5. n \notin M /\ Holding(c)' = IF c \in k.guards THEN M \cup {n} ELSE M
    BY <1>1, <1>2, <1>3, <1>5, <2>3, <2>4 DEF Types
  <2>6. IsFiniteSet(M) /\ Cardinality(M) \in Nat
        /\ Cardinality(M) = Cardinality(Holding(c)) - One(o, Holding(c))
    BY HoldingFinite, FS_RemoveElement, FS_CardinalityType DEF One
  <2>7. One(o, Holding(c)) = One(c, Guarded(o))
    BY <1>4 DEF One, Holding, Guarded, Handlers
  <2> HIDE DEF M
  <2>8. Cardinality(Holding(c))' = Cardinality(M) + One(c, k.guards)
    <3>1. Cardinality(M \cup {n}) = Cardinality(M) + 1
      BY <2>5, <2>6, FS_AddElement
    <3> HIDE DEF n
    <3> QED BY <2>5, <2>6, <3>1 DEF One
  <2>9. /\ Cardinality(Holding(c)) \in Nat /\ Cardinality(Queued(c)) \in Nat
        /\ One(c, task) \in Int /\ One(c, k.guards) \in Int /\ One(c, Guarded(o)) \in Int
    BY <1>1, HoldingFinite, QueuedFinite, OneIsInt
  <2> QED BY <2>1, <2>2, <2>6, <2>7, <2>8, <2>9 DEF Load
<1>14. \A h \in Handlers : Placed(h)' => kind'[h].guards \cap io.stopped = {}
  BY <1>1, <1>2, <1>5, PlacesMean DEF IInv, GuardsKeepRunning, Types
<1>15. \A c \in Contexts : io'.work[c] - Load(c)' = io.work[c] - Load(c)
  <2> TAKE c \in Contexts
  <2>1. io.work[c] \in Int /\ Load(c) \in Nat
    BY <1>1, LoadIsNat DEF IO
  <2>2. One(c, k.guards) \in Int /\ One(c, Guarded(o)) \in Int
    BY OneIsInt
  <2> HIDE DEF o
  <2> QED BY <1>12, <1>13, <2>1, <2>2
<1> QED BY <1>2, <1>10, <1>12, <1>14, <1>15, Settled

\* A step that destroys what a slot held, with its guards.
LEMMA DropStep ==
    ASSUME IInv, NEW o \in 0..MaxHandlers, o # 0 => InSlot(o),
           held' \in [Slots -> 0..MaxHandlers],
           \A s, t \in Slots : held'[s] # 0 /\ held'[s] = held'[t] => s = t,
           \A h \in Handlers : InSlot(h)' <=> InSlot(h) /\ h # o,
           live' = Minus(live, o), io' = Work!finish(io, Guarded(o)),
           UNCHANGED <<kind, posted, running, calls, made, task, exists, context_>>
    PROVE  IInv'
<1> USE HandlerConstants
<1>1. /\ Own /\ Types /\ Once /\ Staged /\ Objects /\ TaskRuns /\ io \in IO
  BY DEF IInv, Own, GuardsOK
<1>2. o # 0 => o \in Handlers /\ Placed(o) /\ ~InPosted(o) /\ ~InRunning(o) /\ calls[o] = 0
  BY <1>1 DEF Staged, Placed, Handlers
<1>3. ASSUME NEW h \in Handlers
      PROVE  /\ InPosted(h)' <=> InPosted(h)
             /\ InRunning(h)' <=> InRunning(h)
             /\ Placed(h)' <=> Placed(h) /\ h # o
  <2>1. h # 0
    BY DEF Handlers
  <2>2. (InPosted(h)' <=> InPosted(h)) /\ (InRunning(h)' <=> InRunning(h))
    BY DEF InPosted, InRunning
  <2>3. InSlot(h)' <=> InSlot(h) /\ h # o
    OBVIOUS
  <2> QED BY <1>2, <2>1, <2>2, <2>3 DEF Placed
<1>4. live' \in [Handlers -> Int]
      /\ \A h \in Handlers : live'[h] = IF h = o THEN live[h] - 1 ELSE live[h]
  BY <1>1, <1>2 DEF Types, Minus, Handlers
<1>5. Types' /\ Once' /\ TaskRuns'
  BY <1>1, <1>4 DEF Types, Once, TaskRuns
<1>6. Staged'
  BY <1>1, <1>3 DEF Staged
<1>7. Objects'
  <2> SUFFICES ASSUME NEW h \in Handlers
               PROVE  live'[h] = (IF Placed(h)' THEN 1 ELSE 0)
                           + (IF kind[h].size = "big" /\ calls[h] = 1 THEN 1 ELSE 0)
    BY <1>1 DEF Objects
  <2>1. CASE h = o
    <3>1. h # 0 /\ ~Placed(h)' /\ Placed(h) /\ calls[h] = 0
      BY <1>2, <1>3, <2>1 DEF Handlers
    <3> QED BY <1>1, <1>4, <2>1, <3>1 DEF Objects
  <2>2. CASE h # o
    <3>1. Placed(h)' <=> Placed(h)
      BY <1>3, <2>2
    <3> QED BY <1>1, <1>4, <2>2, <3>1 DEF Objects
  <2> QED BY <2>1, <2>2
<1>8. Own'
  BY <1>5, <1>6, <1>7 DEF Own
<1>9. Guarded(o) \in SUBSET Contexts
  BY <1>1, <1>2 DEF Types, Guarded
<1>10. /\ io' \in IO
       /\ \A c \in io'.stopped : c \in io.stopped \/ io'.work[c] <= 0
       /\ \A c \in Contexts : io'.work[c] = io.work[c] - One(c, Guarded(o))
  BY <1>1, <1>9, FinishWork
<1>11. \A c \in Contexts : io'.work[c] - Load(c)' = io.work[c] - Load(c)
  <2> TAKE c \in Contexts
  <2>1. Cardinality(Holding(c))' = Cardinality(Holding(c)) - One(c, Guarded(o))
    BY <1>2, <1>3, Dropped
  <2>2. Queued(c)' = Queued(c) /\ One(c, task)' = One(c, task)
    BY DEF Queued, ForContext, One
  <2>3. /\ io.work[c] \in Int /\ One(c, task) \in Int /\ One(c, Guarded(o)) \in Int
        /\ Cardinality(Holding(c)) \in Nat /\ Cardinality(Queued(c)) \in Nat
    BY <1>1, OneIsInt, HoldingFinite, QueuedFinite DEF IO
  <2> QED BY <1>10, <2>1, <2>2, <2>3 DEF Load
<1>12. \A h \in Handlers : Placed(h)' => kind'[h].guards \cap io.stopped = {}
  BY <1>3, PlacesMean DEF IInv, GuardsKeepRunning
<1> QED BY <1>8, <1>10, <1>11, <1>12, Settled

LEMMA MoveStep ==
    ASSUME IInv, NEW s \in Slots, NEW t \in Slots, move(s, t)
    PROVE  IInv'
<1>1. /\ held \in [Slots -> 0..MaxHandlers] /\ Once
  BY DEF IInv, Own, Types
<1>2. /\ s # t /\ held[s] # 0
      /\ held'[t] = held[s] /\ held'[s] = 0
      /\ \A u \in Slots \ {s, t} : held'[u] = held[u]
      /\ held' \in [Slots -> 0..MaxHandlers]
  BY <1>1, HandlerConstants DEF move
<1>3. \A u, v \in Slots : held'[u] # 0 /\ held'[u] = held'[v] => u = v
  BY <1>1, <1>2 DEF Once
<1>4. \A h \in Handlers : InSlot(h)' <=> InSlot(h) /\ h # held[t]
  <2> TAKE h \in Handlers
  <2>1. h # 0
    BY HandlerConstants DEF Handlers
  <2> QED BY <1>1, <1>2, <2>1 DEF Once, InSlot
<1>5. held[t] \in 0..MaxHandlers /\ InSlot(held[t])
  BY <1>1 DEF InSlot
<1> QED BY <1>2, <1>3, <1>4, <1>5, DropStep DEF move

LEMMA DestroyStep ==
    ASSUME IInv, NEW s \in Slots, destroy(s)
    PROVE  IInv'
<1>1. /\ held \in [Slots -> 0..MaxHandlers] /\ Once
  BY DEF IInv, Own, Types
<1>2. /\ held[s] # 0 /\ held'[s] = 0
      /\ \A u \in Slots \ {s} : held'[u] = held[u]
      /\ held' \in [Slots -> 0..MaxHandlers]
  BY <1>1, HandlerConstants DEF destroy
<1>3. \A u, v \in Slots : held'[u] # 0 /\ held'[u] = held'[v] => u = v
  BY <1>1, <1>2 DEF Once
<1>4. \A h \in Handlers : InSlot(h)' <=> InSlot(h) /\ h # held[s]
  <2> TAKE h \in Handlers
  <2>1. h # 0
    BY HandlerConstants DEF Handlers
  <2> QED BY <1>1, <1>2, <2>1 DEF Once, InSlot
<1>5. held[s] \in 0..MaxHandlers /\ InSlot(held[s])
  BY <1>1 DEF InSlot
<1> QED BY <1>2, <1>3, <1>4, <1>5, DropStep DEF destroy

\* A call that begins moves a handler from where it waited.
LEMMA BeginOwn ==
    ASSUME Own, NEW h \in Handlers, InSlot(h) \/ InPosted(h), Begin(h),
           held' \in [Slots -> 0..MaxHandlers], posted' \in Seq(Handlers),
           \A s, t \in Slots : held'[s] # 0 /\ held'[s] = held'[t] => s = t,
           \A i, j \in 1..Len(posted') : posted'[i] = posted'[j] => i = j,
           \A k \in Handlers : InSlot(k)' <=> InSlot(k) /\ k # h,
           \A k \in Handlers : InPosted(k)' <=> InPosted(k) /\ k # h,
           task' = {} \/ \E e \in Contexts : task' = {e},
           UNCHANGED <<kind, made>>
    PROVE  Own' /\ \A k \in Handlers : Placed(k)' <=> Placed(k)
<1>1. /\ Types /\ Once /\ Staged /\ Objects
      /\ Len(running) \in Nat /\ running \in Seq(Handlers)
  BY DEF Own, Types
<1>2. /\ running' = Append(running, h) /\ running' \in Seq(Handlers)
      /\ Len(running') = Len(running) + 1 /\ running'[Len(running) + 1] = h
      /\ \A i \in 1..Len(running) : running'[i] = running[i]
  BY <1>1, AppendProperties DEF Begin
<1>3. calls[h] = 0 /\ Placed(h) /\ ~InRunning(h) /\ h <= made
  BY <1>1 DEF Staged, Placed
<1>4. ASSUME NEW k \in Handlers
      PROVE  (InRunning(k)' <=> InRunning(k) \/ k = h) /\ (Placed(k)' <=> Placed(k))
  <2>1. InRunning(k)' <=> InRunning(k) \/ k = h
    BY <1>1, <1>2 DEF InRunning
  <2> QED BY <1>3, <2>1 DEF Placed
<1>5. /\ calls' \in [Handlers -> 0..1]
      /\ \A k \in Handlers : calls'[k] = IF k = h THEN 1 ELSE calls[k]
  BY <1>1, <1>3 DEF Begin, Types
<1>6. /\ live' \in [Handlers -> Int]
      /\ \A k \in Handlers : live'[k] =
           IF k = h /\ kind[h].size = "big" THEN live[k] + 1 ELSE live[k]
  <2>1. /\ live \in [Handlers -> Int] /\ Remains(h) \in {0, 1}
        /\ live' = [live EXCEPT ![h] = @ + Remains(h)]
    BY <1>1 DEF Begin, Types, Remains
  <2>2. \A k \in Handlers : live'[k] = IF k = h THEN live[k] + Remains(h) ELSE live[k]
    BY <2>1
  <2> QED BY <2>1, <2>2 DEF Remains
<1>7. Types'
  BY <1>1, <1>2, <1>5, <1>6 DEF Types
<1>8. Once'
  <2>1. \A i \in 1..Len(running) : running[i] # h
    BY <1>3 DEF InRunning
  <2>2. \A i, j \in 1..Len(running') : running'[i] = running'[j] => i = j
    BY <1>1, <1>2, <2>1 DEF Once
  <2> QED BY <2>2 DEF Once
<1>9. Staged'
  <2> SUFFICES ASSUME NEW k \in Handlers
               PROVE  /\ Placed(k)' => k <= made
                      /\ k > made => calls'[k] = 0
                      /\ InSlot(k)' => ~InPosted(k)'
                      /\ InSlot(k)' \/ InPosted(k)' => calls'[k] = 0
                      /\ InRunning(k)' => calls'[k] = 1
    BY DEF Staged
  <2>1. CASE k = h
    <3>1. ~(h > made)
      BY <1>1, <1>3 DEF Types, Handlers
    <3> QED BY <1>3, <1>4, <1>5, <2>1, <3>1
  <2>2. CASE k # h
    BY <1>1, <1>4, <1>5, <2>2 DEF Staged
  <2> QED BY <2>1, <2>2
<1>10. Objects'
  <2> SUFFICES ASSUME NEW k \in Handlers
               PROVE  live'[k] = (IF Placed(k) THEN 1 ELSE 0)
                        + (IF kind[k].size = "big" /\ calls'[k] = 1 THEN 1 ELSE 0)
    BY <1>1, <1>4 DEF Objects
  <2>1. CASE k = h
    <3>1. live[h] = 1 /\ Placed(h)
      BY <1>1, <1>3 DEF Objects
    <3>2. calls'[h] = 1 /\ live'[h] = IF kind[h].size = "big" THEN 2 ELSE 1
      BY <1>5, <1>6, <3>1
    <3> QED BY <2>1, <3>1, <3>2
  <2>2. CASE k # h
    BY <1>1, <1>5, <1>6, <2>2 DEF Objects
  <2> QED BY <2>1, <2>2
<1>11. TaskRuns'
  <2>1. running' # <<>>
    BY <1>1, <1>2
  <2> QED BY <2>1 DEF TaskRuns
<1> QED BY <1>4, <1>7, <1>8, <1>9, <1>10, <1>11 DEF Own

LEMMA InvokeStep ==
    ASSUME IInv, NEW s \in Slots, invoke(s)
    PROVE  IInv'
<1> DEFINE h == held[s]
<1>1. /\ Own /\ Types /\ Once /\ Staged /\ TaskRuns /\ io \in IO
  BY DEF IInv, Own, GuardsOK
<1>2. /\ h \in Handlers /\ InSlot(h) /\ held'[s] = 0
      /\ \A u \in Slots \ {s} : held'[u] = held[u]
      /\ held' \in [Slots -> 0..MaxHandlers]
  BY <1>1, HandlerConstants DEF invoke, Types, Handlers, InSlot
<1>3. \A u, v \in Slots : held'[u] # 0 /\ held'[u] = held'[v] => u = v
  BY <1>1, <1>2 DEF Once
<1>4. \A k \in Handlers : (InSlot(k)' <=> InSlot(k) /\ k # h)
                          /\ (InPosted(k)' <=> InPosted(k) /\ k # h)
  <2> TAKE k \in Handlers
  <2>1. k # 0
    BY HandlerConstants DEF Handlers
  <2>2. InSlot(k)' <=> InSlot(k) /\ k # h
    BY <1>1, <1>2, <2>1 DEF Once, InSlot
  <2>3. InPosted(k)' <=> InPosted(k)
    BY DEF invoke, InPosted
  <2>4. ~InPosted(h)
    BY <1>1, <1>2 DEF Staged
  <2> QED BY <2>2, <2>3, <2>4
<1>5. /\ Begin(h)
      /\ UNCHANGED <<kind, posted, made, task, exists, context_, io>>
  BY DEF invoke
<1>6. /\ posted' \in Seq(Handlers)
      /\ \A i, j \in 1..Len(posted') : posted'[i] = posted'[j] => i = j
      /\ task' = {} \/ \E e \in Contexts : task' = {e}
  BY <1>1, <1>5 DEF Types, Once, TaskRuns
<1> HIDE DEF h
<1>7. Own' /\ \A k \in Handlers : Placed(k)' <=> Placed(k)
  BY <1>1, <1>2, <1>3, <1>4, <1>5, <1>6, BeginOwn
<1>8. \A c : Load(c)' = Load(c)
  <2> SUFFICES ASSUME NEW c PROVE Load(c)' = Load(c)
    OBVIOUS
  <2>1. Holding(c)' = Holding(c)
    BY <1>5, <1>7 DEF Holding
  <2>2. Queued(c)' = Queued(c) /\ One(c, task)' = One(c, task)
    BY <1>5 DEF Queued, ForContext, One
  <2> QED BY <2>1, <2>2 DEF Load
<1>9. \A k \in Handlers : Placed(k)' => kind'[k].guards \cap io.stopped = {}
  BY <1>5, <1>7, PlacesMean DEF IInv, GuardsKeepRunning
<1> QED BY <1>1, <1>5, <1>7, <1>8, <1>9, Settled

LEMMA PostStep ==
    ASSUME IInv, NEW s \in Slots, post_completion(s)
    PROVE  IInv'
<1> DEFINE h == held[s]
           e == kind[h].exec
<1>1. /\ Own /\ Types /\ Once /\ Staged /\ Objects /\ TaskRuns /\ io \in IO
      /\ posted \in Seq(Handlers) /\ Len(posted) \in Nat
  BY DEF IInv, Own, GuardsOK, Types
<1>2. /\ h \in Handlers /\ InSlot(h) /\ held'[s] = 0
      /\ \A u \in Slots \ {s} : held'[u] = held[u]
      /\ held' \in [Slots -> 0..MaxHandlers]
  BY <1>1, HandlerConstants DEF post_completion, Types, Handlers, InSlot
<1>3. /\ posted' = Append(posted, h) /\ io' = Work!add(io, {e}) /\ e \in Contexts
      /\ UNCHANGED <<kind, running, calls, live, made, task, exists, context_>>
  BY <1>1, <1>2 DEF post_completion, Types
<1>4. /\ posted' \in Seq(Handlers)
      /\ Len(posted') = Len(posted) + 1 /\ posted'[Len(posted) + 1] = h
      /\ \A i \in 1..Len(posted) : posted'[i] = posted[i]
  BY <1>1, <1>2, <1>3, AppendProperties
<1> HIDE DEF h, e
<1>5. ~InPosted(h) /\ ~InRunning(h) /\ calls[h] = 0 /\ Placed(h)
  BY <1>1, <1>2 DEF Staged, Placed
<1>6. ASSUME NEW k \in Handlers
      PROVE  /\ InSlot(k)' <=> InSlot(k) /\ k # h
             /\ InPosted(k)' <=> InPosted(k) \/ k = h
             /\ InRunning(k)' <=> InRunning(k)
             /\ Placed(k)' <=> Placed(k)
  <2>1. k # 0
    BY HandlerConstants DEF Handlers
  <2>2. InSlot(k)' <=> InSlot(k) /\ k # h
    BY <1>1, <1>2, <2>1 DEF Once, InSlot, h
  <2>3. InPosted(k)' <=> InPosted(k) \/ k = h
    BY <1>1, <1>4 DEF InPosted
  <2>4. InRunning(k)' <=> InRunning(k)
    BY <1>3 DEF InRunning
  <2> QED BY <1>2, <2>2, <2>3, <2>4 DEF Placed
<1>7. Types'
  BY <1>1, <1>2, <1>3, <1>4 DEF Types
<1>8. Once'
  <2>1. \A u, v \in Slots : held'[u] # 0 /\ held'[u] = held'[v] => u = v
    BY <1>1, <1>2 DEF Once
  <2>2. \A i \in 1..Len(posted) : posted[i] # h
    BY <1>5 DEF InPosted
  <2>3. \A i, j \in 1..Len(posted') : posted'[i] = posted'[j] => i = j
    BY <1>1, <1>4, <2>2 DEF Once
  <2> QED BY <1>1, <1>3, <2>1, <2>3 DEF Once
<1>9. Staged' /\ Objects' /\ TaskRuns'
  <2>1. Staged'
    BY <1>1, <1>3, <1>5, <1>6 DEF Staged
  <2>2. Objects'
    BY <1>1, <1>3, <1>6 DEF Objects
  <2>3. TaskRuns'
    BY <1>1, <1>3 DEF TaskRuns
  <2> QED BY <2>1, <2>2, <2>3
<1>10. Own'
  BY <1>7, <1>8, <1>9 DEF Own
<1>11. /\ io' \in IO /\ io'.stopped = io.stopped
       /\ \A c \in Contexts : io'.work[c] = io.work[c] + One(c, {e})
  BY <1>1, <1>3, AddWork
<1>12. ASSUME NEW c \in Contexts
       PROVE  Load(c)' = Load(c) + One(c, {e})
  <2>1. Holding(c)' = Holding(c) /\ One(c, task)' = One(c, task)
    BY <1>3, <1>6 DEF Holding, One
  <2> DEFINE l == Len(posted) + 1
  <2>2. Queued(c)' = IF c = e THEN Queued(c) \cup {l} ELSE Queued(c)
    BY <1>1, <1>2, <1>3, <1>4 DEF Queued, ForContext, e
  <2>3. l \notin Queued(c)
    BY <1>1 DEF Queued
  <2> HIDE DEF l
  <2>4. Cardinality(Queued(c) \cup {l}) = Cardinality(Queued(c)) + 1
    BY <1>1, <2>3, QueuedFinite, FS_AddElement
  <2>5. Cardinality(Queued(c))' = Cardinality(Queued(c)) + One(c, {e})
    BY <1>1, <2>2, <2>4, QueuedFinite DEF One
  <2>6. /\ Cardinality(Holding(c)) \in Nat /\ Cardinality(Queued(c)) \in Nat
        /\ One(c, task) \in Int /\ One(c, {e}) \in Int
    BY <1>1, HoldingFinite, QueuedFinite, OneIsInt
  <2> QED BY <2>1, <2>5, <2>6 DEF Load
<1>13. \A c \in Contexts : io'.work[c] - Load(c)' = io.work[c] - Load(c)
  <2> TAKE c \in Contexts
  <2> DEFINE x == One(c, {e})
  <2>1. io.work[c] \in Int /\ Load(c) \in Nat /\ x \in Int
    BY <1>1, LoadIsNat, OneIsInt DEF IO
  <2>2. io'.work[c] = io.work[c] + x /\ Load(c)' = Load(c) + x
    BY <1>11, <1>12
  <2> HIDE DEF x
  <2> QED BY <2>1, <2>2
<1>14. \A k \in Handlers : Placed(k)' => kind'[k].guards \cap io.stopped = {}
  BY <1>3, <1>6, PlacesMean DEF IInv, GuardsKeepRunning
<1> QED BY <1>3, <1>10, <1>11, <1>13, <1>14, Settled

LEMMA RunPostedStep ==
    ASSUME IInv, NEW i \in 1..Len(posted), RunPosted(i)
    PROVE  IInv'
<1> DEFINE h == posted[i]
           e == kind[h].exec
<1>1. /\ Own /\ Types /\ Once /\ Staged /\ Objects /\ TaskRuns /\ io \in IO
      /\ posted \in Seq(Handlers) /\ Len(posted) \in Nat
  BY DEF IInv, Own, GuardsOK, Types
<1>2. h \in Handlers /\ InPosted(h) /\ e \in Contexts
  BY <1>1 DEF InPosted, Types
<1>3. /\ posted' = RemoveAt(posted, i) /\ Begin(h) /\ running = <<>> /\ task' = {e}
      /\ UNCHANGED <<held, kind, made, exists, context_, io>>
  BY DEF RunPosted
<1>4. /\ posted' \in Seq(Handlers) /\ Len(posted') = Len(posted) - 1
      /\ \A j \in 1..Len(posted') : posted'[j] = IF j < i THEN posted[j] ELSE posted[j + 1]
  <2> DEFINE r == RemoveAt(posted, i)
  <2>1. /\ r \in Seq(Handlers) /\ Len(r) = Len(posted) - 1
        /\ \A j \in 1..Len(r) : r[j] = IF j < i THEN posted[j] ELSE posted[j + 1]
    BY <1>1, Removal
  <2> HIDE DEF r
  <2> QED BY <1>3, <2>1 DEF r
<1>5. \A j, k \in 1..Len(posted') : posted'[j] = posted'[k] => j = k
  <2> DEFINE m(j) == IF j < i THEN j ELSE j + 1
  <2>1. \A j \in 1..Len(posted') : m(j) \in 1..Len(posted) /\ posted'[j] = posted[m(j)]
    BY <1>1, <1>4
  <2>2. \A j, k \in 1..Len(posted') : m(j) = m(k) => j = k
    BY <1>1, <1>4
  <2> HIDE DEF m
  <2> QED BY <1>1, <2>1, <2>2 DEF Once
<1>6. \A k \in Handlers : (InSlot(k)' <=> InSlot(k) /\ k # h)
                          /\ (InPosted(k)' <=> InPosted(k) /\ k # h)
  <2> TAKE k \in Handlers
  <2>1. (InSlot(k)' <=> InSlot(k)) /\ ~InSlot(h)
    BY <1>1, <1>2, <1>3 DEF InSlot, Staged
  <2>2. InPosted(k)' => InPosted(k) /\ k # h
    BY <1>1, <1>4 DEF InPosted, Once
  <2>3. ASSUME NEW j \in 1..Len(posted), posted[j] = k, k # h PROVE InPosted(k)'
    <3>1. CASE j < i
      BY <1>1, <1>4, <2>3, <3>1 DEF InPosted
    <3>2. CASE j > i
      <4>1. j - 1 \in 1..Len(posted') /\ posted'[j - 1] = k
        BY <1>1, <1>4, <2>3, <3>2
      <4> QED BY <4>1 DEF InPosted
    <3> QED BY <2>3, <3>1, <3>2
  <2> QED BY <2>1, <2>2, <2>3 DEF InPosted
<1>7. /\ task' = {} \/ \E d \in Contexts : task' = {d}
      /\ held' \in [Slots -> 0..MaxHandlers]
      /\ \A s, t \in Slots : held'[s] # 0 /\ held'[s] = held'[t] => s = t
  BY <1>1, <1>2, <1>3 DEF Types, Once
<1> HIDE DEF h, e
<1>8. Own' /\ \A k \in Handlers : Placed(k)' <=> Placed(k)
  BY <1>1, <1>2, <1>3, <1>4, <1>5, <1>6, <1>7, BeginOwn
<1>9. ASSUME NEW c \in Contexts
      PROVE  Load(c)' = Load(c)
  <2>1. Holding(c)' = Holding(c)
    BY <1>3, <1>8 DEF Holding
  <2>2. task = {}
    BY <1>1, <1>3 DEF TaskRuns
  <2>3. One(c, task) = 0 /\ One(c, task)' = One(h, ForContext(c))
    BY <1>2, <1>3, <2>2 DEF One, ForContext, e
  <2>4. ForContext(c)' = ForContext(c)
    BY <1>3 DEF ForContext
  <2>5. /\ Cardinality(Queued(c))' = Cardinality(Queued(c)) - One(h, ForContext(c))
        /\ Cardinality(Queued(c)) \in Nat
    <3> DEFINE P == ForContext(c)
               r == RemoveAt(posted, i)
               I == {j \in 1..Len(posted) : posted[j] \in P}
               J == {j \in 1..Len(r) : r[j] \in P}
    <3>1. Queued(c) = I /\ Queued(c)' = J
      BY <1>3, <2>4 DEF Queued
    <3>2. Cardinality(J) = Cardinality(I) - One(posted[i], P) /\ Cardinality(I) \in Nat
      <4> HIDE DEF P
      <4> QED BY <1>1, RemovalCounts
    <3> QED BY <3>1, <3>2 DEF h
  <2>6. Cardinality(Holding(c)) \in Nat /\ One(h, ForContext(c)) \in Int
    BY HoldingFinite, OneIsInt
  <2> QED BY <2>1, <2>3, <2>5, <2>6 DEF Load
<1>10. \A k \in Handlers : Placed(k)' => kind'[k].guards \cap io.stopped = {}
  BY <1>3, <1>8, PlacesMean DEF IInv, GuardsKeepRunning
<1>11. \A c \in Contexts : io'.work[c] - Load(c)' = io.work[c] - Load(c)
  BY <1>3, <1>9
<1> QED BY <1>1, <1>3, <1>8, <1>10, <1>11, Settled

LEMMA ReturnStep ==
    ASSUME IInv, Return
    PROVE  IInv'
<1> DEFINE l == Len(running)
           h == running[l]
           last == IF l = 1 THEN task ELSE {}
<1>1. /\ Own /\ Types /\ Once /\ Staged /\ Objects /\ TaskRuns /\ io \in IO
      /\ running \in Seq(Handlers) /\ l \in Nat
  BY DEF IInv, Own, GuardsOK, Types
<1>2. /\ running # <<>> /\ l \in 1..Len(running) /\ h \in Handlers
  BY <1>1 DEF Return
<1>3. /\ live' = Minus(live, h) /\ task' = task \ last
      /\ io' = Work!finish(Work!finish(io, Guarded(h)), last)
      /\ running' = SubSeq(running, 1, l - 1)
      /\ UNCHANGED <<held, kind, posted, calls, made, exists, context_>>
  BY DEF Return
<1>4. /\ running' \in Seq(Handlers) /\ Len(running') = l - 1
      /\ \A j \in 1..(l - 1) : running'[j] = running[j]
  <2>1. /\ SubSeq(running, 1, l - 1) \in Seq(Handlers)
        /\ Len(SubSeq(running, 1, l - 1)) = l - 1
        /\ \A j \in 1..(l - 1) : SubSeq(running, 1, l - 1)[j] = running[j]
    BY <1>1, <1>2, Shorter
  <2> QED BY <1>3, <2>1
<1>5. h # 0 /\ InRunning(h) /\ Placed(h) /\ calls[h] = 1 /\ ~InSlot(h) /\ ~InPosted(h)
  <2>1. InRunning(h)
    BY <1>2 DEF InRunning
  <2>2. calls[h] = 1
    BY <1>1, <1>2, <2>1 DEF Staged
  <2> QED BY <1>1, <1>2, <2>1, <2>2, HandlerConstants DEF Staged, Placed, Handlers
<1>6. ASSUME NEW k \in Handlers
      PROVE  /\ InSlot(k)' <=> InSlot(k)
             /\ InPosted(k)' <=> InPosted(k)
             /\ InRunning(k)' <=> InRunning(k) /\ k # h
             /\ Placed(k)' <=> Placed(k) /\ k # h
  <2>1. InRunning(k)' => InRunning(k) /\ k # h
    BY <1>1, <1>2, <1>4 DEF InRunning, Once
  <2>2. InRunning(k) /\ k # h => InRunning(k)'
    BY <1>1, <1>2, <1>4 DEF InRunning
  <2>3. (InSlot(k)' <=> InSlot(k)) /\ (InPosted(k)' <=> InPosted(k))
    BY <1>3 DEF InSlot, InPosted
  <2> HIDE DEF h
  <2> QED BY <1>5, <2>1, <2>2, <2>3 DEF Placed
<1>7. /\ live' \in [Handlers -> Int]
      /\ \A k \in Handlers : live'[k] = IF k = h THEN live[k] - 1 ELSE live[k]
  BY <1>1, <1>2, <1>3, <1>5 DEF Types, Minus
<1>8. task' = {} \/ (l # 1 /\ task' = task)
  BY <1>3
<1> HIDE DEF h
<1>9. Own'
  <2>1. Types'
    BY <1>1, <1>3, <1>4, <1>7, <1>8 DEF Types
  <2>2. Once'
    BY <1>1, <1>3, <1>4 DEF Once
  <2>3. Staged'
    BY <1>1, <1>3, <1>6 DEF Staged
  <2>4. Objects'
    <3> SUFFICES ASSUME NEW k \in Handlers
                 PROVE  live'[k] = (IF Placed(k)' THEN 1 ELSE 0)
                          + (IF kind[k].size = "big" /\ calls[k] = 1 THEN 1 ELSE 0)
      BY <1>1, <1>3 DEF Objects
    <3>1. CASE k = h
      BY <1>1, <1>5, <1>6, <1>7, <3>1 DEF Objects
    <3>2. CASE k # h
      BY <1>1, <1>6, <1>7, <3>2 DEF Objects
    <3> QED BY <3>1, <3>2
  <2>5. TaskRuns'
    <3>1. l # 1 => running' # <<>>
      BY <1>1, <1>2, <1>4
    <3> QED BY <1>1, <1>8, <3>1 DEF TaskRuns
  <2> QED BY <2>1, <2>2, <2>3, <2>4, <2>5 DEF Own
<1>10. Guarded(h) \in SUBSET Contexts /\ last \in SUBSET Contexts
  BY <1>1, <1>2, <1>5 DEF Types, Guarded
<1> DEFINE a == Work!finish(io, Guarded(h))
           b == Work!finish(a, last)
<1>11. /\ a \in IO
       /\ \A c \in a.stopped : c \in io.stopped \/ a.work[c] = 0
       /\ \A c \in Contexts : a.work[c] = io.work[c] - One(c, Guarded(h))
  BY <1>1, <1>10, FinishWork
<1>12. io' = b
  BY <1>3
<1> HIDE DEF a, last
<1>13. /\ b \in IO
       /\ \A c \in b.stopped : c \in a.stopped \/ b.work[c] = 0
       /\ \A c \in Contexts : b.work[c] = a.work[c] - One(c, last)
  BY <1>10, <1>11, FinishWork
<1> HIDE DEF b
<1>14. \A c \in io'.stopped : c \in io.stopped \/ io'.work[c] <= 0
  <2> SUFFICES ASSUME NEW c \in b.stopped, c \notin io.stopped PROVE b.work[c] <= 0
    BY <1>12
  <2>1. c \in Contexts
    BY <1>13 DEF IO
  <2>2. One(c, last) \in 0..1
    BY DEF One
  <2>3. b.work[c] = a.work[c] - One(c, last)
    BY <1>13, <2>1
  <2>4. a.work[c] = 0 \/ b.work[c] = 0
    BY <1>11, <1>13
  <2> QED BY <2>2, <2>3, <2>4
<1>15. \A c \in Contexts : io'.work[c] - Load(c)' = io.work[c] - Load(c)
  <2> TAKE c \in Contexts
  <2>1. Cardinality(Holding(c))' = Cardinality(Holding(c)) - One(c, Guarded(h))
    BY <1>2, <1>3, <1>5, <1>6, Dropped DEF Handlers
  <2>2. Queued(c)' = Queued(c)
    BY <1>3 DEF Queued, ForContext
  <2>3. One(c, task)' = One(c, task) - One(c, last)
    BY <1>3 DEF One, last
  <2>4. io'.work[c] = (io.work[c] - One(c, Guarded(h))) - One(c, last)
    BY <1>11, <1>12, <1>13
  <2>5. /\ io.work[c] \in Int /\ One(c, task) \in Int /\ One(c, Guarded(h)) \in Int
        /\ One(c, last) \in Int
        /\ Cardinality(Holding(c)) \in Nat /\ Cardinality(Queued(c)) \in Nat
    BY <1>1, OneIsInt, HoldingFinite, QueuedFinite DEF IO
  <2> QED BY <2>1, <2>2, <2>3, <2>4, <2>5 DEF Load
<1>16. \A k \in Handlers : Placed(k)' => kind'[k].guards \cap io.stopped = {}
  BY <1>3, <1>6, PlacesMean DEF IInv, GuardsKeepRunning
<1> QED BY <1>3, <1>9, <1>12, <1>13, <1>14, <1>15, <1>16, Settled

\* Guards of others: the load is as it was, and a context they stop had none.
LEMMA FreeGuardStep ==
    ASSUME IInv, FreeGuard
    PROVE  IInv'
<1>1. /\ Own /\ Types /\ GuardsOK /\ UNCHANGED slotVars
  BY DEF IInv, Own, FreeGuard
<1>2. Good
  BY <1>1, GuardsCounted DEF FreeGuard
<1>3. Own'
  BY <1>1 DEF slotVars, Own, Types, Once, Staged, Objects, TaskRuns, Placed, InSlot,
      InPosted, InRunning
<1>4. \A c : Load(c)' = Load(c) /\ Holding(c)' = Holding(c)
  BY <1>1 DEF slotVars, Load, Holding, Queued, ForContext, One, Placed, InSlot,
      InPosted, InRunning
<1>5. \A c \in Contexts : io.work[c] = Cardinality(Holders(context_, c)) + Load(c)
  BY <1>1, CountMeans DEF IInv
<1>6. \A c \in Contexts :
        /\ io.work[c] \in Int /\ io'.work[c] \in Int /\ Load(c) \in Nat
        /\ Cardinality(Holders(context_, c)) \in Nat
        /\ Cardinality(Holders(context_', c)) \in Nat
  BY <1>1, <1>2, LoadIsNat, Counts DEF Good, GuardsOK, IO
<1>7. \A c \in Contexts : io'.work[c] = Cardinality(Holders(context_', c)) + Load(c)
  BY <1>2, <1>5, <1>6 DEF Good
<1>8. CountExact'
  <2>1. (Types => (CountExact <=> \A c \in Contexts :
            io.work[c] = Cardinality(Holders(context_, c)) + Load(c)))'
    BY CountMeans, PTL
  <2>2. Types' /\ Holders(context_, {})' = Holders(context_', {})
    BY <1>3 DEF Own, Holders
  <2> QED BY <1>4, <1>7, <2>1, <2>2 DEF Holders
<1>9. ASSUME NEW c \in io'.stopped, c \notin io.stopped
      PROVE  /\ \A g \in FreeGuards : c \notin context_'[g]
             /\ \A h \in Handlers : Placed(h) => c \notin kind[h].guards
  <2>1. c \in Contexts /\ io'.work[c] = 0
    BY <1>2, <1>9 DEF Good, GuardsOK, IO
  <2>2. Cardinality(Holders(context_', c)) = 0 /\ Load(c) = 0
    BY <1>6, <1>7, <2>1
  <2>3. Cardinality(Holding(c)) = 0
    BY <1>1, <2>2, LoadIsNat
  <2> QED BY <2>2, <2>3, Counts, NoneHolds
<1>10. GuardsKeepRunning'
  <2>1. \A g \in FreeGuards : context_'[g] \cap io'.stopped = {}
    BY <1>2, <1>9 DEF Good, IInv, GuardsKeepRunning, Work!GuardedRuns
  <2>2. \A h \in Handlers : Placed(h) => kind[h].guards \cap io'.stopped = {}
    BY <1>9, PlacesMean DEF IInv, GuardsKeepRunning
  <2>3. kind' = kind /\ \A h : Places(h)' = Places(h)
    BY <1>1 DEF slotVars, Places
  <2> QED BY <2>1, <2>2, <2>3, PlacesMean DEF GuardsKeepRunning, Work!GuardedRuns
<1> QED BY <1>2, <1>3, <1>8, <1>10 DEF IInv, Good

LEMMA NextHolds == IInv /\ [Next]_vars => IInv'
<1> SUFFICES ASSUME IInv, [Next]_vars PROVE IInv'
  OBVIOUS
<1>1. ASSUME NEW s \in Slots, Plain(s) PROVE IInv'
  <2> PICK z \in Sizes : assign(s, [size |-> z, exec |-> Default, guards |-> {}])
    BY <1>1 DEF Plain
  <2> DEFINE k == [size |-> z, exec |-> Default, guards |-> {}]
  <2>1. /\ k \in [size : {"small", "big"}, exec : Contexts, guards : SUBSET Contexts]
        /\ k.guards \cap io.stopped = {}
    BY HandlerConstants
  <2>2. assign(s, k)
    OBVIOUS
  <2> HIDE DEF k
  <2> QED BY <2>1, <2>2, AssignStep
<1>2. ASSUME NEW s \in Slots, NEW e \in Contexts, emplace_with_guards(s, e) PROVE IInv'
  <2> PICK z \in Sizes : assign(s, [size |-> z, exec |-> e, guards |-> {e, Default}])
    BY <1>2 DEF emplace_with_guards
  <2> DEFINE k == [size |-> z, exec |-> e, guards |-> {e, Default}]
  <2>1. /\ k \in [size : {"small", "big"}, exec : Contexts, guards : SUBSET Contexts]
        /\ k.guards \cap io.stopped = {}
    BY <1>2, HandlerConstants DEF emplace_with_guards
  <2>2. assign(s, k)
    OBVIOUS
  <2> HIDE DEF k
  <2> QED BY <2>1, <2>2, AssignStep
<1>3. CASE UNCHANGED vars
  <2>1. GuardsOK' /\ Own'
    BY <1>3 DEF vars, slotVars, IInv, GuardsOK, Own, Types, Once, Staged, Objects,
        TaskRuns, Placed, InSlot, InPosted, InRunning
  <2>2. CountExact' /\ GuardsKeepRunning'
    BY <1>3 DEF vars, slotVars, IInv, CountExact, Work!CountExact, Tasks, Places,
        GuardsKeepRunning, Work!GuardedRuns
  <2> QED BY <2>1, <2>2 DEF IInv
<1> QED BY <1>1, <1>2, <1>3, MoveStep, DestroyStep, InvokeStep, PostStep, ReturnStep,
           RunPostedStep, FreeGuardStep DEF Next

\* The variables have their types: no handler is called more than once, and none has
\* more than two objects.
THEOREM TypeCorrect == Spec => []TypeOK
<1>1. IInv => TypeOK
  BY OwnMeans DEF IInv
<1> QED BY InitHolds, NextHolds, <1>1, PTL DEF Spec

\* However slots are assigned, moved, posted and invoked, also by a handler's own
\* body, every handler is in one place at most, and none that was called is in a slot
\* or a queue.
THEOREM HandlersInOnePlace == Spec => []OnePlace
<1>1. IInv => OnePlace
  BY OwnMeans DEF IInv
<1> QED BY InitHolds, NextHolds, <1>1, PTL DEF Spec

\* The objects of a handler are destroyed exactly as often as constructed once it is
\* gone, but for the one on the heap of a big handler that was called.
THEOREM ObjectsReleasedOnce == Spec => []ObjectsBalanced
<1>1. IInv => ObjectsBalanced
  BY OwnMeans DEF IInv
<1> QED BY InitHolds, NextHolds, <1>1, PTL DEF Spec

\* The work of every context is the guards of its handlers, wherever they are, its
\* completions and the free guards.
THEOREM ContextsCountWork == Spec => []CountExact
<1>1. IInv => CountExact
  BY DEF IInv
<1> QED BY InitHolds, NextHolds, <1>1, PTL DEF Spec

\* No context that a handler's guards count for stops while the handler is anywhere.
THEOREM GuardedHandlersRun == Spec => []GuardsKeepRunning
<1>1. IInv => GuardsKeepRunning
  BY DEF IInv
<1> QED BY InitHolds, NextHolds, <1>1, PTL DEF Spec
=============================================================================
