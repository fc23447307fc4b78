-------------------------- MODULE RequestMapProofs --------------------------
(***************************************************************************)
(* request_map for any number of requests and of keys: the handler of      *)
(* every request is in one place, and private requests go out in the order *)
(* of their calls.  Both need more than they say.  Counting handlers is    *)
(* inductive only as a partition: the places are disjoint, no two keys or  *)
(* completions hold the same request, and together they hold every request *)
(* (Apart).  The order needs that no private request is issued before the  *)
(* authentication and none is held back after it (Ordered).  That handlers *)
(* are lost in two ways only and that responses match needs that an entry  *)
(* of the map is that of a request whose id has its key (Keyed).           *)
(***************************************************************************)
EXTENDS RequestMap, FiniteSetTheorems, WellFoundedInduction, TLAPS

Elems(s) == {s[i] : i \in 1..Len(s)}

Apart ==
    /\ \A k, l \in DOMAIN outstanding_ : outstanding_[k] = outstanding_[l] => k = l
    /\ \A r, s \in completed : r.req = s.req => r = s
    /\ Held \cap (InFlight \cup Answered \cup lost) = {}
    /\ InFlight \cap (Answered \cup lost) = {}
    /\ Answered \cap lost = {}
    /\ Held \cup InFlight \cup Answered \cup lost = 1..requests

Ordered ==
    /\ \A i, j \in 1..Len(pending_) : i < j => pending_[i] < pending_[j]
    /\ Held \subseteq private
    /\ private \subseteq 1..requests
    /\ \A i \in 1..Len(issued) : issued[i] <= requests
    /\ \A i, j \in 1..Len(issued) :
         i < j /\ {issued[i], issued[j]} \subseteq private => issued[i] < issued[j]
    /\ auth_state_ = "not_authenticated" =>
         \A i \in 1..Len(issued) : issued[i] \notin private
    /\ auth_state_ = "authenticated" => Held = {}

IInv == TypeOK /\ Apart /\ Ordered

-----------------------------------------------------------------------------
(* Sequences by their lengths and elements.                                *)

LEMMA EmptySeq == Len(<<>>) = 0 /\ DOMAIN <<>> = {} /\ \A S : <<>> \in Seq(S)
OBVIOUS

LEMMA OneSeq ==
    ASSUME NEW S, NEW x \in S
    PROVE  <<x>> \in Seq(S) /\ Len(<<x>>) = 1 /\ <<x>>[1] = x
OBVIOUS

LEMMA AppendSeq ==
    ASSUME NEW S, NEW s \in Seq(S), NEW x \in S
    PROVE  /\ Append(s, x) \in Seq(S) /\ Len(s) \in Nat
           /\ Len(Append(s, x)) = Len(s) + 1
           /\ Append(s, x)[Len(s) + 1] = x
           /\ \A i \in 1..Len(s) : Append(s, x)[i] = s[i]
OBVIOUS

LEMMA ConcatSeq ==
    ASSUME NEW S, NEW s \in Seq(S), NEW t \in Seq(S)
    PROVE  /\ s \o t \in Seq(S) /\ Len(s) \in Nat /\ Len(t) \in Nat
           /\ Len(s \o t) = Len(s) + Len(t)
           /\ \A i \in 1..Len(s) : (s \o t)[i] = s[i]
           /\ \A i \in 1..Len(t) : (s \o t)[Len(s) + i] = t[i]
OBVIOUS

LEMMA FrontSeq ==
    ASSUME NEW S, NEW s \in Seq(S), NEW n \in 0..Len(s)
    PROVE  /\ SubSeq(s, 1, n) \in Seq(S) /\ Len(SubSeq(s, 1, n)) = n
           /\ Len(s) \in Nat
           /\ \A i \in 1..n : SubSeq(s, 1, n)[i] = s[i]
OBVIOUS

\* What is appended to a sequence joins its elements.
LEMMA AppendElems ==
    ASSUME NEW S, NEW s \in Seq(S), NEW x \in S
    PROVE  Elems(Append(s, x)) = Elems(s) \cup {x}
<1>1. 1..Len(Append(s, x)) = 1..Len(s) \cup {Len(s) + 1}
  BY AppendSeq
<1> QED BY <1>1, AppendSeq DEF Elems

LEMMA HeldIsElems == Held = Elems(pending_)
BY DEF Held, Elems

-----------------------------------------------------------------------------
(* Issuing requests.                                                       *)

LEMMA KeyInRange == \A id \in Nat : Key(id) \in 0..(KeyModulus - 1)
BY RequestConstants DEF Key

\* What is stored for the requests qs: each that emplace() takes under a key of its
\* own, and those stored before keep their keys.
LEMMA IssueStores ==
    ASSUME TypeOK, NEW qs \in Seq(Requests), NEW dropped, Issue(qs, dropped)
    PROVE  /\ issued' = issued \o qs
           /\ lost' = lost \cup dropped \cup {qs[i] : i \in (1..Len(qs)) \ Stored(qs)}
           /\ Stored(qs) \subseteq 1..Len(qs) /\ Len(qs) \in Nat /\ current_id_ \in Nat
           /\ \A i, j \in Stored(qs) : Key(current_id_ + i) = Key(current_id_ + j) => i = j
           /\ DOMAIN outstanding_' =
                DOMAIN outstanding_ \cup {Key(current_id_ + i) : i \in Stored(qs)}
           /\ \A k \in DOMAIN outstanding_ : outstanding_'[k] = outstanding_[k]
           /\ \A i \in Stored(qs) : outstanding_'[Key(current_id_ + i)] = qs[i]
<1> DEFINE keyed(k) == {i \in Stored(qs) : Key(current_id_ + i) = k}
           new      == {Key(current_id_ + i) : i \in Stored(qs)}
<1>1. /\ issued' = issued \o qs
      /\ outstanding_' =
           [k \in DOMAIN outstanding_ \cup new |->
              IF k \in DOMAIN outstanding_ THEN outstanding_[k]
                                           ELSE qs[CHOOSE i \in keyed(k) : TRUE]]
      /\ lost' = lost \cup dropped \cup {qs[i] : i \in (1..Len(qs)) \ Stored(qs)}
  BY DEF Issue
<1>2. Stored(qs) \subseteq 1..Len(qs) /\ Len(qs) \in Nat /\ current_id_ \in Nat
  BY DEF Stored, TypeOK, current_id_
\* No two requests are stored under one key, nor one under a key in use.
<1>3. \A i \in Stored(qs) : Key(current_id_ + i) \notin DOMAIN outstanding_
  BY DEF Stored
<1>4. ASSUME NEW i \in Stored(qs), NEW j \in Stored(qs),
             Key(current_id_ + i) = Key(current_id_ + j)
      PROVE  i = j
  <2>1. ~ (j < i) /\ ~ (i < j)
    BY <1>2, <1>4 DEF Stored
  <2> QED BY <1>2, <2>1
<1>5. ASSUME NEW i \in Stored(qs)
      PROVE  outstanding_'[Key(current_id_ + i)] = qs[i]
  <2>1. i \in keyed(Key(current_id_ + i)) /\ Key(current_id_ + i) \in new
    OBVIOUS
  <2>2. (CHOOSE n \in keyed(Key(current_id_ + i)) : TRUE) \in keyed(Key(current_id_ + i))
    BY <2>1
  <2>3. (CHOOSE n \in keyed(Key(current_id_ + i)) : TRUE) = i
    BY <1>4, <2>2
  <2> QED BY <1>1, <1>3, <2>1, <2>3
<1>6. /\ DOMAIN outstanding_' = DOMAIN outstanding_ \cup new
      /\ \A k \in DOMAIN outstanding_ : outstanding_'[k] = outstanding_[k]
  BY <1>1
<1> QED BY <1>1, <1>2, <1>4, <1>5, <1>6

\* Requests that are issued once are in flight or destroyed.
LEMMA IssueHolds ==
    ASSUME TypeOK, Apart, NEW qs \in Seq(Requests), NEW dropped \in SUBSET Requests,
           \A i, j \in 1..Len(qs) : qs[i] = qs[j] => i = j,
           Elems(qs) \cap dropped = {},
           (Elems(qs) \cup dropped) \cap (InFlight \cup lost) = {},
           Issue(qs, dropped)
    PROVE  /\ issued' = issued \o qs
           /\ DOMAIN outstanding_' \subseteq 0..(KeyModulus - 1)
           /\ \A k, l \in DOMAIN outstanding_' :
                outstanding_'[k] = outstanding_'[l] => k = l
           /\ InFlight' \cap lost' = {}
           /\ InFlight' \cup lost' = InFlight \cup lost \cup dropped \cup Elems(qs)
<1> DEFINE new == {Key(current_id_ + i) : i \in Stored(qs)}
<1>1. /\ issued' = issued \o qs
      /\ lost' = lost \cup dropped \cup {qs[i] : i \in (1..Len(qs)) \ Stored(qs)}
  BY IssueStores
<1>2. Stored(qs) \subseteq 1..Len(qs) /\ Len(qs) \in Nat /\ current_id_ \in Nat
  BY IssueStores
<1>3. \A i \in Stored(qs) : /\ Key(current_id_ + i) \in DOMAIN outstanding_'
                            /\ outstanding_'[Key(current_id_ + i)] = qs[i]
  <2>1. /\ DOMAIN outstanding_' = DOMAIN outstanding_ \cup new
        /\ \A i \in Stored(qs) : outstanding_'[Key(current_id_ + i)] = qs[i]
    BY IssueStores
  <2> QED BY <2>1
<1>4. /\ DOMAIN outstanding_' = DOMAIN outstanding_ \cup new
      /\ \A k \in DOMAIN outstanding_ : outstanding_'[k] = outstanding_[k]
  BY IssueStores
<1>5. \A k \in new : \E i \in Stored(qs) : k = Key(current_id_ + i)
                                           /\ outstanding_'[k] = qs[i]
  BY <1>3
<1> HIDE DEF new
<1>6. DOMAIN outstanding_' \subseteq 0..(KeyModulus - 1)
  <2>1. new \subseteq 0..(KeyModulus - 1)
    BY <1>2, <1>5, KeyInRange
  <2> QED BY <1>4, <2>1 DEF TypeOK
<1>7. \A i \in Stored(qs) : qs[i] \notin InFlight
  BY <1>2 DEF Elems
<1>8. ASSUME NEW k \in DOMAIN outstanding_', NEW l \in DOMAIN outstanding_',
              outstanding_'[k] = outstanding_'[l]
       PROVE  k = l
  <2>1. CASE k \in DOMAIN outstanding_ /\ l \in DOMAIN outstanding_
    BY <1>4, <1>8, <2>1 DEF Apart
  <2>2. CASE k \in DOMAIN outstanding_ /\ l \in new
    BY <1>4, <1>5, <1>7, <1>8, <2>2 DEF InFlight
  <2>3. CASE k \in new /\ l \in DOMAIN outstanding_
    BY <1>4, <1>5, <1>7, <1>8, <2>3 DEF InFlight
  <2>4. CASE k \in new /\ l \in new
    <3>1. PICK i \in Stored(qs) : k = Key(current_id_ + i) /\ outstanding_'[k] = qs[i]
      BY <1>5, <2>4
    <3>2. PICK j \in Stored(qs) : l = Key(current_id_ + j) /\ outstanding_'[l] = qs[j]
      BY <1>5, <2>4
    <3>3. i = j
      BY <1>2, <1>8, <3>1, <3>2
    <3> QED BY <3>1, <3>2, <3>3
  <2> QED BY <1>4, <2>1, <2>2, <2>3, <2>4
<1>9. InFlight' = InFlight \cup {qs[i] : i \in Stored(qs)}
  <2>1. ASSUME NEW q \in InFlight' PROVE q \in InFlight \cup {qs[i] : i \in Stored(qs)}
    BY <1>4, <1>5 DEF InFlight
  <2>2. InFlight \subseteq InFlight'
    BY <1>4 DEF InFlight
  <2>3. {qs[i] : i \in Stored(qs)} \subseteq InFlight'
    BY <1>3 DEF InFlight
  <2> QED BY <2>1, <2>2, <2>3
<1>10. InFlight' \cap lost' = {}
  <2>1. \A i \in Stored(qs) : qs[i] \notin {qs[j] : j \in (1..Len(qs)) \ Stored(qs)}
    BY <1>2
  <2>2. {qs[i] : i \in Stored(qs)} \subseteq Elems(qs)
    BY <1>2 DEF Elems
  <2>3. {qs[j] : j \in (1..Len(qs)) \ Stored(qs)} \subseteq Elems(qs)
    BY DEF Elems
  <2>4. InFlight \cap lost = {}
    BY DEF Apart
  <2> DEFINE S == {qs[i] : i \in Stored(qs)}
             R == {qs[j] : j \in (1..Len(qs)) \ Stored(qs)}
  <2>5. InFlight' = InFlight \cup S /\ lost' = lost \cup dropped \cup R /\ S \cap R = {}
    BY <1>1, <1>9, <2>1
  <2>6. S \subseteq Elems(qs) /\ R \subseteq Elems(qs)
    BY <2>2, <2>3
  <2> HIDE DEF S, R
  <2> QED BY <2>4, <2>5, <2>6
<1>11. InFlight' \cup lost' = InFlight \cup lost \cup dropped \cup Elems(qs)
  <2>1. Elems(qs) = {qs[i] : i \in Stored(qs)} \cup {qs[j] : j \in (1..Len(qs)) \ Stored(qs)}
    BY <1>2 DEF Elems
  <2> QED BY <1>1, <1>9, <2>1
<1> QED BY <1>1, <1>6, <1>8, <1>10, <1>11

-----------------------------------------------------------------------------
(* The invariant.                                                          *)

\* Every place holds requests only.
LEMMA PlacesAreRequests ==
    ASSUME TypeOK
    PROVE  /\ Held \subseteq Requests /\ InFlight \subseteq Requests
           /\ Answered \subseteq Requests /\ lost \subseteq Requests
           /\ Len(pending_) \in Nat /\ Len(issued) \in Nat /\ requests \in Nat
<1>1. \A i \in 1..Len(pending_) : pending_[i] \in Requests
  BY DEF TypeOK
<1>2. \A r \in completed : r.req \in Requests
  BY DEF TypeOK
<1> QED BY <1>1, <1>2, RequestConstants DEF TypeOK, Held, InFlight, Answered

LEMMA InitHolds == Init => IInv
<1> SUFFICES ASSUME Init PROVE IInv
  OBVIOUS
<1>1. /\ pending_ = <<>> /\ outstanding_ = <<>> /\ issued = <<>>
      /\ private = {} /\ completed = {} /\ lost = {} /\ requests = 0
      /\ auth_state_ = "not_authenticated" /\ threw = FALSE
  BY DEF Init
<1>2. Len(pending_) = 0 /\ Len(issued) = 0 /\ DOMAIN outstanding_ = {}
  BY <1>1, EmptySeq
<1>3. Held = {} /\ InFlight = {} /\ Answered = {}
  BY <1>1, <1>2 DEF Held, InFlight, Answered
<1>4. pending_ \in Seq(Requests) /\ issued \in Seq(Requests)
  BY <1>1, EmptySeq
<1>5. TypeOK
  <2>1. /\ auth_state_ = "not_authenticated" /\ private = {} /\ completed = {}
        /\ lost = {} /\ requests = 0 /\ threw = FALSE
    BY <1>1
  <2>2. /\ DOMAIN outstanding_ \subseteq 0..(KeyModulus - 1)
        /\ \A k \in DOMAIN outstanding_ : outstanding_[k] \in Requests
    BY <1>2
  <2>3. requests \in 0..MaxRequests
    <3>1. requests = 0
      BY <1>1
    <3> QED BY <3>1, RequestConstants
  <2>4. /\ private \subseteq Requests /\ lost \subseteq Requests
        /\ completed \subseteq [req : Requests, res : Outcomes]
    BY <2>1
  <2> QED BY <1>4, <2>1, <2>2, <2>3, <2>4 DEF TypeOK
<1>6. 1..requests = {}
  BY <1>1
<1>7. Apart
  BY <1>1, <1>2, <1>3, <1>6 DEF Apart
<1>8. Ordered
  BY <1>1, <1>2, <1>3 DEF Ordered
<1> QED BY <1>5, <1>7, <1>8 DEF IInv

LEMMA AddHolds == IInv /\ add_async_request => IInv'
<1> SUFFICES ASSUME IInv, add_async_request PROVE IInv'
  OBVIOUS
<1> DEFINE q == requests'
<1>1. /\ TypeOK /\ Apart /\ Ordered
      /\ q = requests + 1 /\ q \in Requests /\ requests \in Nat
      /\ 1..q = 1..requests \cup {q} /\ q \notin 1..requests
      /\ UNCHANGED <<auth_state_, completed>>
      /\ private' \in {private, private \cup {q}}
  BY RequestConstants DEF IInv, TypeOK, add_async_request, Requests
<1>2. /\ private' \subseteq 1..q /\ private \subseteq private'
      /\ \A p \in 1..requests : p \in private' <=> p \in private
      /\ private' \subseteq Requests
  BY <1>1 DEF Ordered, TypeOK
<1>3. Answered' = Answered
  BY <1>1 DEF Answered
<1>4. q \notin Held \cup InFlight \cup Answered \cup lost
  BY <1>1 DEF Apart
<1>5. \A i \in 1..Len(issued) : issued[i] \in 1..requests
  BY <1>1, RequestConstants DEF TypeOK, Ordered, Requests
<1>6. CASE HoldBack(q)
  <2>1. /\ auth_state_ = "not_authenticated" /\ q \in private'
        /\ pending_' = Append(pending_, q) /\ threw' = FALSE
        /\ UNCHANGED <<outstanding_, issued, lost>>
    BY <1>1, <1>6 DEF HoldBack, TypeOK
  <2>2. /\ pending_' \in Seq(Requests) /\ Len(pending_) \in Nat
        /\ Len(pending_') = Len(pending_) + 1
        /\ pending_'[Len(pending_) + 1] = q
        /\ \A i \in 1..Len(pending_) : pending_'[i] = pending_[i]
    BY <1>1, <2>1, AppendSeq DEF TypeOK
  <2>3. Held' = Held \cup {q}
    <3>1. Elems(pending_') = Elems(pending_) \cup {q}
      BY <1>1, <2>1, AppendElems DEF TypeOK
    <3> QED BY <3>1 DEF Held, Elems
  <2>4. InFlight' = InFlight /\ lost' = lost
    BY <2>1 DEF InFlight
  <2>5. TypeOK'
    <3>1. requests' \in 0..MaxRequests
      BY <1>1, RequestConstants DEF Requests
    <3> QED BY <1>1, <1>2, <2>1, <2>2, <3>1 DEF TypeOK
  <2>6. Apart'
    BY <1>1, <1>3, <1>4, <2>1, <2>3, <2>4 DEF Apart
  <2>7. Ordered'
    <3>1. \A i \in 1..Len(pending_) : pending_[i] \in 1..requests
      BY <1>1 DEF Apart, Held
    <3>2. ASSUME NEW i \in 1..Len(pending_'), NEW j \in 1..Len(pending_'), i < j
          PROVE  pending_'[i] < pending_'[j]
      <4>1. i \in 1..Len(pending_) /\ (j \in 1..Len(pending_) \/ j = Len(pending_) + 1)
        BY <2>2, <3>2
      <4> QED BY <1>1, <2>2, <3>1, <3>2, <4>1 DEF Ordered
    <3>3. Held' \subseteq private'
      BY <1>1, <1>2, <2>1, <2>3 DEF Ordered
    <3>4. \A i \in 1..Len(issued) : issued'[i] = issued[i] /\ Len(issued') = Len(issued)
      BY <2>1
    <3>5. \A i \in 1..Len(issued') : issued'[i] \in private' <=> issued[i] \in private
      BY <1>2, <1>5, <2>1
    <3>6. \A i \in 1..Len(issued') : issued'[i] <= q
      BY <1>1, <1>5, <2>1
    <3>7. \A i, j \in 1..Len(issued') :
            i < j /\ {issued'[i], issued'[j]} \subseteq private' => issued'[i] < issued'[j]
      BY <1>1, <2>1, <3>5 DEF Ordered
    <3> QED BY <1>1, <1>2, <2>1, <3>2, <3>3, <3>5, <3>6, <3>7 DEF Ordered
  <2> QED BY <2>5, <2>6, <2>7 DEF IInv
<1>7. CASE SendNow(q)
  <2>1. /\ auth_state_ = "authenticated" \/ q \notin private'
        /\ Issue(<<q>>, {}) /\ threw' \in BOOLEAN /\ pending_' = pending_
    BY <1>7 DEF SendNow
  <2> DEFINE qs == <<q>>
  <2>2. qs \in Seq(Requests) /\ Len(qs) = 1 /\ qs[1] = q /\ Issue(qs, {})
    BY <1>1, <2>1, OneSeq
  <2> HIDE DEF qs
  <2>3. Elems(qs) = {q}
    BY <2>2 DEF Elems
  <2>4. \A i, j \in 1..Len(qs) : qs[i] = qs[j] => i = j
    BY <2>2
  <2>5. /\ issued' = issued \o qs
        /\ DOMAIN outstanding_' \subseteq 0..(KeyModulus - 1)
        /\ \A k, l \in DOMAIN outstanding_' : outstanding_'[k] = outstanding_'[l] => k = l
        /\ InFlight' \cap lost' = {}
        /\ InFlight' \cup lost' = InFlight \cup lost \cup {q}
    <3> DEFINE none == {}
    <3>1. /\ none \in SUBSET Requests /\ Elems(qs) \cap none = {}
          /\ (Elems(qs) \cup none) \cap (InFlight \cup lost) = {}
          /\ Issue(qs, none)
      BY <1>4, <2>2, <2>3
    <3> HIDE DEF none
    <3>2. /\ issued' = issued \o qs
          /\ DOMAIN outstanding_' \subseteq 0..(KeyModulus - 1)
          /\ \A k, l \in DOMAIN outstanding_' :
               outstanding_'[k] = outstanding_'[l] => k = l
          /\ InFlight' \cap lost' = {}
          /\ InFlight' \cup lost' = InFlight \cup lost \cup none \cup Elems(qs)
      BY <1>1, <2>2, <2>4, <3>1, IssueHolds
    <3> QED BY <2>3, <3>2 DEF none
  <2>6. /\ issued' \in Seq(Requests) /\ Len(issued) \in Nat
        /\ Len(issued') = Len(issued) + 1
        /\ issued'[Len(issued) + 1] = q
        /\ \A i \in 1..Len(issued) : issued'[i] = issued[i]
    <3>1. issued \in Seq(Requests)
      BY <1>1 DEF TypeOK
    <3>2. qs \in Seq(Requests)
      BY <2>2
    <3>3. /\ issued \o qs \in Seq(Requests) /\ Len(issued) \in Nat
          /\ Len(issued \o qs) = Len(issued) + Len(qs)
          /\ \A i \in 1..Len(issued) : (issued \o qs)[i] = issued[i]
          /\ \A i \in 1..Len(qs) : (issued \o qs)[Len(issued) + i] = qs[i]
      BY ONLY <3>1, <3>2, ConcatSeq
    <3>4. issued' = issued \o qs
      BY <2>5
    <3> QED BY <2>2, <3>3, <3>4
  <2>7. Held' = Held
    BY <2>1 DEF Held
  <2>8. InFlight' \subseteq Requests /\ lost' \subseteq Requests
    BY <1>1, <2>5, PlacesAreRequests
  <2>9. TypeOK'
    <3>1. \A k \in DOMAIN outstanding_' : outstanding_'[k] \in Requests
      BY <2>8 DEF InFlight
    <3>2. requests' \in 0..MaxRequests
      BY <1>1, RequestConstants DEF Requests
    <3> QED BY <1>1, <1>2, <2>1, <2>5, <2>6, <2>8, <3>1, <3>2 DEF TypeOK
  <2>10. Apart'
    <3>1. Held' \cap (InFlight' \cup Answered' \cup lost') = {}
      BY <1>1, <1>3, <1>4, <2>5, <2>7 DEF Apart
    <3>2. InFlight' \cap (Answered' \cup lost') = {} /\ Answered' \cap lost' = {}
      BY <1>1, <1>3, <1>4, <2>5 DEF Apart
    <3>3. Held' \cup InFlight' \cup Answered' \cup lost' = 1..q
      BY <1>1, <1>3, <2>5, <2>7 DEF Apart
    <3> QED BY <1>1, <2>5, <3>1, <3>2, <3>3 DEF Apart
  <2>11. Ordered'
    <3>1. \A i \in 1..Len(issued') : \/ i \in 1..Len(issued) /\ issued'[i] = issued[i]
                                     \/ i = Len(issued) + 1 /\ issued'[i] = q
      BY <2>6
    <3>2. \A i \in 1..Len(issued') : issued'[i] <= q
      BY <1>1, <1>5, <3>1
    <3>3. ASSUME NEW i \in 1..Len(issued'), NEW j \in 1..Len(issued'), i < j,
                 {issued'[i], issued'[j]} \subseteq private'
          PROVE  issued'[i] < issued'[j]
      <4>1. i \in 1..Len(issued) /\ issued'[i] = issued[i]
        BY <2>6, <3>1, <3>3
      <4>2. issued[i] \in 1..requests /\ issued[i] \in private
        BY <1>2, <1>5, <3>3, <4>1
      <4>3. CASE j \in 1..Len(issued) /\ issued'[j] = issued[j]
        BY <1>1, <1>2, <1>5, <3>3, <4>1, <4>2, <4>3 DEF Ordered
      <4>4. CASE issued'[j] = q
        BY <1>1, <4>1, <4>2, <4>4
      <4> QED BY <3>1, <4>3, <4>4
    <3>4. auth_state_' = "not_authenticated" =>
            \A i \in 1..Len(issued') : issued'[i] \notin private'
      BY <1>1, <1>2, <1>5, <2>1, <3>1 DEF Ordered
    <3>5. \A i, j \in 1..Len(pending_') : i < j => pending_'[i] < pending_'[j]
      BY <1>1, <2>1 DEF Ordered
    <3>6. Held' \subseteq private' /\ (auth_state_' = "authenticated" => Held' = {})
      BY <1>1, <1>2, <2>7 DEF Ordered
    <3> QED BY <1>2, <3>2, <3>3, <3>4, <3>5, <3>6 DEF Ordered
  <2> QED BY <2>9, <2>10, <2>11 DEF IInv
<1> QED BY <1>6, <1>7 DEF add_async_request

LEMMA NotifyHolds == IInv /\ notify_autenticated => IInv'
<1> SUFFICES ASSUME IInv, notify_autenticated PROVE IInv'
  OBVIOUS
<1>1. /\ TypeOK /\ Apart /\ Ordered
      /\ auth_state_ = "not_authenticated" /\ auth_state_' = "authenticated"
      /\ pending_' = <<>> /\ UNCHANGED <<private, completed, requests>>
  BY DEF IInv, notify_autenticated
<1>2. PICK n \in 0..Len(pending_) :
        /\ Issue(SubSeq(pending_, 1, n), {pending_[i] : i \in (n + 1)..Len(pending_)})
        /\ \/ n = Len(pending_) /\ threw' = FALSE
           \/ n > 0 /\ threw' = TRUE
  BY DEF notify_autenticated
<1> DEFINE qs == SubSeq(pending_, 1, n)
           dropped == {pending_[i] : i \in (n + 1)..Len(pending_)}
<1>3. /\ qs \in Seq(Requests) /\ Len(qs) = n /\ Len(pending_) \in Nat /\ n \in Nat
      /\ \A i \in 1..n : qs[i] = pending_[i]
  <2>1. pending_ \in Seq(Requests)
    BY <1>1 DEF TypeOK
  <2> QED BY <2>1, FrontSeq
<1>4. Issue(qs, dropped)
  BY <1>2
<1> HIDE DEF qs
<1>5. \A i \in 1..Len(pending_) : pending_[i] \in 1..requests /\ pending_[i] \in Requests
  <2>1. \A i \in 1..Len(pending_) : pending_[i] \in Held
    BY DEF Held
  <2> QED BY <1>1, <2>1, PlacesAreRequests DEF Apart
<1>6. \A i, j \in 1..Len(pending_) : pending_[i] = pending_[j] => i = j
  <2> SUFFICES ASSUME NEW i \in 1..Len(pending_), NEW j \in 1..Len(pending_),
                      pending_[i] = pending_[j]
               PROVE  i = j
    OBVIOUS
  <2>1. ~ (i < j) /\ ~ (j < i)
    BY <1>1, <1>5, PlacesAreRequests DEF Ordered
  <2> QED BY <1>3, <2>1
<1>7. \A i, j \in 1..Len(qs) : qs[i] = qs[j] => i = j
  BY <1>3, <1>6
<1>8. Elems(qs) = {pending_[i] : i \in 1..n}
  BY <1>3 DEF Elems
<1>9. Elems(qs) \cap dropped = {} /\ Elems(qs) \cup dropped = Held
  <2>1. ASSUME NEW i \in 1..n, NEW j \in (n + 1)..Len(pending_) PROVE pending_[i] # pending_[j]
    BY <1>3, <1>6
  <2>2. 1..Len(pending_) = (1..n) \cup ((n + 1)..Len(pending_))
    BY <1>3
  <2> QED BY <1>8, <2>1, <2>2 DEF Held
<1>10. dropped \in SUBSET Requests
  BY <1>1, <1>9, PlacesAreRequests
<1> HIDE DEF dropped
<1>11. /\ issued' = issued \o qs
       /\ DOMAIN outstanding_' \subseteq 0..(KeyModulus - 1)
       /\ \A k, l \in DOMAIN outstanding_' : outstanding_'[k] = outstanding_'[l] => k = l
       /\ InFlight' \cap lost' = {}
       /\ InFlight' \cup lost' = InFlight \cup lost \cup Held
  <2>1. (Elems(qs) \cup dropped) \cap (InFlight \cup lost) = {}
    BY <1>1, <1>9 DEF Apart
  <2>2. /\ issued' = issued \o qs
        /\ DOMAIN outstanding_' \subseteq 0..(KeyModulus - 1)
        /\ \A k, l \in DOMAIN outstanding_' : outstanding_'[k] = outstanding_'[l] => k = l
        /\ InFlight' \cap lost' = {}
        /\ InFlight' \cup lost' = InFlight \cup lost \cup dropped \cup Elems(qs)
    BY <1>1, <1>3, <1>4, <1>7, <1>9, <1>10, <2>1, IssueHolds
  <2> QED BY <1>9, <2>2
<1>12. /\ issued' \in Seq(Requests) /\ Len(issued) \in Nat
       /\ Len(issued') = Len(issued) + n
       /\ \A i \in 1..Len(issued) : issued'[i] = issued[i]
       /\ \A i \in 1..n : issued'[Len(issued) + i] = pending_[i]
  <2>1. issued \in Seq(Requests)
    BY <1>1 DEF TypeOK
  <2>2. qs \in Seq(Requests)
    BY <1>3
  <2>3. /\ issued \o qs \in Seq(Requests) /\ Len(issued) \in Nat
        /\ Len(issued \o qs) = Len(issued) + Len(qs)
        /\ \A i \in 1..Len(issued) : (issued \o qs)[i] = issued[i]
        /\ \A i \in 1..Len(qs) : (issued \o qs)[Len(issued) + i] = qs[i]
    BY ONLY <2>1, <2>2, ConcatSeq
  <2>4. issued' = issued \o qs
    BY <1>11
  <2> QED BY <1>3, <2>3, <2>4
<1>13. Len(pending_') = 0 /\ pending_' \in Seq(Requests)
  BY <1>1, EmptySeq
<1>14. Held' = {} /\ Answered' = Answered
  BY <1>1, <1>13 DEF Held, Answered
<1>15. InFlight' \subseteq Requests /\ lost' \subseteq Requests
  BY <1>1, <1>11, PlacesAreRequests
<1>16. TypeOK'
  <2>1. \A k \in DOMAIN outstanding_' : outstanding_'[k] \in Requests
    BY <1>15 DEF InFlight
  <2>2. threw' \in BOOLEAN
    BY <1>2
  <2> QED BY <1>1, <1>11, <1>12, <1>13, <1>15, <2>1, <2>2 DEF TypeOK
<1>17. Apart'
  <2>1. InFlight' \cap (Answered' \cup lost') = {} /\ Answered' \cap lost' = {}
    BY <1>1, <1>11, <1>14 DEF Apart
  <2>2. Held' \cup InFlight' \cup Answered' \cup lost' = 1..requests'
    BY <1>1, <1>11, <1>14 DEF Apart
  <2> QED BY <1>1, <1>11, <1>14, <2>1, <2>2 DEF Apart
<1>18. Ordered'
  <2>1. \A i \in 1..Len(issued') :
          \/ i \in 1..Len(issued) /\ issued'[i] = issued[i]
          \/ i - Len(issued) \in 1..n /\ issued'[i] = pending_[i - Len(issued)]
    <3> SUFFICES ASSUME NEW i \in 1..Len(issued')
                 PROVE  \/ i \in 1..Len(issued) /\ issued'[i] = issued[i]
                        \/ /\ i - Len(issued) \in 1..n
                           /\ issued'[i] = pending_[i - Len(issued)]
      OBVIOUS
    <3>1. CASE i \in 1..Len(issued)
      BY <1>12, <3>1
    <3>2. CASE i \notin 1..Len(issued)
      <4>1. i - Len(issued) \in 1..n /\ Len(issued) + (i - Len(issued)) = i
        BY <1>3, <1>12, <3>2
      <4> QED BY <1>12, <4>1
    <3> QED BY <3>1, <3>2
  <2>2. \A i \in 1..Len(issued') : issued'[i] <= requests
    <3>1. \A i \in 1..Len(issued) : issued[i] <= requests
      BY <1>1 DEF Ordered
    <3> QED BY <1>3, <1>5, <2>1, <3>1
  <2>3. ASSUME NEW i \in 1..Len(issued'), NEW j \in 1..Len(issued'), i < j,
               {issued'[i], issued'[j]} \subseteq private'
        PROVE  issued'[i] < issued'[j]
    <3>1. \A m \in 1..Len(issued) : issued[m] \notin private
      BY <1>1 DEF Ordered
    <3>2. /\ i - Len(issued) \in 1..n /\ issued'[i] = pending_[i - Len(issued)]
          /\ j - Len(issued) \in 1..n /\ issued'[j] = pending_[j - Len(issued)]
      BY <1>1, <2>1, <2>3, <3>1
    <3>3. /\ i - Len(issued) \in 1..Len(pending_) /\ j - Len(issued) \in 1..Len(pending_)
          /\ i - Len(issued) < j - Len(issued)
      BY <1>3, <1>12, <2>3, <3>2
    <3> QED BY <1>1, <3>2, <3>3 DEF Ordered
  <2>4. private' \subseteq 1..requests'
    BY <1>1 DEF Ordered
  <2>5. auth_state_' # "not_authenticated"
    BY <1>1
  <2> QED BY <1>1, <1>13, <1>14, <2>2, <2>3, <2>4, <2>5 DEF Ordered
<1> QED BY <1>16, <1>17, <1>18 DEF IInv

\* A response moves one request from those in flight to those answered.
LEMMA CompleteHolds ==
    ASSUME IInv, NEW id \in 1..(MaxRequests + 1), NEW res \in Outcomes \ {"aborted"},
           async_complete(id, res)
    PROVE  IInv'
<1>1. /\ TypeOK /\ Apart /\ Ordered
      /\ UNCHANGED <<auth_state_, pending_, issued, private, lost, requests>>
  BY DEF IInv, async_complete
<1>2. Held' = Held /\ Ordered'
  BY <1>1 DEF Held, Ordered
<1>3. CASE RespondMatched(id, res)
  <2> DEFINE k0 == Key(id)
             q  == outstanding_[k0]
  <2>1. /\ k0 \in DOMAIN outstanding_
        /\ completed' = completed \cup {Completion(q, res)}
        /\ outstanding_' = [k \in DOMAIN outstanding_ \ {k0} |-> outstanding_[k]]
        /\ threw' = FALSE
    BY <1>3 DEF RespondMatched
  <2> HIDE DEF k0
  <2>2. q \in InFlight /\ q \in Requests
    BY <1>1, <2>1 DEF InFlight, TypeOK
  <2>3. Completion(q, res).req = q /\ Completion(q, res) \in [req : Requests, res : Outcomes]
    BY <2>2 DEF Completion
  <2>4. Answered' = Answered \cup {q}
    BY <2>1, <2>3 DEF Answered
  <2>5. InFlight' = InFlight \ {q}
    <3>1. \A k \in DOMAIN outstanding_' : k # k0 /\ k \in DOMAIN outstanding_
                                          /\ outstanding_'[k] = outstanding_[k]
      BY <2>1
    <3>2. \A k \in DOMAIN outstanding_ \ {k0} : outstanding_[k] # q
      BY <1>1, <2>1 DEF Apart
    <3>3. \A k \in DOMAIN outstanding_ \ {k0} :
            k \in DOMAIN outstanding_' /\ outstanding_'[k] = outstanding_[k]
      BY <2>1
    <3>4. InFlight' \subseteq InFlight \ {q}
      BY <3>1, <3>2 DEF InFlight
    <3>5. InFlight \ {q} \subseteq InFlight'
      BY <2>1, <3>3 DEF InFlight
    <3> QED BY <3>4, <3>5
  <2>6. /\ DOMAIN outstanding_' \subseteq DOMAIN outstanding_
        /\ \A k \in DOMAIN outstanding_' : outstanding_'[k] = outstanding_[k]
    BY <2>1
  <2>7. TypeOK'
    <3>1. threw' \in BOOLEAN
      BY <2>1
    <3> QED BY <1>1, <2>1, <2>3, <2>6, <3>1 DEF TypeOK
  <2>8. Apart'
    <3>1. \A k, l \in DOMAIN outstanding_' : outstanding_'[k] = outstanding_'[l] => k = l
      BY <1>1, <2>6 DEF Apart
    <3>2. \A r, s \in completed' : r.req = s.req => r = s
      <4>1. \A r \in completed : r.req # q
        BY <1>1, <2>2 DEF Apart, Answered
      <4> QED BY <1>1, <2>1, <2>3, <4>1 DEF Apart
    <3> QED BY <1>1, <1>2, <2>2, <2>4, <2>5, <3>1, <3>2 DEF Apart
  <2> QED BY <1>2, <2>7, <2>8 DEF IInv
<1>4. CASE RespondUnmatched(id)
  <2>1. UNCHANGED <<outstanding_, completed>> /\ threw' = FALSE
    BY <1>4 DEF RespondUnmatched
  <2>2. InFlight' = InFlight /\ Answered' = Answered
    BY <2>1 DEF InFlight, Answered
  <2>3. TypeOK'
    BY <1>1, <2>1 DEF TypeOK
  <2>4. Apart'
    BY <1>1, <1>2, <2>1, <2>2 DEF Apart
  <2> QED BY <1>2, <2>3, <2>4 DEF IInv
<1> QED BY <1>3, <1>4 DEF async_complete

\* cancel answers the requests in flight and those held back.
LEMMA CancelHolds == IInv /\ cancel => IInv'
<1> SUFFICES ASSUME IInv, cancel PROVE IInv'
  OBVIOUS
<1> DEFINE A == {Completion(outstanding_[k], "aborted") : k \in DOMAIN outstanding_}
           B == {Completion(pending_[i], "aborted") : i \in 1..Len(pending_)}
<1>1. /\ TypeOK /\ Apart /\ Ordered /\ completed' = completed \cup A \cup B
      /\ pending_' = <<>> /\ outstanding_' = <<>> /\ threw' = FALSE
      /\ UNCHANGED <<auth_state_, issued, private, lost, requests>>
  BY DEF IInv, cancel
<1>2. Len(pending_') = 0 /\ DOMAIN outstanding_' = {} /\ pending_' \in Seq(Requests)
  BY <1>1, EmptySeq
<1>3. Held' = {} /\ InFlight' = {}
  BY <1>2 DEF Held, InFlight
<1>4. \A r \in A \cup B : r.req \in InFlight \cup Held /\ r = Completion(r.req, "aborted")
  BY DEF Completion, InFlight, Held
<1>5. InFlight \cup Held \subseteq {r.req : r \in A \cup B}
  <2>1. ASSUME NEW k \in DOMAIN outstanding_
        PROVE  outstanding_[k] \in {r.req : r \in A \cup B}
    <3>1. Completion(outstanding_[k], "aborted") \in A \cup B
      OBVIOUS
    <3> HIDE DEF A, B
    <3> QED BY <3>1 DEF Completion
  <2>2. ASSUME NEW i \in 1..Len(pending_)
        PROVE  pending_[i] \in {r.req : r \in A \cup B}
    <3>1. Completion(pending_[i], "aborted") \in A \cup B
      OBVIOUS
    <3> HIDE DEF A, B
    <3> QED BY <3>1 DEF Completion
  <2> QED BY <2>1, <2>2 DEF InFlight, Held
<1> HIDE DEF A, B
<1>6. Answered' = Answered \cup InFlight \cup Held
  <2>1. {r.req : r \in A \cup B} = InFlight \cup Held
    BY <1>4, <1>5
  <2> QED BY <1>1, <2>1 DEF Answered
<1>7. TypeOK'
  <2>1. A \cup B \subseteq [req : Requests, res : Outcomes]
    BY <1>1, <1>4, PlacesAreRequests DEF Completion, Outcomes
  <2>2. threw' \in BOOLEAN
    BY <1>1
  <2>3. completed' \subseteq [req : Requests, res : Outcomes]
    BY <1>1, <2>1 DEF TypeOK
  <2>4. UNCHANGED <<auth_state_, issued, private, lost, requests>>
    BY <1>1
  <2> QED BY <1>1, <1>2, <2>2, <2>3, <2>4 DEF TypeOK
<1>8. Apart'
  <2>1. ASSUME NEW r \in completed', NEW s \in completed', r.req = s.req PROVE r = s
    <3>1. CASE r \in completed /\ s \in completed
      BY <1>1, <2>1, <3>1 DEF Apart
    <3>2. CASE r \in A \cup B /\ s \in A \cup B
      BY <1>4, <2>1, <3>2
    <3>3. \A x \in completed : x.req \notin InFlight \cup Held
      BY <1>1 DEF Apart, Answered
    <3> QED BY <1>1, <1>4, <2>1, <3>1, <3>2, <3>3
  <2> QED BY <1>1, <1>2, <1>3, <1>6, <2>1 DEF Apart
<1>9. Ordered'
  <2>1. UNCHANGED <<auth_state_, issued, private, requests>>
    BY <1>1
  <2> QED BY <1>1, <1>2, <1>3, <2>1 DEF Ordered
<1> QED BY <1>7, <1>8, <1>9 DEF IInv

LEMMA StepHolds == IInv /\ [Next]_vars => IInv'
<1> SUFFICES ASSUME IInv, [Next]_vars PROVE IInv'
  OBVIOUS
<1>1. ASSUME UNCHANGED <<auth_state_, pending_, outstanding_, issued, private,
                         completed, lost, requests>>,
             threw' \in BOOLEAN
      PROVE  IInv'
  <2>1. Held' = Held /\ InFlight' = InFlight /\ Answered' = Answered
    BY <1>1 DEF Held, InFlight, Answered
  <2>2. TypeOK'
    BY <1>1 DEF IInv, TypeOK
  <2>3. Apart'
    BY <1>1, <2>1 DEF IInv, Apart
  <2>4. Ordered'
    BY <1>1, <2>1 DEF IInv, Ordered
  <2> QED BY <2>2, <2>3, <2>4 DEF IInv
<1>2. CASE async_complete_malformed
  BY <1>1, <1>2 DEF async_complete_malformed
<1>3. CASE UNCHANGED vars
  BY <1>1, <1>3 DEF vars, IInv, TypeOK
<1> QED BY <1>2, <1>3, AddHolds, NotifyHolds, CompleteHolds, CancelHolds DEF Next

-----------------------------------------------------------------------------
(* Counting the places.                                                    *)

\* A one-to-one image of a set is as large as the set.
LEMMA ImageCounts ==
    ASSUME NEW D, NEW T, NEW g \in [D -> T], IsFiniteSet(T),
           \A x, y \in D : g[x] = g[y] => x = y,
           \A t \in T : \E x \in D : g[x] = t
    PROVE  IsFiniteSet(D) /\ Cardinality(D) = Cardinality(T)
<1>1. g \in Injection(D, T)
  BY DEF Injection, IsInjective
<1>2. g \in Surjection(D, T)
  BY DEF Surjection
<1> QED BY <1>1, <1>2, FS_Injection

\* The sizes of disjoint sets add up.
LEMMA TwoPlaces ==
    ASSUME NEW S, NEW T, IsFiniteSet(S), IsFiniteSet(T), S \cap T = {}
    PROVE  /\ IsFiniteSet(S \cup T)
           /\ Cardinality(S) \in Nat /\ Cardinality(T) \in Nat
           /\ Cardinality(S \cup T) = Cardinality(S) + Cardinality(T)
<1>1. Cardinality(S) \in Nat /\ Cardinality(T) \in Nat
  BY FS_CardinalityType
<1>2. Cardinality(S \cap T) = 0
  BY FS_EmptySet
<1>3. /\ IsFiniteSet(S \cup T)
      /\ Cardinality(S \cup T) =
           Cardinality(S) + Cardinality(T) - Cardinality(S \cap T)
  BY FS_Union
<1> QED BY <1>1, <1>2, <1>3

LEMMA FourPlaces ==
    ASSUME NEW A, NEW B, NEW C, NEW D, IsFiniteSet(A), IsFiniteSet(B),
           IsFiniteSet(C), IsFiniteSet(D),
           A \cap (B \cup C \cup D) = {}, B \cap (C \cup D) = {}, C \cap D = {}
    PROVE  Cardinality(A \cup B \cup C \cup D) =
             Cardinality(A) + Cardinality(B) + Cardinality(C) + Cardinality(D)
<1> DEFINE CD == C \cup D
           BCD == B \cup CD
<1>1. /\ IsFiniteSet(CD) /\ Cardinality(C) \in Nat /\ Cardinality(D) \in Nat
      /\ Cardinality(CD) = Cardinality(C) + Cardinality(D)
  BY TwoPlaces
<1>2. /\ IsFiniteSet(BCD) /\ Cardinality(B) \in Nat
      /\ Cardinality(BCD) = Cardinality(B) + Cardinality(CD)
  BY <1>1, TwoPlaces
<1>3. A \cap BCD = {} /\ A \cup B \cup C \cup D = A \cup BCD
  OBVIOUS
<1> HIDE DEF CD, BCD
<1>4. Cardinality(A) \in Nat /\ Cardinality(A \cup BCD) = Cardinality(A) + Cardinality(BCD)
  BY <1>2, <1>3, TwoPlaces
<1>5. Cardinality(A \cup BCD) =
        Cardinality(A) + Cardinality(B) + Cardinality(C) + Cardinality(D)
  BY <1>1, <1>2, <1>4
<1> QED BY ONLY <1>3, <1>5

LEMMA CountHolds == IInv => RequestAccounted
<1> SUFFICES ASSUME IInv PROVE RequestAccounted
  OBVIOUS
<1>1. TypeOK /\ Apart /\ Ordered /\ requests \in Nat /\ Len(pending_) \in Nat
  BY PlacesAreRequests DEF IInv
<1>2. Held \cup InFlight \cup Answered \cup lost = 1..requests
  BY <1>1 DEF Apart
<1>3. IsFiniteSet(1..requests) /\ Cardinality(1..requests) = requests
  BY <1>1, FS_Interval
<1>4. /\ IsFiniteSet(Held) /\ IsFiniteSet(InFlight)
      /\ IsFiniteSet(Answered) /\ IsFiniteSet(lost)
  BY <1>2, <1>3, FS_Subset
<1>5. Cardinality(Held) = Len(pending_)
  <2> DEFINE g == [i \in 1..Len(pending_) |-> pending_[i]]
  <2>1. g \in [1..Len(pending_) -> Held] /\ \A t \in Held : \E i \in 1..Len(pending_) : g[i] = t
    BY DEF Held
  <2>2. \A i, j \in 1..Len(pending_) : g[i] = g[j] => i = j
    <3> SUFFICES ASSUME NEW i \in 1..Len(pending_), NEW j \in 1..Len(pending_),
                        pending_[i] = pending_[j]
                 PROVE  i = j
      OBVIOUS
    <3>1. pending_[i] \in Nat
      BY <1>1, <1>2 DEF Held
    <3>2. ~ (i < j) /\ ~ (j < i)
      BY <1>1, <3>1 DEF Ordered
    <3> QED BY <1>1, <3>2
  <2> HIDE DEF g
  <2>3. Cardinality(1..Len(pending_)) = Cardinality(Held)
    BY <1>4, <2>1, <2>2, ImageCounts
  <2>4. Cardinality(1..Len(pending_)) = Len(pending_)
    <3>1. Cardinality(1..Len(pending_)) =
            IF 1 > Len(pending_) THEN 0 ELSE Len(pending_) - 1 + 1
      BY <1>1, FS_Interval
    <3> QED BY <1>1, <3>1
  <2> QED BY <2>3, <2>4
<1>6. Cardinality(InFlight) = Cardinality(DOMAIN outstanding_)
  <2> DEFINE g == [k \in DOMAIN outstanding_ |-> outstanding_[k]]
  <2>1. /\ g \in [DOMAIN outstanding_ -> InFlight]
        /\ \A t \in InFlight : \E k \in DOMAIN outstanding_ : g[k] = t
    BY DEF InFlight
  <2>2. \A k, l \in DOMAIN outstanding_ : g[k] = g[l] => k = l
    BY <1>1 DEF Apart
  <2> HIDE DEF g
  <2> QED BY <1>4, <2>1, <2>2, ImageCounts
<1>7. Cardinality(Answered) = Cardinality(completed)
  <2> DEFINE g == [r \in completed |-> r.req]
  <2>1. g \in [completed -> Answered] /\ \A t \in Answered : \E r \in completed : g[r] = t
    BY DEF Answered
  <2>2. \A r, s \in completed : g[r] = g[s] => r = s
    BY <1>1 DEF Apart
  <2> HIDE DEF g
  <2> QED BY <1>4, <2>1, <2>2, ImageCounts
<1>8. Cardinality(Held \cup InFlight \cup Answered \cup lost) =
        Cardinality(Held) + Cardinality(InFlight) + Cardinality(Answered) + Cardinality(lost)
  BY <1>1, <1>4, FourPlaces DEF Apart
<1> QED BY <1>2, <1>3, <1>5, <1>6, <1>7, <1>8 DEF RequestAccounted

-----------------------------------------------------------------------------
LEMMA Invariant == Spec => []IInv
BY InitHolds, StepHolds, PTL DEF Spec

\* The types of request_map; the keys of its map stay in the width of an int.
THEOREM TypeCorrect == Spec => []TypeOK
<1>1. IInv => TypeOK
  BY DEF IInv
<1> QED BY Invariant, <1>1, PTL

\* Every handler is held back, in flight, completed once or destroyed, whatever the
\* peer answers, however keys collide and wherever a send throws.
THEOREM HandlersInOnePlace == Spec => []RequestAccounted
BY Invariant, CountHolds, PTL

\* Private requests go out in the order of their calls, none before the
\* authentication, and none is held back after it.
THEOREM PrivateRequestsInOrder == Spec => []PrivateInOrder
<1>1. IInv => PrivateInOrder
  <2> SUFFICES ASSUME IInv PROVE PrivateInOrder
    OBVIOUS
  <2>1. auth_state_ \in {"not_authenticated", "authenticated"} /\ Ordered
    BY DEF IInv, TypeOK
  <2> QED BY <2>1 DEF Ordered, PrivateInOrder
<1> QED BY Invariant, <1>1, PTL

-----------------------------------------------------------------------------
(* Keys: an entry of the map tells which ids it may have been stored for.  *)

\* An entry is that of a request whose id has the key.
Keyed ==
    \A k \in DOMAIN outstanding_ :
        \E id \in 1..Len(issued) : Key(id) = k /\ outstanding_[k] = issued[id]

\* q gave way, in this step, to a request in flight with the key of its id.
GaveWay(q) ==
    \E m, n \in 1..Len(issued') :
        /\ issued'[m] \in InFlight' /\ issued'[n] = q
        /\ m % KeyModulus = n % KeyModulus

\* q was held back, and is dropped with the call that throws.
Dropped(q) == threw' /\ q \in Held /\ \A n \in 1..Len(issued') : issued'[n] # q

LEMMA SmallestOf ==
    ASSUME NEW T \in SUBSET Nat, T # {}
    PROVE  \E n \in T : \A m \in T : ~(m < n)
<1> DEFINE Less == OpToRel(<, Nat)
<1>1. \E n \in T : \A m \in T : <<m, n>> \notin Less
  BY WFMin, NatLessThanWellFounded
<1>2. \A m, n \in Nat : m < n => <<m, n>> \in Less
  BY DEF OpToRel
<1> HIDE DEF Less
<1> QED BY <1>1, <1>2, Zenon

\* Requests with new ids: the entries stay true, and one that is not stored gives
\* way to one in flight, issued before or with it.
LEMMA IssueKeyed ==
    ASSUME TypeOK, Keyed, NEW qs \in Seq(Requests), NEW dropped, Issue(qs, dropped)
    PROVE  /\ Keyed'
           /\ \A q \in lost' \ lost : q \in dropped \/ GaveWay(q)
<1>1. /\ issued' = issued \o qs
      /\ lost' = lost \cup dropped \cup {qs[i] : i \in (1..Len(qs)) \ Stored(qs)}
      /\ Stored(qs) \subseteq 1..Len(qs) /\ Len(qs) \in Nat
      /\ DOMAIN outstanding_' =
           DOMAIN outstanding_ \cup {Key(current_id_ + i) : i \in Stored(qs)}
      /\ \A k \in DOMAIN outstanding_ : outstanding_'[k] = outstanding_[k]
      /\ \A i \in Stored(qs) : outstanding_'[Key(current_id_ + i)] = qs[i]
  BY IssueStores
<1>2. /\ Len(issued) \in Nat /\ Len(issued') = Len(issued) + Len(qs)
      /\ \A i \in 1..Len(issued) : issued'[i] = issued[i]
      /\ \A i \in 1..Len(qs) : issued'[Len(issued) + i] = qs[i]
  BY <1>1, ConcatSeq DEF TypeOK
<1>3. Keyed'
  <2> SUFFICES ASSUME NEW k \in DOMAIN outstanding_'
               PROVE  \E id \in 1..Len(issued') : Key(id) = k
                                                  /\ outstanding_'[k] = issued'[id]
    BY DEF Keyed, Key
  <2>1. CASE k \in DOMAIN outstanding_
    <3>1. PICK id \in 1..Len(issued) : Key(id) = k /\ outstanding_[k] = issued[id]
      BY <2>1 DEF Keyed
    <3> QED BY <1>1, <1>2, <2>1, <3>1
  <2>2. CASE k \notin DOMAIN outstanding_
    <3>1. PICK i \in Stored(qs) : k = Key(current_id_ + i)
      BY <1>1, <2>2
    <3>2. Len(issued) + i \in 1..Len(issued') /\ issued'[Len(issued) + i] = qs[i]
      BY <1>1, <1>2, <3>1
    <3>3. Key(Len(issued) + i) = k /\ outstanding_'[k] = qs[i]
      BY <1>1, <3>1 DEF current_id_
    <3> QED BY <3>2, <3>3
  <2> QED BY <2>1, <2>2
\* Whether or not it stores the request, emplace() leaves its key in the map: the
\* first of qs with the key is stored unless the key was there before.
<1>4. ASSUME NEW i \in 1..Len(qs)
      PROVE  Key(current_id_ + i) \in DOMAIN outstanding_'
  <2> DEFINE T == {j \in 1..Len(qs) : Key(current_id_ + j) = Key(current_id_ + i)}
  <2>1. T \in SUBSET Nat /\ T # {}
    OBVIOUS
  <2>2. PICK f \in T : \A j \in T : ~(j < f)
    BY <2>1, SmallestOf
  <2>3. \A j \in 1..(f - 1) : Key(current_id_ + j) # Key(current_id_ + f)
    BY <1>1, <2>2
  <2>4. Key(current_id_ + f) \in DOMAIN outstanding_ \/ f \in Stored(qs)
    BY <2>2, <2>3 DEF Stored
  <2> QED BY <1>1, <2>2, <2>4
<1>5. ASSUME NEW i \in 1..Len(qs) PROVE GaveWay(qs[i])
  <2>1. PICK m \in 1..Len(issued') :
          Key(m) = Key(current_id_ + i)
          /\ outstanding_'[Key(current_id_ + i)] = issued'[m]
    BY <1>3, <1>4 DEF Keyed, Key
  <2>2. issued'[m] \in InFlight'
    BY <1>4, <2>1 DEF InFlight
  <2>3. current_id_ + i \in 1..Len(issued') /\ issued'[current_id_ + i] = qs[i]
    BY <1>1, <1>2 DEF current_id_
  <2> QED BY <2>1, <2>2, <2>3 DEF GaveWay, Key
<1> QED BY <1>1, <1>3, <1>5

LEMMA InitKeyed == Init => Keyed
BY EmptySeq DEF Init, Keyed

\* An entry that stays is that of the same request.
LEMMA FewerKeyed ==
    ASSUME Keyed, issued' = issued, DOMAIN outstanding_' \subseteq DOMAIN outstanding_,
           \A k \in DOMAIN outstanding_' : outstanding_'[k] = outstanding_[k]
    PROVE  Keyed'
BY DEF Keyed, Key

\* The requests that a throwing send drops were held back and get no id: before
\* the authentication no private one has been issued, and those that go out now are
\* before them in pending_.
LEMMA DroppedNotIssued ==
    ASSUME TypeOK, Ordered, auth_state_ = "not_authenticated",
           NEW n \in 0..Len(pending_), issued' = issued \o SubSeq(pending_, 1, n),
           NEW i \in (n + 1)..Len(pending_)
    PROVE  /\ pending_[i] \in Held
           /\ \A m \in 1..Len(issued') : issued'[m] # pending_[i]
<1> DEFINE qs == SubSeq(pending_, 1, n)
<1>1. /\ Len(pending_) \in Nat /\ qs \in Seq(Requests) /\ Len(qs) = n
      /\ \A j \in 1..n : qs[j] = pending_[j]
  BY FrontSeq DEF TypeOK
<1> HIDE DEF qs
<1>2. /\ Len(issued) \in Nat /\ Len(issued') = Len(issued) + n
      /\ \A m \in 1..Len(issued) : issued'[m] = issued[m]
      /\ \A m \in 1..n : issued'[Len(issued) + m] = qs[m]
  BY <1>1, ConcatSeq DEF TypeOK, qs
<1>3. i \in 1..Len(pending_) /\ pending_[i] \in Held /\ pending_[i] \in private
  BY <1>1 DEF Held, Ordered
<1>4. ASSUME NEW m \in 1..Len(issued') PROVE issued'[m] # pending_[i]
  <2>1. CASE m \in 1..Len(issued)
    BY <1>2, <1>3, <2>1 DEF Ordered
  <2>2. CASE m \notin 1..Len(issued)
    <3>1. PICK j \in 1..n : m = Len(issued) + j
      <4>1. m - Len(issued) \in 1..n /\ m = Len(issued) + (m - Len(issued))
        BY <1>1, <1>2, <2>2
      <4> QED BY <4>1
    <3>2. j \in 1..Len(pending_) /\ j < i
      BY <1>1
    <3>3. pending_[j] < pending_[i]
      BY <1>3, <3>2 DEF Ordered
    <3>4. issued'[m] = pending_[j]
      BY <1>1, <1>2, <3>1
    <3>5. pending_[j] \in Requests
      BY <3>2 DEF TypeOK
    <3> QED BY <3>3, <3>4, <3>5, RequestConstants DEF Requests
  <2> QED BY <2>1, <2>2
<1> QED BY <1>3, <1>4

\* The step of each operation: entries stay true, and a handler that is lost was
\* dropped with an exception or gave way to one in flight.
LEMMA StepKeyed ==
    ASSUME IInv, Keyed, [Next]_vars
    PROVE  Keyed' /\ \A q \in lost' \ lost : Dropped(q) \/ GaveWay(q)
<1> DEFINE Kept == \A q \in lost' \ lost : Dropped(q) \/ GaveWay(q)
<1>1. TypeOK /\ Ordered
  BY DEF IInv
<1>2. CASE add_async_request
  <2>1. requests' \in Requests
    BY <1>1, <1>2, RequestConstants DEF add_async_request, TypeOK, Requests
  <2>2. CASE HoldBack(requests')
    <3>1. Keyed'
      BY <2>2, FewerKeyed DEF HoldBack
    <3>2. lost' = lost
      BY <2>2 DEF HoldBack
    <3> QED BY <3>1, <3>2
  <2>3. CASE SendNow(requests')
    <3> DEFINE qs == <<requests'>>
               dropped == {}
    <3>1. qs \in Seq(Requests) /\ Issue(qs, dropped)
      BY <2>1, <2>3, OneSeq DEF SendNow
    <3>2. \A q : q \notin dropped
      OBVIOUS
    <3> HIDE DEF qs, dropped
    <3>3. Keyed' /\ \A q \in lost' \ lost : q \in dropped \/ GaveWay(q)
      BY <1>1, <3>1, IssueKeyed
    <3> QED BY <3>2, <3>3
  <2> QED BY <1>2, <2>2, <2>3 DEF add_async_request
<1>3. CASE notify_autenticated
  <2>1. PICK n \in 0..Len(pending_) :
          /\ Issue(SubSeq(pending_, 1, n), {pending_[i] : i \in (n + 1)..Len(pending_)})
          /\ \/ n = Len(pending_) /\ threw' = FALSE
             \/ n > 0 /\ threw' = TRUE
    BY <1>3 DEF notify_autenticated
  <2> DEFINE qs == SubSeq(pending_, 1, n)
             dropped == {pending_[i] : i \in (n + 1)..Len(pending_)}
  <2>2. /\ qs \in Seq(Requests) /\ Len(pending_) \in Nat /\ Issue(qs, dropped)
        /\ issued' = issued \o qs
    BY <1>1, <2>1, FrontSeq DEF TypeOK, Issue
  <2>3. ASSUME NEW q \in dropped PROVE Dropped(q)
    <3>1. PICK i \in (n + 1)..Len(pending_) : q = pending_[i]
      OBVIOUS
    <3>2. q \in Held /\ \A m \in 1..Len(issued') : issued'[m] # q
      BY <1>1, <1>3, <2>2, <3>1, DroppedNotIssued DEF notify_autenticated
    <3>3. threw' = TRUE
      BY <2>1, <2>2, <3>1
    <3> QED BY <3>2, <3>3 DEF Dropped
  <2> HIDE DEF qs, dropped
  <2>4. Keyed' /\ \A q \in lost' \ lost : q \in dropped \/ GaveWay(q)
    BY <1>1, <2>2, IssueKeyed, Zenon
  <2> QED BY <2>3, <2>4
<1>4. ASSUME NEW id \in 1..(MaxRequests + 1), NEW res \in Outcomes \ {"aborted"},
             async_complete(id, res)
      PROVE  Keyed' /\ Kept
  <2>1. Keyed'
    BY <1>4, FewerKeyed DEF async_complete, RespondMatched, RespondUnmatched
  <2>2. lost' = lost
    BY <1>4 DEF async_complete
  <2> QED BY <2>1, <2>2
<1>5. CASE cancel
  <2>1. Keyed'
    BY <1>5, FewerKeyed, EmptySeq DEF cancel
  <2>2. lost' = lost
    BY <1>5 DEF cancel
  <2> QED BY <2>1, <2>2
<1>6. CASE async_complete_malformed \/ UNCHANGED vars
  <2>1. Keyed'
    BY <1>6, FewerKeyed DEF async_complete_malformed, vars
  <2>2. lost' = lost
    BY <1>6 DEF async_complete_malformed, vars
  <2> QED BY <2>1, <2>2
<1> QED BY <1>2, <1>3, <1>4, <1>5, <1>6 DEF Next

LEMMA KeyedAlways == Spec => [](IInv /\ Keyed)
<1>1. IInv /\ Keyed /\ [Next]_vars => (IInv /\ Keyed)'
  BY StepHolds, StepKeyed
<1>2. Init => IInv /\ Keyed
  BY InitHolds, InitKeyed
<1> QED BY <1>1, <1>2, PTL DEF Spec

\* A handler is destroyed without completion only with a request that was never
\* issued, in a call that throws, or because one in flight has the key of its id.
THEOREM LossIsNoticed == Spec => NoneLostSilently
<1> DEFINE A == \A q \in lost' \ lost :
                  \/ threw' /\ q \in Held /\ \A n \in 1..Len(issued') : issued'[n] # q
                  \/ \E m, n \in 1..Len(issued') :
                       /\ issued'[m] \in InFlight' /\ issued'[n] = q
                       /\ m % KeyModulus = n % KeyModulus
<1>1. IInv /\ Keyed /\ [Next]_vars => [A]_vars
  BY StepKeyed DEF Dropped, GaveWay
<1> QED BY KeyedAlways, <1>1, PTL DEF Spec, NoneLostSilently

\* A response completes a request that was issued to an id with the key of its own.
THEOREM ResponsesMatch == Spec => ResponseMatches
<1>1. ASSUME Keyed, NEW id \in 1..(MaxRequests + 1), NEW res \in Outcomes \ {"aborted"},
             async_complete(id, res), NEW r \in completed' \ completed
      PROVE  \E n \in 1..Len(issued) :
               r.req = issued[n] /\ n % KeyModulus = id % KeyModulus
  <2>1. Key(id) \in DOMAIN outstanding_ /\ r = Completion(outstanding_[Key(id)], res)
    BY <1>1 DEF async_complete, RespondMatched, RespondUnmatched
  <2>2. PICK n \in 1..Len(issued) : Key(n) = Key(id)
                                    /\ outstanding_[Key(id)] = issued[n]
    BY <1>1, <2>1 DEF Keyed
  <2>3. r.req = issued[n] /\ n % KeyModulus = id % KeyModulus
    BY <2>1, <2>2 DEF Completion, Key
  <2> QED BY <2>3
<1> DEFINE A == \A id \in 1..(MaxRequests + 1), res \in Outcomes \ {"aborted"} :
                  async_complete(id, res) =>
                      \A r \in completed' \ completed :
                          \E n \in 1..Len(issued) :
                              /\ r.req = issued[n]
                              /\ n % KeyModulus = id % KeyModulus
<1>2. IInv /\ Keyed => A
  BY <1>1
<1> QED BY KeyedAlways, <1>2, PTL DEF Spec, ResponseMatches
=============================================================================
