------------------------- MODULE JsonRpcStateProofs -------------------------
(***************************************************************************)
(* First the connection: the invariant of WebsocketState says, for each of *)
(* the four coroutines, what will resume it, and for the ready queue that  *)
(* nobody is in it twice and that posted first steps are ahead of the news *)
(* of the connection.  From it follows that connected_signal_ is a latch   *)
(* to the client: of all the steps only those that wait on it, fire it or  *)
(* fail it change what connect() has heard.                                *)
(*                                                                         *)
(* Then the calls of json_rpc::websocket_state_impl, for any number of     *)
(* calls, any width of the ids above it and any value that request_id_ may *)
(* start from.  The invariant says which id the n-th call has, counted     *)
(* round from FirstId, so that no two calls share one; that the entry of a *)
(* call is there exactly as long as it has no result; and that a request   *)
(* is at one place, where it belongs to a call that was not refused.  Last *)
(* come the steps of the connection, which the calls leave as they are,    *)
(* and the types of the variables of both.                                 *)
(***************************************************************************)
EXTENDS JsonRpcState, FiniteSetTheorems, TLAPS

-----------------------------------------------------------------------------
(* The connection.                                                         *)

\* The queue s holds an item of x, and one with the result ec.
Has(s, x) == \E i \in 1..Len(s) : s[i].who = x
Told(s, x, ec) == \E i \in 1..Len(s) : s[i].who = x /\ s[i].ec = ec
\* No coroutine is twice in the queue.
Distinct(s) == \A i, j \in 1..Len(s) : s[i].who = s[j].who => i = j
\* x comes before any news for K that the connection is up.
Ahead(s, x) ==
    \E j \in 1..Len(s) :
        s[j].who = x /\ \A i \in 1..j : s[i].who = "K" => s[i].ec # "ok"

\* What is left when the head of a queue is taken.
LEMMA Taken ==
    ASSUME NEW s \in Seq(Resume), s # <<>>, Distinct(s), NEW t, t = Tail(s)
    PROVE  /\ t \in Seq(Resume) /\ Head(s) \in Resume
           /\ Has(s, Head(s).who)
           /\ Told(s, Head(s).who, Head(s).ec)
           /\ \A x : Has(t, x) <=> Has(s, x) /\ x # Head(s).who
           /\ \A x, ec : Told(t, x, ec) => Told(s, x, ec)
           /\ Distinct(t)
           /\ \A x : Ahead(s, x) /\ x # Head(s).who => Ahead(t, x)
           /\ \A x : Ahead(s, x) => Head(s).who # "K" \/ Head(s).ec # "ok"
<1>1. /\ t \in Seq(Resume) /\ Len(s) \in Nat /\ Len(s) > 0 /\ Len(t) = Len(s) - 1
      /\ Len(t) \in Nat
      /\ Head(s) = s[1] /\ Head(s) \in Resume
      /\ \A i \in 1..Len(t) : t[i] = s[i + 1]
  OBVIOUS
<1>2. 1 \in 1..Len(s) /\ \A i \in 1..Len(t) : i + 1 \in 1..Len(s) /\ i + 1 # 1
  BY <1>1
<1>3. \A i \in 1..Len(s) : i = 1 \/ (i - 1 \in 1..Len(t) /\ s[i] = t[i - 1])
  BY <1>1
<1>4. Has(s, Head(s).who) /\ Told(s, Head(s).who, Head(s).ec)
  BY <1>1, <1>2 DEF Has, Told
<1>5. \A x : Has(t, x) <=> Has(s, x) /\ x # Head(s).who
  <2> SUFFICES ASSUME NEW x PROVE Has(t, x) <=> Has(s, x) /\ x # Head(s).who
    OBVIOUS
  <2>1. ASSUME Has(t, x) PROVE Has(s, x) /\ x # Head(s).who
    <3> PICK i \in 1..Len(t) : t[i].who = x
      BY <2>1 DEF Has
    <3>1. s[i + 1].who = x /\ i + 1 \in 1..Len(s) /\ i + 1 # 1 /\ 1 \in 1..Len(s)
      BY <1>1, <1>2
    <3> QED BY <1>1, <3>1 DEF Has, Distinct
  <2>2. ASSUME Has(s, x), x # Head(s).who PROVE Has(t, x)
    BY <1>1, <1>3, <2>2 DEF Has
  <2> QED BY <2>1, <2>2
<1>6. \A x, ec : Told(t, x, ec) => Told(s, x, ec)
  BY <1>1, <1>2 DEF Told
<1>7. Distinct(t)
  BY <1>1, <1>2 DEF Distinct
<1>8. ASSUME NEW x, Ahead(s, x)
      PROVE  /\ x # Head(s).who => Ahead(t, x)
             /\ Head(s).who # "K" \/ Head(s).ec # "ok"
  <2> PICK j \in 1..Len(s) :
        s[j].who = x /\ \A i \in 1..j : s[i].who = "K" => s[i].ec # "ok"
    BY <1>8 DEF Ahead
  <2>1. 1 \in 1..j
    BY <1>1
  <2>2. ASSUME x # Head(s).who PROVE Ahead(t, x)
    <3>1. j - 1 \in 1..Len(t) /\ t[j - 1].who = x
      BY <1>1, <1>3, <2>2
    <3>2. \A i \in 1..(j - 1) : t[i] = s[i + 1] /\ i + 1 \in 1..j
      BY <1>1, <3>1
    <3> QED BY <3>1, <3>2 DEF Ahead
  <2> QED BY <1>1, <2>1, <2>2
<1> QED BY <1>1, <1>4, <1>5, <1>6, <1>7, <1>8

\* A writer that has not started cannot have been cancelled.
WriterSafe ==
    /\ w.pc \in {"none", "spawned"} => ~w.cancel /\ ~w.err
    /\ SenderHasWriter

\* connected_signal_ is set when W and C are forked, and fails only with the run.
Signalled ==
    /\ sig.set <=> w.pc # "none"
    /\ sig.set <=> c.pc # "none"
    /\ run.pc \in {"idle", "await_connect", "connecting"} => ~sig.set
    /\ run.pc = "reading" => sig.set
    /\ sig.err => Ended
    /\ sig.set \/ sig.err => ~sig.handler
    /\ Told(ready, "K", "ok") => sig.set
    /\ Told(ready, "K", "error") => Ended /\ w.pc = "none"
    /\ ~Told(ready, "K", "closed") /\ ~Told(ready, "K", "frame")
    /\ ConnectAgreesWithRun

\* A run gets past connect_latch_ only after connect() was called.
Asked ==
    run.pc \in {"connecting", "reading"} \/ sig.set \/ latch.set \/ Told(ready, "R", "ok")
        => kpc # "idle"

\* What will resume R: the latch it waits on, its operation, or its place in ready.
RunWakes ==
    /\ run.pc = "await_connect" => (latch.state = "waiting" <=> ~Has(ready, "R"))
    /\ run.pc = "connecting" => ("connect" \in ops <=> ~Has(ready, "R"))
    /\ run.pc = "reading" => ("read" \in ops <=> ~Has(ready, "R"))
    /\ Has(ready, "R") => Active
    /\ latch.state = "waiting" => run.pc = "await_connect"
    /\ "connect" \in ops => run.pc = "connecting"
    /\ "read" \in ops => run.pc = "reading"

\* What will resume W.
WriterWakes ==
    /\ w.pc = "spawned" => Has(ready, "W")
    /\ w.pc = "popping" => (w.popper <=> ~Has(ready, "W"))
    /\ w.pc = "writing" => ("write" \in ops <=> ~Has(ready, "W"))
    /\ Has(ready, "W") => w.pc \in {"spawned", "popping", "writing"}
    /\ w.popper => w.pc = "popping"
    /\ "write" \in ops => w.pc = "writing"

\* What will resume C.
CloserWakes ==
    /\ c.pc = "spawned" => Has(ready, "C")
    /\ c.pc = "waiting" => (c.latch = "waiting" <=> ~Has(ready, "C"))
    /\ c.pc = "closing" => ("close" \in ops <=> ~Has(ready, "C"))
    /\ Has(ready, "C") => c.pc \in {"spawned", "waiting", "closing"}
    /\ c.latch = "waiting" => c.pc = "waiting"
    /\ "close" \in ops => c.pc = "closing"

\* What will resume K.
ClientWakes ==
    /\ kpc = "waiting" => (sig.handler <=> ~Has(ready, "K"))
    /\ Has(ready, "K") \/ sig.handler => kpc = "waiting"

\* A posted first step comes before the news that the connection is up.
ForksAhead ==
    /\ w.pc = "spawned" => Ahead(ready, "W")
    /\ c.pc = "spawned" => Ahead(ready, "C")

\* What resumes a suspended coroutine is in exactly one place.
Wakes ==
    /\ Distinct(ready)
    /\ RunWakes
    /\ WriterWakes
    /\ CloserWakes
    /\ ClientWakes
    /\ ForksAhead

\* The invariant of the websocket.  Nothing is asked of ready once a destroyed object
\* has been used, as no step follows.
WsInv ==
    /\ TypeOK
    /\ WriterSafe
    /\ Signalled
    /\ Asked
    /\ ConnectedMeansForked
    /\ ~dangling => Wakes

\* The queue t is s, and if b holds then x is posted behind it with the result ec.
Grown(s, b, x, ec, t) ==
    /\ t \in Seq(Resume)
    /\ \A y : Has(t, y) <=> Has(s, y) \/ (b /\ y = x)
    /\ \A y, e : Told(t, y, e) <=> Told(s, y, e) \/ (b /\ y = x /\ e = ec)
    /\ Distinct(s) /\ (b => ~Has(s, x)) => Distinct(t)
    /\ \A y : Ahead(s, y) => Ahead(t, y)
    /\ b /\ ~Told(s, "K", "ok") /\ x # "K" => Ahead(t, x)

\* The queue after an Append.
LEMMA Grows ==
    ASSUME NEW s \in Seq(Resume), NEW x \in {"R", "W", "C", "K"},
           NEW ec \in {"ok", "error", "closed", "frame"},
           NEW t, t = Append(s, Item(x, ec))
    PROVE  Grown(s, TRUE, x, ec, t)
<1>1. /\ t \in Seq(Resume) /\ Len(s) \in Nat /\ Len(t) = Len(s) + 1
      /\ \A i \in 1..Len(s) : t[i] = s[i]
      /\ t[Len(t)].who = x /\ t[Len(t)].ec = ec
  BY DEF Item, Resume
<1>2. \A i \in 1..Len(t) : i \in 1..Len(s) \/ i = Len(t)
  BY <1>1
<1>3. \A i \in 1..Len(s) : i \in 1..Len(t)
  BY <1>1
<1>4. Len(t) \in 1..Len(t) /\ Len(t) \notin 1..Len(s)
  BY <1>1
<1>5. \A y : Has(t, y) <=> Has(s, y) \/ y = x
  BY <1>1, <1>2, <1>3, <1>4, ZenonT(40) DEF Has
<1>6. \A y, e : Told(t, y, e) <=> Told(s, y, e) \/ (y = x /\ e = ec)
  <2> SUFFICES ASSUME NEW y, NEW e
               PROVE  Told(t, y, e) <=> Told(s, y, e) \/ (y = x /\ e = ec)
    OBVIOUS
  <2>1. ASSUME Told(t, y, e) PROVE Told(s, y, e) \/ (y = x /\ e = ec)
    BY <1>1, <1>2, <2>1 DEF Told
  <2>2. ASSUME Told(s, y, e) PROVE Told(t, y, e)
    BY <1>1, <1>3, <2>2 DEF Told
  <2>3. ASSUME y = x, e = ec PROVE Told(t, y, e)
    BY <1>1, <1>4, <2>3 DEF Told
  <2> QED BY <2>1, <2>2, <2>3
<1>7. Distinct(s) /\ ~Has(s, x) => Distinct(t)
  BY <1>1, <1>2, <1>3, <1>4 DEF Distinct, Has
<1>8. ASSUME NEW y, Ahead(s, y) PROVE Ahead(t, y)
  <2> PICK j \in 1..Len(s) :
        s[j].who = y /\ \A i \in 1..j : s[i].who = "K" => s[i].ec # "ok"
    BY <1>8 DEF Ahead
  <2>1. \A i \in 1..j : t[i] = s[i]
    BY <1>1
  <2> QED BY <1>1, <1>3, <2>1 DEF Ahead
<1>9. ~Told(s, "K", "ok") /\ x # "K" => Ahead(t, x)
  BY <1>1, <1>2, <1>4 DEF Ahead, Told
<1> QED BY <1>1, <1>5, <1>6, <1>7, <1>8, <1>9 DEF Grown

\* The queue after an Append that is made if b holds.
LEMMA Posts ==
    ASSUME NEW s \in Seq(Resume), NEW b \in BOOLEAN, NEW x \in {"R", "W", "C", "K"},
           NEW ec \in {"ok", "error", "closed", "frame"},
           NEW t, t = IF b THEN Append(s, Item(x, ec)) ELSE s
    PROVE  Grown(s, b, x, ec, t)
<1>1. CASE b
  BY <1>1, Grows
<1>2. CASE ~b
  BY <1>2 DEF Grown
<1> QED BY <1>1, <1>2

\* The concatenations of the model as Appends.
LEMMA Concats ==
    ASSUME NEW s \in Seq(Resume)
    PROVE  /\ s \o <<>> = s
           /\ \A a \in Resume : s \o <<a>> = Append(s, a)
           /\ \A a, b \in Resume : s \o <<a, b>> = Append(Append(s, a), b)
OBVIOUS

\* What is left of ready when the coroutine x resumes.
RestOf(x) ==
    /\ ~dangling /\ Has(ready, x) /\ Told(ready, x, result)
    /\ result \in {"ok", "error", "closed", "frame"}
    /\ rest \in Seq(Resume)
    /\ \A y : Has(rest, y) <=> Has(ready, y) /\ y # x
    /\ \A y, e : Told(rest, y, e) => Told(ready, y, e)
    /\ Distinct(rest)
    /\ \A y : Ahead(ready, y) /\ y # x => Ahead(rest, y)
    /\ \A y : Ahead(ready, y) => x # "K" \/ result # "ok"

\* What Resuming(x) leaves.
LEMMA Rests ==
    ASSUME WsInv, NEW x, Resuming(x)
    PROVE  RestOf(x)
<1>1. ready \in Seq(Resume) /\ ready # <<>> /\ Distinct(ready) /\ Head(ready).who = x
      /\ ~dangling
  BY DEF WsInv, TypeOK, Wakes, Resuming
<1>2. Head(ready) \in Resume
  BY <1>1, Taken
<1>3. result \in {"ok", "error", "closed", "frame"}
  BY <1>2 DEF result, Resume
<1> QED BY <1>1, <1>3, Taken DEF RestOf, rest, result

\* The invariant holds at first.
LEMMA WsInit == Init => WsInv
<1> SUFFICES ASSUME Init PROVE WsInv
  OBVIOUS
<1>1. Len(ready) = 0 /\ ready \in Seq(Resume)
  BY DEF Init
<1>2. 1..Len(ready) = {}
  BY <1>1
<1>3. /\ \A x : ~Has(ready, x)
      /\ \A x, ec : ~Told(ready, x, ec)
      /\ Distinct(ready)
  BY <1>2 DEF Has, Told, Distinct
<1>4. TypeOK
  BY <1>1 DEF Init, TypeOK, RunStates, WriterStates, CloserStates, Latched
<1> QED BY <1>3, <1>4 DEF Init, WsInv, WriterSafe, SenderHasWriter, Signalled,
   ConnectAgreesWithRun, Asked, ConnectedMeansForked, Wakes, RunWakes, WriterWakes,
   CloserWakes, ClientWakes, ForksAhead, Ended, Active

\* What is posted is an item of the queue.
LEMMA Items ==
    ASSUME NEW x \in {"R", "W", "C", "K"}, NEW ec \in {"ok", "error", "closed", "frame"}
    PROVE  Item(x, ec) \in Resume
BY DEF Item, Resume

\* What a cancel finds: a close state that waits for its latch, a writer that is
\* not done.
CloserWaits == c.hooks /\ c.latch = "waiting"
Cancelled == w.cancel /\ w.pc # "done"

\* The calls of the client.
LEMMA RunStartHolds ==
    ASSUME WsInv, RunStart
    PROVE  WsInv'
<1>1. ready \in Seq(Resume) /\ latch.set \in BOOLEAN
  BY DEF WsInv, TypeOK, WriterStates, CloserStates
<1>2. Grown(ready, latch.set, "R", "ok", ready')
  BY <1>1, Posts DEF RunStart
<1> USE DEF WsInv, TypeOK, RunStart, ghosts
<1>3. TypeOK'
  <2>1. ready' \in Seq(Resume)
    BY <1>2 DEF Grown
  <2>2. run' \in RunStates
    BY DEF RunStates
  <2>3. latch' \in [state : Latched, set : BOOLEAN]
    BY DEF Latched
  <2> QED BY <2>1, <2>2, <2>3
<1>4. WriterSafe' /\ Signalled' /\ Asked' /\ ConnectedMeansForked'
  BY <1>1, <1>2 DEF Grown, RunStates, WriterStates, CloserStates, WriterSafe,
     SenderHasWriter, Signalled, ConnectAgreesWithRun, Asked, ConnectedMeansForked,
     Wakes, RunWakes, ClientWakes, ForksAhead, Ended, Active
<1>5. ~dangling' => Wakes'
  BY <1>1, <1>2 DEF Grown, RunStates, WriterStates, CloserStates, Signalled, Wakes,
     RunWakes, WriterWakes, CloserWakes, ClientWakes, ForksAhead, Ended, Active
<1> QED BY <1>3, <1>4, <1>5

LEMMA SendTextHolds ==
    ASSUME WsInv, SendText
    PROVE  WsInv'
<1>1. ready \in Seq(Resume) /\ w.popper \in BOOLEAN
  BY DEF WsInv, TypeOK, WriterStates, CloserStates
<1>2. Grown(ready, w.popper, "W", "ok", ready')
  BY <1>1, Posts DEF SendText
<1>3. /\ w' = IF w.popper THEN [w EXCEPT !.popper = FALSE] ELSE [w EXCEPT !.queued = TRUE]
      /\ ~dangling /\ UNCHANGED <<run, latch, sig, kpc, c, sender, frames, ops, ghosts>>
  BY DEF SendText
<1> USE DEF WsInv, TypeOK, ghosts
<1>4. TypeOK'
  <2>1. ready' \in Seq(Resume)
    BY <1>2, <1>3 DEF Grown
  <2>2. w' \in WriterStates
    <3>1. CASE w.popper
      BY <1>3, <3>1 DEF WriterStates
    <3>2. CASE ~w.popper
      BY <1>3, <3>2 DEF WriterStates
    <3> QED BY <3>1, <3>2
  <2> QED BY <1>3, <2>1, <2>2
<1>5. WriterSafe' /\ Signalled' /\ Asked' /\ ConnectedMeansForked'
  BY <1>1, <1>2, <1>3 DEF Grown, RunStates, WriterStates, CloserStates, WriterSafe,
     SenderHasWriter, Signalled, ConnectAgreesWithRun, Asked, ConnectedMeansForked,
     Wakes, RunWakes, ClientWakes, ForksAhead, Ended, Active
<1>6. ~dangling' => Wakes'
  BY <1>1, <1>2, <1>3 DEF Grown, RunStates, WriterStates, CloserStates, Signalled,
     Wakes, RunWakes, WriterWakes, CloserWakes, ClientWakes, ForksAhead, Ended, Active
<1> QED BY <1>4, <1>5, <1>6

LEMMA ConnectCallHolds ==
    ASSUME WsInv, ConnectCall
    PROVE  WsInv'
<1>1. /\ ready \in Seq(Resume) /\ ~sig.set /\ sig.err \in BOOLEAN
      /\ (latch.state = "waiting") \in BOOLEAN
      /\ Item("R", "ok") \in Resume /\ Item("K", "error") \in Resume
  BY Items DEF WsInv, TypeOK, ConnectCall, Asked, Signalled
<1>2. \E t : t = IF latch.state = "waiting" THEN Append(ready, Item("R", "ok")) ELSE ready
  OBVIOUS
<1> PICK asked :
      asked = IF latch.state = "waiting" THEN Append(ready, Item("R", "ok")) ELSE ready
  BY <1>2
<1>3. Grown(ready, latch.state = "waiting", "R", "ok", asked)
  BY <1>1, Posts
<1>4. ready' = IF sig.err THEN Append(asked, Item("K", "error")) ELSE asked
  <2>1. asked \in Seq(Resume)
    BY <1>1
  <2>2. ready' = asked \o (IF sig.err THEN <<Item("K", "error")>> ELSE <<>>)
    <3>1. CASE latch.state = "waiting"
      BY <1>1, <3>1, Concats DEF ConnectCall
    <3>2. CASE latch.state # "waiting"
      BY <1>1, <3>2, Concats DEF ConnectCall
    <3> QED BY <3>1, <3>2
  <2> QED BY <1>1, <2>1, <2>2, Concats
<1>5. Grown(asked, sig.err, "K", "error", ready')
  <2>1. asked \in Seq(Resume)
    BY <1>1
  <2> QED BY <1>1, <1>4, <2>1, Posts
<1>6. /\ kpc = "idle" /\ kpc' = "waiting" /\ sig' = [sig EXCEPT !.handler = ~sig.err]
      /\ latch' = [state |-> IF latch.state = "waiting" THEN "complete" ELSE latch.state,
                   set   |-> TRUE]
      /\ ~dangling /\ UNCHANGED <<run, w, c, sender, frames, ops, ghosts>>
  BY <1>1 DEF ConnectCall
<1>7. ~Has(ready, "K")
  BY <1>6 DEF WsInv, Wakes, ClientWakes
<1>8. Has(ready', "K") <=> sig.err
  BY <1>3, <1>5, <1>7 DEF Grown
<1>9. sig'.handler <=> ~sig.err
  BY <1>6 DEF WsInv, TypeOK
<1> USE DEF WsInv, TypeOK, ghosts
<1>10. TypeOK'
  <2>1. ready' \in Seq(Resume)
    BY <1>3, <1>4, <1>5, <1>6, <1>8 DEF Grown
  <2>2. latch' \in [state : Latched, set : BOOLEAN]
    BY <1>6 DEF Latched
  <2>3. sig' \in [set : BOOLEAN, err : BOOLEAN, handler : BOOLEAN]
    BY <1>6, <1>9
  <2> QED BY <1>6, <2>1, <2>2, <2>3
<1>11. WriterSafe' /\ Signalled' /\ Asked' /\ ConnectedMeansForked'
  BY <1>1, <1>3, <1>4, <1>5, <1>6, <1>7, <1>8, <1>9 DEF Grown, RunStates, WriterStates,
     CloserStates, WriterSafe, SenderHasWriter, Signalled, ConnectAgreesWithRun, Asked,
     ConnectedMeansForked, Wakes, RunWakes, ClientWakes, ForksAhead, Ended, Active
<1>12. ~dangling' => Distinct(ready')
  BY <1>1, <1>3, <1>4, <1>5, <1>6, <1>7, <1>8, <1>9 DEF Grown, RunStates, WriterStates,
     CloserStates, Signalled, Wakes, RunWakes, WriterWakes, CloserWakes, ClientWakes,
     ForksAhead, Ended, Active
<1>13. ~dangling' => RunWakes'
  BY <1>1, <1>3, <1>4, <1>5, <1>6, <1>7, <1>8, <1>9 DEF Grown, Wakes, RunWakes,
     RunStates, Active
<1>14. ~dangling' => WriterWakes'
  BY <1>1, <1>3, <1>4, <1>5, <1>6, <1>7, <1>8, <1>9 DEF Grown, Wakes, WriterWakes,
     WriterStates
<1>15. ~dangling' => CloserWakes'
  BY <1>1, <1>3, <1>4, <1>5, <1>6, <1>7, <1>8, <1>9 DEF Grown, Wakes, CloserWakes,
     CloserStates
<1>16. ~dangling' => ClientWakes'
  BY <1>1, <1>3, <1>4, <1>5, <1>6, <1>7, <1>8, <1>9 DEF Grown, Wakes, ClientWakes
<1>17. ~dangling' => ForksAhead'
  BY <1>1, <1>3, <1>4, <1>5, <1>6, <1>7, <1>8, <1>9 DEF Grown, Wakes, ForksAhead,
     WriterStates, CloserStates
<1> QED BY <1>10, <1>11, <1>12, <1>13, <1>14, <1>15, <1>16, <1>17 DEF Wakes

\* The stream.
LEMMA ConnectDoneHolds ==
    ASSUME WsInv, NEW ec \in {"ok", "error"}, Complete("connect", "R", ec)
    PROVE  WsInv'
<1>1. Grown(ready, TRUE, "R", ec, ready')
  BY Grows DEF WsInv, TypeOK, Complete
<1> USE DEF WsInv, TypeOK, Complete, ghosts
<1>2. TypeOK'
  <2>1. ready' \in Seq(Resume)
    BY <1>1 DEF Grown
  <2> QED BY <2>1
<1>3. WriterSafe' /\ Signalled' /\ Asked' /\ ConnectedMeansForked'
  BY <1>1 DEF Grown, RunStates, WriterStates, CloserStates, WriterSafe,
     SenderHasWriter, Signalled, ConnectAgreesWithRun, Asked, ConnectedMeansForked,
     Wakes, RunWakes, ClientWakes, ForksAhead, Ended, Active
<1>4. ~dangling' => Wakes'
  BY <1>1 DEF Grown, RunStates, WriterStates, CloserStates, Signalled, Wakes, RunWakes,
     WriterWakes, CloserWakes, ClientWakes, ForksAhead, Ended, Active
<1> QED BY <1>2, <1>3, <1>4

LEMMA ReadDoneHolds ==
    ASSUME WsInv, NEW ec \in {"frame", "closed", "error"}, Complete("read", "R", ec)
    PROVE  WsInv'
<1>1. Grown(ready, TRUE, "R", ec, ready')
  BY Grows DEF WsInv, TypeOK, Complete
<1> USE DEF WsInv, TypeOK, Complete, ghosts
<1>2. TypeOK'
  <2>1. ready' \in Seq(Resume)
    BY <1>1 DEF Grown
  <2> QED BY <2>1
<1>3. WriterSafe' /\ Signalled' /\ Asked' /\ ConnectedMeansForked'
  BY <1>1 DEF Grown, RunStates, WriterStates, CloserStates, WriterSafe,
     SenderHasWriter, Signalled, ConnectAgreesWithRun, Asked, ConnectedMeansForked,
     Wakes, RunWakes, ClientWakes, ForksAhead, Ended, Active
<1>4. ~dangling' => Wakes'
  BY <1>1 DEF Grown, RunStates, WriterStates, CloserStates, Signalled, Wakes, RunWakes,
     WriterWakes, CloserWakes, ClientWakes, ForksAhead, Ended, Active
<1> QED BY <1>2, <1>3, <1>4

LEMMA WriteDoneHolds ==
    ASSUME WsInv, NEW ec \in {"ok", "error"}, Complete("write", "W", ec)
    PROVE  WsInv'
<1>1. Grown(ready, TRUE, "W", ec, ready')
  BY Grows DEF WsInv, TypeOK, Complete
<1> USE DEF WsInv, TypeOK, Complete, ghosts
<1>2. TypeOK'
  <2>1. ready' \in Seq(Resume)
    BY <1>1 DEF Grown
  <2> QED BY <2>1
<1>3. WriterSafe' /\ Signalled' /\ Asked' /\ ConnectedMeansForked'
  BY <1>1 DEF Grown, RunStates, WriterStates, CloserStates, WriterSafe,
     SenderHasWriter, Signalled, ConnectAgreesWithRun, Asked, ConnectedMeansForked,
     Wakes, RunWakes, ClientWakes, ForksAhead, Ended, Active
<1>4. ~dangling' => Wakes'
  BY <1>1 DEF Grown, RunStates, WriterStates, CloserStates, Signalled, Wakes, RunWakes,
     WriterWakes, CloserWakes, ClientWakes, ForksAhead, Ended, Active
<1> QED BY <1>2, <1>3, <1>4

LEMMA CloseDoneHolds ==
    ASSUME WsInv, NEW ec \in {"ok", "error"}, Complete("close", "C", ec)
    PROVE  WsInv'
<1>1. Grown(ready, TRUE, "C", ec, ready')
  BY Grows DEF WsInv, TypeOK, Complete
<1> USE DEF WsInv, TypeOK, Complete, ghosts
<1>2. TypeOK'
  <2>1. ready' \in Seq(Resume)
    BY <1>1 DEF Grown
  <2> QED BY <2>1
<1>3. WriterSafe' /\ Signalled' /\ Asked' /\ ConnectedMeansForked'
  BY <1>1 DEF Grown, RunStates, WriterStates, CloserStates, WriterSafe,
     SenderHasWriter, Signalled, ConnectAgreesWithRun, Asked, ConnectedMeansForked,
     Wakes, RunWakes, ClientWakes, ForksAhead, Ended, Active
<1>4. ~dangling' => Wakes'
  BY <1>1 DEF Grown, RunStates, WriterStates, CloserStates, Signalled, Wakes, RunWakes,
     WriterWakes, CloserWakes, ClientWakes, ForksAhead, Ended, Active
<1> QED BY <1>2, <1>3, <1>4

\* The ways of close().
LEMMA CloseWaitingHolds ==
    ASSUME WsInv, Close, CloseBeforeConnect
    PROVE  WsInv'
<1>1. ready \in Seq(Resume) /\ (latch.state = "waiting") \in BOOLEAN
  BY DEF WsInv, TypeOK, WriterStates, CloserStates
<1>2. Grown(ready, (latch.state = "waiting"), "R", "error", ready')
  BY <1>1, Posts DEF CloseBeforeConnect
<1> USE DEF WsInv, TypeOK, Close, CloseBeforeConnect, ghosts
<1>3. TypeOK'
  <2>1. ready' \in Seq(Resume)
    BY <1>2 DEF Grown
  <2>2. run' \in RunStates
    BY DEF RunStates
  <2>3. latch' \in [state : Latched, set : BOOLEAN]
    BY DEF Latched
  <2> QED BY <2>1, <2>2, <2>3
<1>4. WriterSafe' /\ Signalled' /\ Asked' /\ ConnectedMeansForked'
  BY <1>1, <1>2 DEF Grown, RunStates, WriterStates, CloserStates, WriterSafe,
     SenderHasWriter, Signalled, ConnectAgreesWithRun, Asked, ConnectedMeansForked,
     Wakes, RunWakes, ClientWakes, ForksAhead, Ended, Active
<1>5. ~dangling' => Wakes'
  BY <1>1, <1>2 DEF Grown, RunStates, WriterStates, CloserStates, Signalled, Wakes,
     RunWakes, WriterWakes, CloserWakes, ClientWakes, ForksAhead, Ended, Active
<1> QED BY <1>3, <1>4, <1>5

LEMMA CloseConnectingHolds ==
    ASSUME WsInv, Close, CloseConnecting
    PROVE  WsInv'
<1> USE DEF WsInv, TypeOK, Close, CloseConnecting, ghosts
<1>1. TypeOK'
  <2>1. run' \in RunStates
    BY DEF RunStates
  <2> QED BY <2>1
<1>2. WriterSafe' /\ Signalled' /\ Asked' /\ ConnectedMeansForked'
  BY DEF RunStates, WriterStates, CloserStates, WriterSafe, SenderHasWriter, Signalled,
     ConnectAgreesWithRun, Asked, ConnectedMeansForked, Wakes, RunWakes, ClientWakes,
     ForksAhead, Ended, Active
<1>3. ~dangling' => Wakes'
  BY DEF RunStates, WriterStates, CloserStates, Signalled, Wakes, RunWakes,
     WriterWakes, CloserWakes, ClientWakes, ForksAhead, Ended, Active
<1> QED BY <1>1, <1>2, <1>3

LEMMA CloseDanglingHolds ==
    ASSUME WsInv, Close, CloseDangling
    PROVE  WsInv'
<1> USE DEF WsInv, TypeOK, Close, CloseDangling, ghosts
<1>1. TypeOK'
  <2> QED OBVIOUS
<1>2. WriterSafe' /\ Signalled' /\ Asked' /\ ConnectedMeansForked'
  BY DEF RunStates, WriterStates, CloserStates, WriterSafe, SenderHasWriter, Signalled,
     ConnectAgreesWithRun, Asked, ConnectedMeansForked, Wakes, RunWakes, ClientWakes,
     ForksAhead, Ended, Active
<1>3. ~dangling' => Wakes'
  BY DEF RunStates, WriterStates, CloserStates, Signalled, Wakes, RunWakes,
     WriterWakes, CloserWakes, ClientWakes, ForksAhead, Ended, Active
<1> QED BY <1>1, <1>2, <1>3

LEMMA CloseConnectedHolds ==
    ASSUME WsInv, Close, CloseConnected
    PROVE  WsInv'
<1>1. /\ ready \in Seq(Resume)
      /\ CloserWaits \in BOOLEAN /\ (Cancelled /\ w.popper) \in BOOLEAN
      /\ w.cancel \in BOOLEAN /\ dangling \in BOOLEAN /\ w.popper \in BOOLEAN
      /\ Item("W", "error") \in Resume
  BY Items DEF WsInv, TypeOK, WriterStates, CloserStates, CloserWaits, Cancelled
<1>2. \E t : t = IF CloserWaits THEN Append(ready, Item("C", "ok")) ELSE ready
  OBVIOUS
<1> PICK first : first = IF CloserWaits THEN Append(ready, Item("C", "ok")) ELSE ready
  BY <1>2
<1>3. Grown(ready, CloserWaits, "C", "ok", first)
  BY <1>1, Posts
<1>4. first \in Seq(Resume)
  BY <1>3 DEF Grown
<1>5. /\ ready' = IF Cancelled /\ w.popper THEN Append(first, Item("W", "error")) ELSE first
      /\ w' = IF Cancelled
               THEN [w EXCEPT !.err = TRUE, !.popper = FALSE] ELSE w
      /\ sender' = IF Cancelled THEN FALSE ELSE sender
      /\ dangling' = IF w.cancel /\ w.pc = "done" THEN TRUE ELSE dangling
  <2>1. CancelWriter(first, <<>>)
    <3>1. CASE CloserWaits
      BY <3>1 DEF CloseConnected, CloserWaits
    <3>2. CASE ~CloserWaits
      BY <3>2 DEF CloseConnected, CloserWaits
    <3> QED BY <3>1, <3>2
  <2>2. /\ first \o <<>> = first
        /\ first \o <<Item("W", "error")>> = Append(first, Item("W", "error"))
    BY <1>1, <1>4, Concats
  <2>3. (first \o <<Item("W", "error")>>) \o <<>> = Append(first, Item("W", "error"))
    BY <1>1, <1>4, <2>2, Concats
  <2> QED BY <1>1, <2>1, <2>2, <2>3 DEF CancelWriter, Cancelled
<1>6. Grown(first, (Cancelled /\ w.popper), "W", "error", ready')
  BY <1>1, <1>4, <1>5, Posts
<1> USE DEF WsInv, TypeOK, Close, CloseConnected, CloserWaits, Cancelled, ghosts
<1>7. TypeOK'
  <2>1. ready' \in Seq(Resume)
    BY <1>3, <1>5, <1>6 DEF Grown
  <2>2. w' \in WriterStates
    BY <1>5 DEF WriterStates
  <2>3. c' \in CloserStates
    BY DEF CloserStates, Latched
  <2>4. {inline, sender, frames, closeCalled, dangling}' \subseteq BOOLEAN
    BY <1>5
  <2> QED BY <1>5, <2>1, <2>2, <2>3, <2>4
<1>8. WriterSafe' /\ Signalled' /\ Asked' /\ ConnectedMeansForked'
  BY <1>1, <1>3, <1>4, <1>5, <1>6 DEF Grown, RunStates, WriterStates, CloserStates,
     WriterSafe, SenderHasWriter, Signalled, ConnectAgreesWithRun, Asked,
     ConnectedMeansForked, Wakes, RunWakes, ClientWakes, ForksAhead, Ended, Active
<1>9. ~dangling' => Wakes'
  BY <1>1, <1>3, <1>4, <1>5, <1>6 DEF Grown, RunStates, WriterStates, CloserStates,
     Signalled, Wakes, RunWakes, WriterWakes, CloserWakes, ClientWakes, ForksAhead,
     Ended, Active
<1> QED BY <1>7, <1>8, <1>9

\* R leaves before there is a connection.
LEMMA RunFailsHolds ==
    ASSUME WsInv, Resuming("R"), run.pc \in {"await_connect", "connecting"}, RunFails
    PROVE  WsInv'
<1>1. RestOf("R")
  BY Rests DEF RunFails
<1>2. Grown(rest, sig.handler, "K", "error", ready')
  <2>1. rest \in Seq(Resume) /\ sig.handler \in BOOLEAN
    BY <1>1 DEF RestOf, WsInv, TypeOK
  <2> QED BY <2>1, Posts DEF RunFails
<1> USE DEF WsInv, TypeOK, RunFails, ghosts
<1>3. TypeOK'
  <2>1. ready' \in Seq(Resume)
    BY <1>1, <1>2 DEF RestOf, Grown
  <2>2. run' \in RunStates
    BY DEF RunStates
  <2>3. sig' \in [set : BOOLEAN, err : BOOLEAN, handler : BOOLEAN]
    OBVIOUS
  <2>4. {inline, sender, frames, closeCalled, dangling}' \subseteq BOOLEAN
    OBVIOUS
  <2> QED BY <2>1, <2>2, <2>3, <2>4
<1>4. WriterSafe' /\ Signalled' /\ Asked' /\ ConnectedMeansForked'
  BY <1>1, <1>2 DEF RestOf, Grown, RunStates, WriterStates, CloserStates, WriterSafe,
     SenderHasWriter, Signalled, ConnectAgreesWithRun, Asked, ConnectedMeansForked,
     Wakes, RunWakes, ClientWakes, ForksAhead, Ended, Active
<1>5. ~dangling' => Wakes'
  BY <1>1, <1>2 DEF RestOf, Grown, RunStates, WriterStates, CloserStates, Signalled,
     Wakes, RunWakes, WriterWakes, CloserWakes, ClientWakes, ForksAhead, Ended, Active
<1> QED BY <1>3, <1>4, <1>5

\* R goes on from the latch to the connect state.
LEMMA RequestedOnHolds ==
    ASSUME WsInv, Requested, run'.pc = "connecting"
    PROVE  WsInv'
<1>1. RestOf("R")
  BY Rests DEF Requested
<1>2. /\ result = "ok"
      /\ run' = [run EXCEPT !.pc = "connecting", !.onClose = "connect"]
      /\ ops' = ops \cup {"connect"} /\ ready' = rest /\ run.pc = "await_connect"
      /\ UNCHANGED <<latch, sig, kpc, w, c, sender, frames, ghosts>>
  BY DEF Requested, RunFails, WsInv, TypeOK, RunStates
<1> USE DEF WsInv, TypeOK, ghosts
<1>3. TypeOK'
  <2>1. ready' \in Seq(Resume)
    BY <1>1, <1>2 DEF RestOf
  <2>2. run' \in RunStates
    BY <1>2 DEF RunStates
  <2>3. ops' \subseteq {"connect", "read", "write", "close"}
    BY <1>2
  <2> QED BY <1>2, <2>1, <2>2, <2>3
<1>4. WriterSafe' /\ Signalled' /\ Asked' /\ ConnectedMeansForked'
  BY <1>1, <1>2 DEF RestOf, RunStates, WriterStates, CloserStates, WriterSafe,
     SenderHasWriter, Signalled, ConnectAgreesWithRun, Asked, ConnectedMeansForked,
     Wakes, RunWakes, ClientWakes, ForksAhead, Ended, Active
<1>5. ~dangling' => Wakes'
  BY <1>1, <1>2 DEF RestOf, RunStates, WriterStates, CloserStates, Signalled, Wakes,
     RunWakes, WriterWakes, CloserWakes, ClientWakes, ForksAhead, Ended, Active
<1> QED BY <1>3, <1>4, <1>5

\* The forks run to their first suspension at once.
LEMMA ForkInlineHolds ==
    ASSUME WsInv, Connected, run'.pc = "reading", inline
    PROVE  WsInv'
<1>1. RestOf("R")
  BY Rests DEF Connected
<1>2. /\ Fork /\ run.pc = "connecting" /\ result = "ok"
      /\ run' = [run EXCEPT !.pc = "reading", !.onClose = "action"]
      /\ UNCHANGED <<latch, kpc, frames, ghosts>>
  BY DEF Connected, RunFails, WsInv, TypeOK, RunStates
<1>3. rest \in Seq(Resume) /\ sig.handler \in BOOLEAN /\ Item("K", "ok") \in Resume
      /\ w.pc = "none" /\ c.pc = "none" /\ ~w.err /\ ~w.cancel /\ ~sig.set
      /\ ~Has(rest, "W") /\ ~Has(rest, "C") /\ ~Told(rest, "K", "ok")
  BY <1>1, <1>2, Items DEF RestOf, WsInv, TypeOK, RunStates, WriterStates, Signalled,
     WriterSafe, Wakes, WriterWakes, CloserWakes
<1>4. ready' = IF sig.handler THEN Append(rest, Item("K", "ok")) ELSE rest
  BY <1>2, <1>3, Concats DEF Fork, Announce
<1>5. Grown(rest, sig.handler, "K", "ok", ready')
  BY <1>3, <1>4, Posts
<1>6. /\ w' = [w EXCEPT !.pc = "popping", !.cancel = TRUE, !.popper = TRUE]
      /\ c' = [c EXCEPT !.pc = "waiting", !.hooks = TRUE, !.latch = "waiting"]
  BY <1>2 DEF Fork, WriterStarted, CloserStarted
<1>7. "write" \notin ops' /\ "close" \notin ops'
  BY <1>1, <1>2, <1>3 DEF Fork, RestOf, WsInv, Wakes, WriterWakes, CloserWakes
<1> USE DEF WsInv, TypeOK, Fork, ghosts
<1>8. TypeOK'
  <2>1. ready' \in Seq(Resume)
    BY <1>1, <1>2, <1>4, <1>5 DEF RestOf, Grown
  <2>2. run' \in RunStates
    BY <1>2 DEF RunStates
  <2>3. sig' \in [set : BOOLEAN, err : BOOLEAN, handler : BOOLEAN]
    BY <1>2
  <2>4. w' \in WriterStates
    BY <1>2, <1>6 DEF WriterStates
  <2>5. c' \in CloserStates
    BY <1>2, <1>6 DEF CloserStates, Latched
  <2>6. ops' \subseteq {"connect", "read", "write", "close"}
    BY <1>2, <1>7
  <2> QED BY <1>2, <2>1, <2>2, <2>3, <2>4, <2>5, <2>6
<1>9. WriterSafe' /\ Signalled' /\ Asked' /\ ConnectedMeansForked'
  BY <1>1, <1>2, <1>3, <1>4, <1>5, <1>6, <1>7 DEF RestOf, Grown, RunStates,
     WriterStates, CloserStates, WriterSafe, SenderHasWriter, Signalled,
     ConnectAgreesWithRun, Asked, ConnectedMeansForked, Wakes, RunWakes, ClientWakes,
     ForksAhead, Ended, Active
<1>10. ~dangling' => Wakes'
  BY <1>1, <1>2, <1>3, <1>4, <1>5, <1>6, <1>7 DEF RestOf, Grown, RunStates,
     WriterStates, CloserStates, Signalled, Wakes, RunWakes, WriterWakes, CloserWakes,
     ClientWakes, ForksAhead, Ended, Active
<1> QED BY <1>8, <1>9, <1>10

\* The first steps of the forks are posted, ahead of the news for K.
LEMMA ForkPostedHolds ==
    ASSUME WsInv, Connected, run'.pc = "reading", ~inline
    PROVE  WsInv'
<1>1. RestOf("R")
  BY Rests DEF Connected
<1>2. /\ Fork /\ run.pc = "connecting" /\ result = "ok"
      /\ run' = [run EXCEPT !.pc = "reading", !.onClose = "action"]
      /\ UNCHANGED <<latch, kpc, frames, ghosts>>
  BY DEF Connected, RunFails, WsInv, TypeOK, RunStates
<1>3. rest \in Seq(Resume) /\ sig.handler \in BOOLEAN /\ Item("K", "ok") \in Resume
      /\ w.pc = "none" /\ c.pc = "none" /\ ~w.err /\ ~w.cancel /\ ~sig.set
      /\ ~Has(rest, "W") /\ ~Has(rest, "C") /\ ~Told(rest, "K", "ok")
  BY <1>1, <1>2, Items DEF RestOf, WsInv, TypeOK, RunStates, WriterStates, Signalled,
     WriterSafe, Wakes, WriterWakes, CloserWakes
<1>4. \E t : t = Append(rest, Item("W", "ok"))
  OBVIOUS
<1> PICK one : one = Append(rest, Item("W", "ok"))
  BY <1>4
<1>5. \E t : t = Append(one, Item("C", "ok"))
  OBVIOUS
<1> PICK two : two = Append(one, Item("C", "ok"))
  BY <1>5
<1>6. Grown(rest, TRUE, "W", "ok", one)
  BY <1>3, Grows
<1>7. Grown(one, TRUE, "C", "ok", two)
  <2>1. one \in Seq(Resume)
    BY <1>6 DEF Grown
  <2> QED BY <2>1, Grows
<1>8. ready' = IF sig.handler THEN Append(two, Item("K", "ok")) ELSE two
  <2>1. two = rest \o <<Item("W", "ok"), Item("C", "ok")>> /\ two \in Seq(Resume)
    BY <1>3, <1>7, Items, Concats DEF Grown
  <2> QED BY <1>2, <1>3, <2>1, Concats DEF Fork, Announce
<1>9. Grown(two, sig.handler, "K", "ok", ready')
  <2>1. two \in Seq(Resume)
    BY <1>7 DEF Grown
  <2> QED BY <1>3, <1>8, <2>1, Posts
<1>10. /\ w' = [w EXCEPT !.pc = "spawned"] /\ c' = [c EXCEPT !.pc = "spawned"]
       /\ sender' = sender
  BY <1>2 DEF Fork
<1> USE DEF WsInv, TypeOK, Fork, ghosts
<1>11. TypeOK'
  <2>1. ready' \in Seq(Resume)
    BY <1>1, <1>2, <1>6, <1>7, <1>8, <1>9 DEF RestOf, Grown
  <2>2. run' \in RunStates
    BY <1>2 DEF RunStates
  <2>3. sig' \in [set : BOOLEAN, err : BOOLEAN, handler : BOOLEAN]
    BY <1>2
  <2>4. w' \in WriterStates
    BY <1>2, <1>10 DEF WriterStates
  <2>5. c' \in CloserStates
    BY <1>2, <1>10 DEF CloserStates, Latched
  <2>6. ops' \subseteq {"connect", "read", "write", "close"}
    BY <1>2
  <2> QED BY <1>2, <1>10, <2>1, <2>2, <2>3, <2>4, <2>5, <2>6
<1>12. WriterSafe' /\ Signalled' /\ Asked' /\ ConnectedMeansForked'
  BY <1>1, <1>2, <1>3, <1>6, <1>7, <1>8, <1>9, <1>10 DEF RestOf, Grown, RunStates,
     WriterStates, CloserStates, WriterSafe, SenderHasWriter, Signalled,
     ConnectAgreesWithRun, Asked, ConnectedMeansForked, Wakes, RunWakes, ClientWakes,
     ForksAhead, Ended, Active
<1>13. ~dangling' => Distinct(ready')
  BY <1>1, <1>2, <1>3, <1>6, <1>7, <1>8, <1>9, <1>10 DEF RestOf, Grown, RunStates,
     WriterStates, CloserStates, Signalled, Wakes, RunWakes, WriterWakes, CloserWakes,
     ClientWakes, ForksAhead, Ended, Active
<1>14. ~dangling' => RunWakes'
  BY <1>1, <1>2, <1>3, <1>6, <1>7, <1>8, <1>9, <1>10 DEF RestOf, Grown, Wakes,
     RunWakes, RunStates, Active
<1>15. ~dangling' => WriterWakes'
  BY <1>1, <1>2, <1>3, <1>6, <1>7, <1>8, <1>9, <1>10 DEF RestOf, Grown, Wakes,
     WriterWakes, WriterStates
<1>16. ~dangling' => CloserWakes'
  BY <1>1, <1>2, <1>3, <1>6, <1>7, <1>8, <1>9, <1>10 DEF RestOf, Grown, Wakes,
     CloserWakes, CloserStates
<1>17. ~dangling' => ClientWakes'
  BY <1>1, <1>2, <1>3, <1>6, <1>7, <1>8, <1>9, <1>10 DEF RestOf, Grown, Wakes, ClientWakes
<1>18. ~dangling' => ForksAhead'
  BY <1>1, <1>2, <1>3, <1>6, <1>7, <1>8, <1>9, <1>10 DEF RestOf, Grown, Wakes,
     ForksAhead, WriterStates, CloserStates
<1> QED BY <1>11, <1>12, <1>13, <1>14, <1>15, <1>16, <1>17, <1>18 DEF Wakes

\* R reads.
LEMMA ReadFrameHolds ==
    ASSUME WsInv, ReadFrame
    PROVE  WsInv'
<1>1. RestOf("R")
  BY Rests DEF ReadFrame
<1> USE DEF WsInv, TypeOK, ReadFrame, ghosts
<1>2. TypeOK'
  <2>1. ready' \in Seq(Resume)
    BY <1>1 DEF RestOf
  <2>2. ops' \subseteq {"connect", "read", "write", "close"}
    OBVIOUS
  <2> QED BY <2>1, <2>2
<1>3. WriterSafe' /\ Signalled' /\ Asked' /\ ConnectedMeansForked'
  BY <1>1 DEF RestOf, RunStates, WriterStates, CloserStates, WriterSafe,
     SenderHasWriter, Signalled, ConnectAgreesWithRun, Asked, ConnectedMeansForked,
     Wakes, RunWakes, ClientWakes, ForksAhead, Ended, Active
<1>4. ~dangling' => Wakes'
  BY <1>1 DEF RestOf, RunStates, WriterStates, CloserStates, Signalled, Wakes,
     RunWakes, WriterWakes, CloserWakes, ClientWakes, ForksAhead, Ended, Active
<1> QED BY <1>2, <1>3, <1>4

LEMMA ReadClosedHolds ==
    ASSUME WsInv, ReadClosed
    PROVE  WsInv'
<1>1. RestOf("R")
  BY Rests DEF ReadClosed
<1> USE DEF WsInv, TypeOK, ReadClosed, RunReturns, ghosts
<1>2. TypeOK'
  <2>1. ready' \in Seq(Resume)
    BY <1>1 DEF RestOf
  <2>2. run' \in RunStates
    BY DEF RunStates
  <2>3. {inline, sender, frames, closeCalled, dangling}' \subseteq BOOLEAN
    OBVIOUS
  <2> QED BY <2>1, <2>2, <2>3
<1>3. WriterSafe' /\ Signalled' /\ Asked' /\ ConnectedMeansForked'
  BY <1>1 DEF RestOf, RunStates, WriterStates, CloserStates, WriterSafe,
     SenderHasWriter, Signalled, ConnectAgreesWithRun, Asked, ConnectedMeansForked,
     Wakes, RunWakes, ClientWakes, ForksAhead, Ended, Active
<1>4. ~dangling' => Wakes'
  BY <1>1 DEF RestOf, RunStates, WriterStates, CloserStates, Signalled, Wakes,
     RunWakes, WriterWakes, CloserWakes, ClientWakes, ForksAhead, Ended, Active
<1> QED BY <1>2, <1>3, <1>4

LEMMA ReadFailsHolds ==
    ASSUME WsInv, ReadFails
    PROVE  WsInv'
<1>1. RestOf("R")
  BY Rests DEF ReadFails
<1>2. /\ rest \in Seq(Resume)
      /\ (Cancelled /\ w.popper) \in BOOLEAN /\ (Cancelled /\ CloserWaits) \in BOOLEAN
      /\ w.cancel \in BOOLEAN /\ dangling \in BOOLEAN /\ w.popper \in BOOLEAN
      /\ Item("W", "error") \in Resume /\ Item("C", "error") \in Resume
  BY <1>1, Items DEF RestOf, WsInv, TypeOK, WriterStates, CloserStates, CloserWaits,
     Cancelled
<1>3. \E t : t = IF Cancelled /\ w.popper THEN Append(rest, Item("W", "error")) ELSE rest
  OBVIOUS
<1> PICK first :
      first = IF Cancelled /\ w.popper THEN Append(rest, Item("W", "error")) ELSE rest
  BY <1>3
<1>4. Grown(rest, (Cancelled /\ w.popper), "W", "error", first)
  BY <1>2, Posts
<1>5. first \in Seq(Resume)
  BY <1>2
<1>6. /\ ready' = IF Cancelled /\ CloserWaits THEN Append(first, Item("C", "error"))
                                            ELSE first
      /\ w' = IF Cancelled THEN [w EXCEPT !.err = TRUE, !.popper = FALSE] ELSE w
      /\ sender' = IF Cancelled THEN FALSE ELSE sender
      /\ dangling' = IF w.cancel /\ w.pc = "done" THEN TRUE ELSE dangling
  <2> DEFINE last == IF CloserWaits THEN <<Item("C", "error")>> ELSE <<>>
  <2>1. CancelWriter(rest, last)
    BY DEF ReadFails, CloserWaits
  <2>2. Cancelled => first = rest \o (IF w.popper THEN <<Item("W", "error")>> ELSE <<>>)
    BY <1>2, Concats
  <2>3. first \o last = IF CloserWaits THEN Append(first, Item("C", "error")) ELSE first
    BY <1>2, <1>5, Concats
  <2> HIDE DEF last
  <2> QED BY <1>2, <2>1, <2>2, <2>3 DEF CancelWriter, Cancelled
<1>7. Grown(first, Cancelled /\ CloserWaits, "C", "error", ready')
  BY <1>2, <1>5, <1>6, Posts
<1>8. /\ run' = IF w.cancel THEN [run EXCEPT !.pc = "returned"]
                           ELSE [run EXCEPT !.pc = "threw", !.onClose = "null"]
      /\ sig' = IF w.cancel THEN sig ELSE [sig EXCEPT !.err = TRUE]
      /\ c' = IF w.cancel /\ c.hooks THEN [c EXCEPT !.latch = "error"] ELSE c
      /\ frames' = FALSE /\ run.pc = "reading" /\ result = "error"
      /\ UNCHANGED <<inline, latch, kpc, ops, closeCalled>>
  BY DEF ReadFails, RunReturns
<1>9. /\ sig.set /\ ~sig.handler /\ w'.pc = w.pc /\ c'.pc = c.pc
      /\ run'.pc \in {"returned", "threw"}
      /\ sig'.set = sig.set /\ sig'.handler = sig.handler
  BY <1>6, <1>8 DEF WsInv, Signalled, TypeOK, RunStates, WriterStates, CloserStates
<1> USE DEF WsInv, TypeOK, CloserWaits, Cancelled, ghosts
<1>10. TypeOK'
  <2>1. ready' \in Seq(Resume)
    BY <1>1, <1>4, <1>6, <1>7, <1>8 DEF RestOf, Grown
  <2>2. run' \in RunStates
    <3>1. CASE w.cancel
      BY <1>8, <1>9, <3>1 DEF RunStates
    <3>2. CASE ~w.cancel
      BY <1>8, <1>9, <3>2 DEF RunStates
    <3> QED BY <3>1, <3>2
  <2>3. sig' \in [set : BOOLEAN, err : BOOLEAN, handler : BOOLEAN]
    <3>1. CASE w.cancel
      BY <1>8, <1>9, <3>1
    <3>2. CASE ~w.cancel
      BY <1>8, <1>9, <3>2
    <3> QED BY <3>1, <3>2
  <2>4. w' \in WriterStates
    BY <1>6, <1>8, <1>9 DEF WriterStates
  <2>5. c' \in CloserStates
    <3>1. CASE w.cancel
      BY <1>8, <1>9, <3>1 DEF CloserStates, Latched
    <3>2. CASE ~w.cancel
      BY <1>8, <1>9, <3>2 DEF CloserStates, Latched
    <3> QED BY <3>1, <3>2
  <2>6. {inline, sender, frames, closeCalled, dangling}' \subseteq BOOLEAN
    BY <1>6, <1>8
  <2> QED BY <1>6, <1>8, <2>1, <2>2, <2>3, <2>4, <2>5, <2>6
<1>11. WriterSafe' /\ Signalled' /\ Asked' /\ ConnectedMeansForked'
  BY <1>1, <1>2, <1>4, <1>5, <1>6, <1>7, <1>8, <1>9 DEF RestOf, Grown, RunStates,
     WriterStates, CloserStates, WriterSafe, SenderHasWriter, Signalled,
     ConnectAgreesWithRun, Asked, ConnectedMeansForked, Wakes, RunWakes, ClientWakes,
     ForksAhead, Ended, Active
<1>12. ~dangling' => Wakes'
  BY <1>1, <1>2, <1>4, <1>5, <1>6, <1>7, <1>8, <1>9 DEF RestOf, Grown, RunStates,
     WriterStates, CloserStates, Signalled, Wakes, RunWakes, WriterWakes, CloserWakes,
     ClientWakes, ForksAhead, Ended, Active
<1> QED BY <1>10, <1>11, <1>12

\* W or C resumes when the run is over.
LEMMA OrphanedHolds ==
    ASSUME WsInv, NEW x \in {"W", "C"}, Resuming(x), Orphaned
    PROVE  WsInv'
<1>1. RestOf(x)
  BY Rests
<1> USE DEF WsInv, TypeOK, Orphaned, ghosts
<1>2. TypeOK'
  <2>1. ready' \in Seq(Resume)
    BY <1>1 DEF RestOf
  <2> QED BY <2>1
<1>3. WriterSafe' /\ Signalled' /\ Asked' /\ ConnectedMeansForked'
  BY <1>1 DEF RestOf, RunStates, WriterStates, CloserStates, WriterSafe,
     SenderHasWriter, Signalled, ConnectAgreesWithRun, Asked, ConnectedMeansForked,
     Wakes, RunWakes, ClientWakes, ForksAhead, Ended, Active
<1>4. ~dangling' => Wakes'
  BY <1>1 DEF RestOf, RunStates, WriterStates, CloserStates, Signalled, Wakes,
     RunWakes, WriterWakes, CloserWakes, ClientWakes, ForksAhead, Ended, Active
<1> QED BY <1>2, <1>3, <1>4

\* W.
LEMMA WriterStartHolds ==
    ASSUME WsInv, WriterStart
    PROVE  WsInv'
<1>1. RestOf("W")
  BY Rests DEF WriterStart, WriterResumes
<1> USE DEF WsInv, TypeOK, WriterStart, WriterResumes, WriterStarted, ghosts
<1>2. TypeOK'
  <2>1. ready' \in Seq(Resume)
    BY <1>1 DEF RestOf
  <2>2. w' \in WriterStates
    BY DEF WriterStates
  <2> QED BY <2>1, <2>2
<1>3. WriterSafe' /\ Signalled' /\ Asked' /\ ConnectedMeansForked'
  BY <1>1 DEF RestOf, RunStates, WriterStates, CloserStates, WriterSafe,
     SenderHasWriter, Signalled, ConnectAgreesWithRun, Asked, ConnectedMeansForked,
     Wakes, RunWakes, ClientWakes, ForksAhead, Ended, Active
<1>4. ~dangling' => Wakes'
  BY <1>1 DEF RestOf, RunStates, WriterStates, CloserStates, Signalled, Wakes,
     RunWakes, WriterWakes, CloserWakes, ClientWakes, ForksAhead, Ended, Active
<1> QED BY <1>2, <1>3, <1>4

LEMMA WriterStopsHolds ==
    ASSUME WsInv, WriterResumes, w.pc \in {"popping", "writing"}, WriterStops
    PROVE  WsInv'
<1>1. RestOf("W")
  BY Rests DEF WriterResumes
<1> USE DEF WsInv, TypeOK, WriterResumes, WriterStops, ghosts
<1>2. TypeOK'
  <2>1. ready' \in Seq(Resume)
    BY <1>1 DEF RestOf
  <2>2. w' \in WriterStates
    BY DEF WriterStates
  <2>3. {inline, sender, frames, closeCalled, dangling}' \subseteq BOOLEAN
    OBVIOUS
  <2> QED BY <2>1, <2>2, <2>3
<1>3. WriterSafe' /\ Signalled' /\ Asked' /\ ConnectedMeansForked'
  BY <1>1 DEF RestOf, RunStates, WriterStates, CloserStates, WriterSafe,
     SenderHasWriter, Signalled, ConnectAgreesWithRun, Asked, ConnectedMeansForked,
     Wakes, RunWakes, ClientWakes, ForksAhead, Ended, Active
<1>4. ~dangling' => Wakes'
  BY <1>1 DEF RestOf, RunStates, WriterStates, CloserStates, Signalled, Wakes,
     RunWakes, WriterWakes, CloserWakes, ClientWakes, ForksAhead, Ended, Active
<1> QED BY <1>2, <1>3, <1>4

LEMMA WriterPoppedOnHolds ==
    ASSUME WsInv, WriterPopped, w'.pc = "writing"
    PROVE  WsInv'
<1>1. RestOf("W")
  BY Rests DEF WriterPopped, WriterResumes
<1>2. /\ ~w.err /\ w.pc = "popping" /\ WriterResumes
      /\ w' = [w EXCEPT !.pc = "writing", !.cancel = FALSE]
      /\ ops' = ops \cup {"write"} /\ ready' = rest /\ sender' = sender
  BY DEF WriterPopped, WriterStops, WsInv, TypeOK, WriterStates
<1> USE DEF WsInv, TypeOK, WriterResumes, ghosts
<1>3. TypeOK'
  <2>1. ready' \in Seq(Resume)
    BY <1>1, <1>2 DEF RestOf
  <2>2. w' \in WriterStates
    BY <1>2 DEF WriterStates
  <2>3. ops' \subseteq {"connect", "read", "write", "close"}
    BY <1>2
  <2> QED BY <1>2, <2>1, <2>2, <2>3
<1>4. WriterSafe' /\ Signalled' /\ Asked' /\ ConnectedMeansForked'
  BY <1>1, <1>2 DEF RestOf, RunStates, WriterStates, CloserStates, WriterSafe,
     SenderHasWriter, Signalled, ConnectAgreesWithRun, Asked, ConnectedMeansForked,
     Wakes, RunWakes, ClientWakes, ForksAhead, Ended, Active
<1>5. ~dangling' => Wakes'
  BY <1>1, <1>2 DEF RestOf, RunStates, WriterStates, CloserStates, Signalled, Wakes,
     RunWakes, WriterWakes, CloserWakes, ClientWakes, ForksAhead, Ended, Active
<1> QED BY <1>3, <1>4, <1>5

LEMMA WriterWroteOnHolds ==
    ASSUME WsInv, WriterWrote, w'.pc = "popping"
    PROVE  WsInv'
<1>1. RestOf("W")
  BY Rests DEF WriterWrote, WriterResumes
<1>2. /\ ~w.err /\ w.pc = "writing" /\ WriterResumes
      /\ w' = [w EXCEPT !.pc = "popping", !.cancel = TRUE, !.popper = ~w.queued]
      /\ ready' = (IF w.queued THEN Append(rest, Item("W", "ok")) ELSE rest)
      /\ UNCHANGED <<sender, ops>>
  BY DEF WriterWrote, WriterStops, WsInv, TypeOK, WriterStates
<1>3. Grown(rest, w.queued, "W", "ok", ready')
  <2>1. rest \in Seq(Resume) /\ w.queued \in BOOLEAN
    BY <1>1 DEF RestOf, WsInv, TypeOK, WriterStates
  <2> QED BY <1>2, <2>1, Posts
<1> USE DEF WsInv, TypeOK, WriterResumes, ghosts
<1>4. TypeOK'
  <2>1. ready' \in Seq(Resume)
    BY <1>1, <1>2, <1>3 DEF RestOf, Grown
  <2>2. w' \in WriterStates
    BY <1>2 DEF WriterStates
  <2> QED BY <1>2, <2>1, <2>2
<1>5. WriterSafe' /\ Signalled' /\ Asked' /\ ConnectedMeansForked'
  BY <1>1, <1>2, <1>3 DEF RestOf, Grown, RunStates, WriterStates, CloserStates,
     WriterSafe, SenderHasWriter, Signalled, ConnectAgreesWithRun, Asked,
     ConnectedMeansForked, Wakes, RunWakes, ClientWakes, ForksAhead, Ended, Active
<1>6. ~dangling' => Wakes'
  BY <1>1, <1>2, <1>3 DEF RestOf, Grown, RunStates, WriterStates, CloserStates,
     Signalled, Wakes, RunWakes, WriterWakes, CloserWakes, ClientWakes, ForksAhead,
     Ended, Active
<1> QED BY <1>4, <1>5, <1>6

\* C.
LEMMA CloserStartHolds ==
    ASSUME WsInv, CloserStart
    PROVE  WsInv'
<1>1. RestOf("C")
  BY Rests DEF CloserStart, CloserResumes
<1> USE DEF WsInv, TypeOK, CloserStart, CloserResumes, CloserStarted, ghosts
<1>2. TypeOK'
  <2>1. ready' \in Seq(Resume)
    BY <1>1 DEF RestOf
  <2>2. c' \in CloserStates
    BY DEF CloserStates, Latched
  <2> QED BY <2>1, <2>2
<1>3. WriterSafe' /\ Signalled' /\ Asked' /\ ConnectedMeansForked'
  BY <1>1 DEF RestOf, RunStates, WriterStates, CloserStates, WriterSafe,
     SenderHasWriter, Signalled, ConnectAgreesWithRun, Asked, ConnectedMeansForked,
     Wakes, RunWakes, ClientWakes, ForksAhead, Ended, Active
<1>4. ~dangling' => Wakes'
  BY <1>1 DEF RestOf, RunStates, WriterStates, CloserStates, Signalled, Wakes,
     RunWakes, WriterWakes, CloserWakes, ClientWakes, ForksAhead, Ended, Active
<1> QED BY <1>2, <1>3, <1>4

LEMMA CloserClosesHolds ==
    ASSUME WsInv, CloserReleased, c'.pc = "closing"
    PROVE  WsInv'
<1>1. RestOf("C")
  BY Rests DEF CloserReleased, CloserResumes
<1>2. /\ c.pc = "waiting" /\ CloserResumes
      /\ c' = [c EXCEPT !.pc = "closing", !.hooks = FALSE] /\ ops' = ops \cup {"close"}
  BY DEF CloserReleased, WsInv, TypeOK, CloserStates
<1> USE DEF WsInv, TypeOK, CloserResumes, ghosts
<1>3. TypeOK'
  <2>1. ready' \in Seq(Resume)
    BY <1>1, <1>2 DEF RestOf
  <2>2. c' \in CloserStates
    BY <1>2 DEF CloserStates, Latched
  <2>3. ops' \subseteq {"connect", "read", "write", "close"}
    BY <1>2
  <2> QED BY <1>2, <2>1, <2>2, <2>3
<1>4. WriterSafe' /\ Signalled' /\ Asked' /\ ConnectedMeansForked'
  BY <1>1, <1>2 DEF RestOf, RunStates, WriterStates, CloserStates, WriterSafe,
     SenderHasWriter, Signalled, ConnectAgreesWithRun, Asked, ConnectedMeansForked,
     Wakes, RunWakes, ClientWakes, ForksAhead, Ended, Active
<1>5. ~dangling' => Wakes'
  BY <1>1, <1>2 DEF RestOf, RunStates, WriterStates, CloserStates, Signalled, Wakes,
     RunWakes, WriterWakes, CloserWakes, ClientWakes, ForksAhead, Ended, Active
<1> QED BY <1>3, <1>4, <1>5

LEMMA CloserStopsHolds ==
    ASSUME WsInv, CloserReleased, c'.pc = "done"
    PROVE  WsInv'
<1>1. RestOf("C")
  BY Rests DEF CloserReleased, CloserResumes
<1>2. /\ c.pc = "waiting" /\ CloserResumes
      /\ c' = [c EXCEPT !.pc = "done", !.hooks = FALSE] /\ ops' = ops
  BY DEF CloserReleased, WsInv, TypeOK, CloserStates
<1> USE DEF WsInv, TypeOK, CloserResumes, ghosts
<1>3. TypeOK'
  <2>1. ready' \in Seq(Resume)
    BY <1>1, <1>2 DEF RestOf
  <2>2. c' \in CloserStates
    BY <1>2 DEF CloserStates, Latched
  <2> QED BY <1>2, <2>1, <2>2
<1>4. WriterSafe' /\ Signalled' /\ Asked' /\ ConnectedMeansForked'
  BY <1>1, <1>2 DEF RestOf, RunStates, WriterStates, CloserStates, WriterSafe,
     SenderHasWriter, Signalled, ConnectAgreesWithRun, Asked, ConnectedMeansForked,
     Wakes, RunWakes, ClientWakes, ForksAhead, Ended, Active
<1>5. ~dangling' => Wakes'
  BY <1>1, <1>2 DEF RestOf, RunStates, WriterStates, CloserStates, Signalled, Wakes,
     RunWakes, WriterWakes, CloserWakes, ClientWakes, ForksAhead, Ended, Active
<1> QED BY <1>3, <1>4, <1>5

LEMMA CloserDoneHolds ==
    ASSUME WsInv, CloserDone
    PROVE  WsInv'
<1>1. RestOf("C")
  BY Rests DEF CloserDone, CloserResumes
<1> USE DEF WsInv, TypeOK, CloserDone, CloserResumes, ghosts
<1>2. TypeOK'
  <2>1. ready' \in Seq(Resume)
    BY <1>1 DEF RestOf
  <2>2. c' \in CloserStates
    BY DEF CloserStates, Latched
  <2> QED BY <2>1, <2>2
<1>3. WriterSafe' /\ Signalled' /\ Asked' /\ ConnectedMeansForked'
  BY <1>1 DEF RestOf, RunStates, WriterStates, CloserStates, WriterSafe,
     SenderHasWriter, Signalled, ConnectAgreesWithRun, Asked, ConnectedMeansForked,
     Wakes, RunWakes, ClientWakes, ForksAhead, Ended, Active
<1>4. ~dangling' => Wakes'
  BY <1>1 DEF RestOf, RunStates, WriterStates, CloserStates, Signalled, Wakes,
     RunWakes, WriterWakes, CloserWakes, ClientWakes, ForksAhead, Ended, Active
<1> QED BY <1>2, <1>3, <1>4

\* K.
LEMMA ConnectReturnsHolds ==
    ASSUME WsInv, ConnectReturns
    PROVE  WsInv'
<1>1. RestOf("K")
  BY Rests DEF ConnectReturns
<1> USE DEF WsInv, TypeOK, ConnectReturns, ghosts
<1>2. TypeOK'
  <2>1. ready' \in Seq(Resume)
    BY <1>1 DEF RestOf
  <2> QED BY <2>1
<1>3. WriterSafe' /\ Signalled' /\ Asked' /\ ConnectedMeansForked'
  BY <1>1 DEF RestOf, RunStates, WriterStates, CloserStates, WriterSafe,
     SenderHasWriter, Signalled, ConnectAgreesWithRun, Asked, ConnectedMeansForked,
     Wakes, RunWakes, ClientWakes, ForksAhead, Ended, Active
<1>4. ~dangling' => Wakes'
  BY <1>1 DEF RestOf, RunStates, WriterStates, CloserStates, Signalled, Wakes,
     RunWakes, WriterWakes, CloserWakes, ClientWakes, ForksAhead, Ended, Active
<1> QED BY <1>2, <1>3, <1>4

\* Every step keeps the invariant.
LEMMA WsStep == WsInv /\ [Next]_vars => WsInv'
<1> SUFFICES ASSUME WsInv, [Next]_vars PROVE WsInv'
  OBVIOUS
<1>1. CASE RunStart \/ ConnectCall \/ SendText
  BY <1>1, RunStartHolds, ConnectCallHolds, SendTextHolds
<1>2. CASE Close
  BY <1>2, CloseWaitingHolds, CloseConnectingHolds, CloseConnectedHolds,
     CloseDanglingHolds
     DEF Close
<1>3. CASE ConnectDone \/ WriteDone \/ CloseDone \/ ReadDone
  BY <1>3, ConnectDoneHolds, WriteDoneHolds, CloseDoneHolds, ReadDoneHolds
     DEF ConnectDone, WriteDone, CloseDone, ReadDone
<1>4. CASE Requested
  BY <1>4, RunFailsHolds, RequestedOnHolds DEF Requested, WsInv, TypeOK, RunStates
<1>5. CASE Connected
  <2>1. CASE RunFails
    BY <1>5, <2>1, RunFailsHolds DEF Connected
  <2>2. CASE run'.pc = "reading"
    BY <1>5, <2>2, ForkInlineHolds, ForkPostedHolds
  <2> QED BY <1>5, <2>1, <2>2 DEF Connected, WsInv, TypeOK, RunStates
<1>6. CASE ReadFrame \/ ReadClosed \/ ReadFails
  BY <1>6, ReadFrameHolds, ReadClosedHolds, ReadFailsHolds
<1>7. CASE Orphaned
  BY <1>7, OrphanedHolds DEF Orphaned
<1>8. CASE WriterStart
  BY <1>8, WriterStartHolds
<1>9. CASE WriterPopped
  <2>1. CASE WriterStops
    BY <1>9, <2>1, WriterStopsHolds DEF WriterPopped
  <2>2. CASE w'.pc = "writing"
    BY <1>9, <2>2, WriterPoppedOnHolds
  <2> QED BY <1>9, <2>1, <2>2 DEF WriterPopped, WsInv, TypeOK, WriterStates
<1>10. CASE WriterWrote
  <2>1. CASE WriterStops
    BY <1>10, <2>1, WriterStopsHolds DEF WriterWrote
  <2>2. CASE w'.pc = "popping"
    BY <1>10, <2>2, WriterWroteOnHolds
  <2> QED BY <1>10, <2>1, <2>2 DEF WriterWrote, WsInv, TypeOK, WriterStates
<1>11. CASE CloserStart \/ CloserDone \/ ConnectReturns
  BY <1>11, CloserStartHolds, CloserDoneHolds, ConnectReturnsHolds
<1>12. CASE CloserReleased
  BY <1>12, CloserClosesHolds, CloserStopsHolds
     DEF CloserReleased, WsInv, TypeOK, CloserStates
<1>13. CASE UNCHANGED vars
  BY <1>13 DEF vars, WsInv, TypeOK, WriterSafe, SenderHasWriter, Signalled,
     ConnectAgreesWithRun, Asked, ConnectedMeansForked, Wakes, RunWakes, WriterWakes,
     CloserWakes, ClientWakes, ForksAhead, Ended, Active
<1> QED BY <1>1, <1>2, <1>3, <1>4, <1>5, <1>6, <1>7, <1>8, <1>9, <1>10, <1>11, <1>12,
       <1>13 DEF Next, Task

\* What OneWakeup counts.
LEMMA Woken ==
    ASSUME ready \in Seq(Resume), Distinct(ready), NEW x, NEW stored \in BOOLEAN,
           ~(stored /\ Has(ready, x))
    PROVE  Cardinality(Wakeups(x, stored)) = IF stored \/ Has(ready, x) THEN 1 ELSE 0
<1>1. Len(ready) \in Nat /\ 0 \notin 1..Len(ready)
  OBVIOUS
<1>2. CASE stored
  <2>1. Wakeups(x, stored) = {0}
    BY <1>2 DEF Wakeups, Has
  <2> QED BY <1>2, <2>1, FS_Singleton
<1>3. CASE ~stored /\ Has(ready, x)
  <2> PICK i \in 1..Len(ready) : ready[i].who = x
    BY <1>3 DEF Has
  <2>1. Wakeups(x, stored) = {i}
    BY <1>3 DEF Wakeups, Distinct
  <2> QED BY <1>3, <2>1, FS_Singleton
<1>4. CASE ~stored /\ ~Has(ready, x)
  <2>1. Wakeups(x, stored) = {}
    BY <1>4 DEF Wakeups, Has
  <2> QED BY <1>4, <2>1, FS_EmptySet
<1> QED BY <1>2, <1>3, <1>4

\* The type invariant of the websocket.
THEOREM WebsocketTypes == Spec => []TypeOK
<1>1. WsInv => TypeOK
  BY DEF WsInv
<1> QED BY WsInit, WsStep, <1>1, PTL DEF Spec

\* send_text() never reaches the queue of a writer that was cancelled or is done.
THEOREM SenderRefersToWriter == Spec => []SenderHasWriter
<1>1. WsInv => SenderHasWriter
  BY DEF WsInv, WriterSafe
<1> QED BY WsInit, WsStep, <1>1, PTL DEF Spec

\* connect() succeeds or fails with the run, and no client is left waiting by a run that
\* has ended.
THEOREM ConnectMatchesRun == Spec => []ConnectAgreesWithRun
<1>1. WsInv => ConnectAgreesWithRun
  BY DEF WsInv, Signalled
<1> QED BY WsInit, WsStep, <1>1, PTL DEF Spec

\* When connect() returns, W and C have reached their first suspension, whether
\* co_spawn enters them at once or posts them.
THEOREM ForkedWhenConnected == Spec => []ConnectedMeansForked
<1>1. WsInv => ConnectedMeansForked
  BY DEF WsInv
<1> QED BY WsInit, WsStep, <1>1, PTL DEF Spec

\* No suspended coroutine is resumed twice or forgotten, on any way through the
\* connection.
THEOREM ResumedOnce == Spec => []OneWakeup
<1>1. WsInv => OneWakeup
  <2> SUFFICES ASSUME WsInv, ~dangling PROVE OneWakeup
    BY DEF OneWakeup
  <2>1. ready \in Seq(Resume) /\ Distinct(ready)
    BY DEF WsInv, TypeOK, Wakes
  <2> DEFINE storedR ==
               \/ run.pc = "await_connect" /\ latch.state = "waiting"
               \/ "connect" \in ops \/ "read" \in ops
             storedW == w.popper \/ "write" \in ops
             storedC == (c.pc = "waiting" /\ c.latch = "waiting") \/ "close" \in ops
  <2>2. Cardinality(Wakeups("R", storedR)) = IF Active THEN 1 ELSE 0
    <3>1. ~(storedR /\ Has(ready, "R")) /\ (storedR \/ Has(ready, "R") <=> Active)
      BY DEF WsInv, Wakes, RunWakes, Active
    <3> QED BY <2>1, <3>1, Woken
  <2>3. Cardinality(Wakeups("W", storedW))
          = IF w.pc \in {"spawned", "popping", "writing"} THEN 1 ELSE 0
    <3>1. /\ ~(storedW /\ Has(ready, "W"))
          /\ storedW \/ Has(ready, "W") <=> w.pc \in {"spawned", "popping", "writing"}
      BY DEF WsInv, Wakes, WriterWakes, TypeOK, WriterStates
    <3>2. storedW \in BOOLEAN
      BY DEF WsInv, TypeOK, WriterStates
    <3> QED BY <2>1, <3>1, <3>2, Woken
  <2>4. Cardinality(Wakeups("C", storedC))
          = IF c.pc \in {"spawned", "waiting", "closing"} THEN 1 ELSE 0
    <3>1. /\ ~(storedC /\ Has(ready, "C"))
          /\ storedC \/ Has(ready, "C") <=> c.pc \in {"spawned", "waiting", "closing"}
      BY DEF WsInv, Wakes, CloserWakes
    <3> QED BY <2>1, <3>1, Woken
  <2>5. Cardinality(Wakeups("K", sig.handler)) = IF kpc = "waiting" THEN 1 ELSE 0
    <3>1. /\ ~(sig.handler /\ Has(ready, "K")) /\ sig.handler \in BOOLEAN
          /\ sig.handler \/ Has(ready, "K") <=> kpc = "waiting"
      BY DEF WsInv, Wakes, ClientWakes, TypeOK
    <3> QED BY <2>1, <3>1, Woken
  <2> QED BY <2>2, <2>3, <2>4, <2>5 DEF OneWakeup
<1> QED BY WsInit, WsStep, <1>1, PTL DEF Spec

-----------------------------------------------------------------------------
(* connected_signal_ as a latch.                                           *)

\* The results of connect() where the queue is s and K is at k.
ResultsOf(s, k) ==
    {[wait |-> 1, ec |-> s[i].ec] : i \in {j \in 1..Len(s) : s[j].who = "K"}}
      \cup (IF k = "ok" THEN {[wait |-> 1, ec |-> "ok"]} ELSE {})
      \cup (IF k = "failed" THEN {[wait |-> 1, ec |-> "error"]} ELSE {})

\* K was told e, or has returned it.
Heard(s, k, e) ==
    Told(s, "K", e) \/ (k = "ok" /\ e = "ok") \/ (k = "failed" /\ e = "error")

LEMMA ResultsHeard ==
    ASSUME NEW s, NEW k
    PROVE  \A r : r \in ResultsOf(s, k) <=> \E e : r = [wait |-> 1, ec |-> e] /\ Heard(s, k, e)
<1> SUFFICES ASSUME NEW r
             PROVE  r \in ResultsOf(s, k) <=> \E e : r = [wait |-> 1, ec |-> e] /\ Heard(s, k, e)
  OBVIOUS
<1>1. ASSUME NEW i \in 1..Len(s), s[i].who = "K", r = [wait |-> 1, ec |-> s[i].ec]
      PROVE  \E e : r = [wait |-> 1, ec |-> e] /\ Heard(s, k, e)
  BY <1>1 DEF Heard, Told
<1>2. ASSUME r \in ResultsOf(s, k)
      PROVE  \E e : r = [wait |-> 1, ec |-> e] /\ Heard(s, k, e)
  <2>1. CASE \E i \in 1..Len(s) : s[i].who = "K" /\ r = [wait |-> 1, ec |-> s[i].ec]
    BY <1>1, <2>1
  <2>2. CASE k = "ok" /\ r = [wait |-> 1, ec |-> "ok"]
    BY <2>2 DEF Heard
  <2>3. CASE k = "failed" /\ r = [wait |-> 1, ec |-> "error"]
    BY <2>3 DEF Heard
  <2> QED BY <1>2, <2>1, <2>2, <2>3 DEF ResultsOf
<1>3. ASSUME NEW e, r = [wait |-> 1, ec |-> e], Heard(s, k, e)
      PROVE  r \in ResultsOf(s, k)
  <2>1. CASE Told(s, "K", e)
    BY <1>3, <2>1 DEF Told, ResultsOf
  <2>2. CASE k = "ok" /\ e = "ok"
    BY <1>3, <2>2 DEF ResultsOf
  <2>3. CASE k = "failed" /\ e = "error"
    BY <1>3, <2>3 DEF ResultsOf
  <2> QED BY <1>3, <2>1, <2>2, <2>3 DEF Heard
<1> QED BY <1>2, <1>3

\* When K has heard the same, and then when it has heard e besides.
LEMMA ResultsSame ==
    ASSUME NEW s, NEW k, NEW t, NEW l, \A e : Heard(t, l, e) <=> Heard(s, k, e)
    PROVE  ResultsOf(t, l) = ResultsOf(s, k)
<1>1. \A r : r \in ResultsOf(t, l) <=> r \in ResultsOf(s, k)
  BY ResultsHeard
<1> QED BY <1>1

Hears(s, k, e, t, l) == \A f : Heard(t, l, f) <=> Heard(s, k, f) \/ f = e

LEMMA ResultsGrow ==
    ASSUME NEW s, NEW k, NEW t, NEW l, NEW e, Hears(s, k, e, t, l)
    PROVE  ResultsOf(t, l) = ResultsOf(s, k) \cup {[wait |-> 1, ec |-> e]}
<1>1. \A r : r \in ResultsOf(t, l) <=> r \in ResultsOf(s, k) \/ r = [wait |-> 1, ec |-> e]
  BY ResultsHeard DEF Hears
<1> QED BY <1>1

LEMMA ResultsAre == ConnectResults = ResultsOf(ready, kpc)
BY DEF ConnectResults, ResultsOf

LEMMA ResultsAreNext == ConnectResults' = ResultsOf(ready', kpc')
BY DEF ConnectResults, ResultsOf

\* t holds the same news for K as s.
SameNews(s, t) == t \in Seq(Resume) /\ \A e : Told(t, "K", e) <=> Told(s, "K", e)

\* An item for another coroutine is no news for K.
LEMMA Aside ==
    ASSUME NEW s \in Seq(Resume), NEW x \in {"R", "W", "C"},
           NEW ec \in {"ok", "error", "closed", "frame"}
    PROVE  SameNews(s, Append(s, Item(x, ec)))
<1>1. Grown(s, TRUE, x, ec, Append(s, Item(x, ec)))
  BY Grows
<1> QED BY <1>1 DEF Grown, SameNews

\* Neither is what is left when another coroutine resumes.
LEMMA AsideRest ==
    ASSUME NEW x \in {"R", "W", "C"}, Resuming(x), ready \in Seq(Resume)
    PROVE  SameNews(ready, rest)
<1>1. /\ ready # <<>> /\ Head(ready).who = x /\ Len(ready) \in Nat /\ Len(ready) > 0
      /\ rest \in Seq(Resume) /\ Len(rest) \in Nat /\ Len(rest) = Len(ready) - 1
      /\ ready[1].who = x
      /\ \A i \in 1..Len(rest) : rest[i] = ready[i + 1]
  BY DEF Resuming, rest
<1>2. \A i \in 1..Len(rest) : i + 1 \in 1..Len(ready)
  BY <1>1
<1>3. \A i \in 1..Len(ready) : i = 1 \/ (i - 1 \in 1..Len(rest) /\ ready[i] = rest[i - 1])
  BY <1>1
<1> SUFFICES ASSUME NEW e PROVE Told(rest, "K", e) <=> Told(ready, "K", e)
  BY <1>1 DEF SameNews
<1>4. ASSUME Told(rest, "K", e) PROVE Told(ready, "K", e)
  BY <1>1, <1>2, <1>4 DEF Told
<1>5. ASSUME Told(ready, "K", e) PROVE Told(rest, "K", e)
  <2> PICK i \in 1..Len(ready) : ready[i].who = "K" /\ ready[i].ec = e
    BY <1>5 DEF Told
  <2>1. i # 1
    BY <1>1
  <2> QED BY <1>3, <2>1 DEF Told
<1> QED BY <1>4, <1>5

\* The cancel of the writer is none for K.
LEMMA AsideCancel ==
    ASSUME NEW first \in Seq(Resume), NEW last \in {<<>>, <<Item("C", "error")>>},
           CancelWriter(first, last)
    PROVE  SameNews(first, ready')
<1>1. first \o <<>> = first /\ Item("W", "error") \in Resume /\ Item("C", "error") \in Resume
  BY Items, Concats
<1>2. CASE ready' = first
  BY <1>2 DEF SameNews
<1>3. CASE ready' = first \o (IF w.popper THEN <<Item("W", "error")>> ELSE <<>>) \o last
  <2> DEFINE second == IF w.popper THEN Append(first, Item("W", "error")) ELSE first
  <2>1. second = first \o (IF w.popper THEN <<Item("W", "error")>> ELSE <<>>)
    BY <1>1, Concats
  <2>2. SameNews(first, second)
    BY Aside DEF SameNews
  <2>3. second \in Seq(Resume)
    BY <2>2 DEF SameNews
  <2>4. ready' = second \o last
    BY <1>3, <2>1
  <2> HIDE DEF second
  <2>5. CASE last = <<>>
    BY <2>2, <2>3, <2>4, <2>5, Concats
  <2>6. CASE last = <<Item("C", "error")>>
    <3>1. ready' = Append(second, Item("C", "error"))
      BY <1>1, <2>3, <2>4, <2>6, Concats
    <3>2. SameNews(second, ready')
      BY <2>3, <3>1, Aside
    <3> QED BY <2>2, <3>2 DEF SameNews
  <2> QED BY <2>5, <2>6
<1> QED BY <1>2, <1>3 DEF CancelWriter

\* The steps that are not about the signal.
Quiet == SameNews(ready, ready') /\ UNCHANGED <<sig, kpc>>

SignalVars == <<sig.set, IF sig.err THEN "error" ELSE "none",
                IF sig.handler THEN {1} ELSE {}, ConnectResults>>

LEMMA QuietStutters ==
    ASSUME Quiet
    PROVE  UNCHANGED SignalVars
<1>1. \A e : Heard(ready', kpc', e) <=> Heard(ready, kpc, e)
  BY DEF Quiet, SameNews, Heard
<1>2. ConnectResults' = ConnectResults
  BY <1>1, ResultsSame, ResultsAre, ResultsAreNext
<1> QED BY <1>2 DEF Quiet, SignalVars

\* The calls of the client but connect().
LEMMA CallsQuiet ==
    ASSUME WsInv, RunStart \/ Close \/ SendText
    PROVE  Quiet
<1>1. ready \in Seq(Resume) /\ SameNews(ready, ready)
  BY DEF WsInv, TypeOK, SameNews
<1>2. CASE RunStart
  BY <1>1, <1>2, Aside DEF RunStart, Quiet
<1>3. CASE SendText
  BY <1>1, <1>3, Aside DEF SendText, Quiet
<1>4. CASE Close
  <2>1. UNCHANGED <<sig, kpc>>
    BY <1>4 DEF Close
  <2>2. CASE CloseBeforeConnect
    BY <1>1, <2>1, <2>2, Aside DEF CloseBeforeConnect, Quiet
  <2>3. CASE CloseConnecting \/ CloseDangling
    BY <1>1, <2>1, <2>3 DEF CloseConnecting, CloseDangling, Quiet
  <2>4. CASE CloseConnected
    <3> DEFINE first == IF c.hooks /\ c.latch = "waiting"
                        THEN Append(ready, Item("C", "ok")) ELSE ready
    <3>1. SameNews(ready, first) /\ CancelWriter(first, <<>>)
      BY <1>1, <2>4, Aside DEF CloseConnected
    <3> HIDE DEF first
    <3>2. SameNews(first, ready')
      BY <3>1, AsideCancel DEF SameNews
    <3> QED BY <2>1, <3>1, <3>2 DEF SameNews, Quiet
  <2> QED BY <1>4, <2>2, <2>3, <2>4 DEF Close
<1> QED BY <1>2, <1>3, <1>4

\* The operations of the stream.
LEMMA StreamQuiet ==
    ASSUME WsInv, ConnectDone \/ WriteDone \/ CloseDone \/ ReadDone
    PROVE  Quiet
<1>1. ready \in Seq(Resume)
  BY DEF WsInv, TypeOK
<1>2. \A op, x, ec : x \in {"R", "W", "C"} /\ ec \in {"ok", "error", "closed", "frame"}
                     /\ Complete(op, x, ec) => Quiet
  BY <1>1, Aside DEF Complete, Quiet
<1> QED BY <1>2 DEF ConnectDone, WriteDone, CloseDone, ReadDone

\* The tasks of W and C, and those of R in which the signal stays as it is.
LEMMA TasksQuiet ==
    ASSUME WsInv,
           \/ Requested /\ ~RunFails
           \/ ReadFrame \/ ReadClosed \/ Orphaned
           \/ WriterStart \/ WriterPopped \/ WriterWrote
           \/ CloserStart \/ CloserReleased \/ CloserDone
    PROVE  Quiet
<1>1. ready \in Seq(Resume)
  BY DEF WsInv, TypeOK
<1>2. ASSUME NEW x \in {"R", "W", "C"}, Resuming(x), ready' = rest, UNCHANGED <<sig, kpc>>
      PROVE  Quiet
  BY <1>1, <1>2, AsideRest DEF Quiet
<1>3. CASE Requested /\ ~RunFails
  BY <1>2, <1>3 DEF Requested
<1>4. CASE ReadFrame \/ ReadClosed
  BY <1>2, <1>4 DEF ReadFrame, ReadClosed
<1>5. CASE Orphaned
  BY <1>2, <1>5 DEF Orphaned
<1>6. CASE WriterStart \/ WriterPopped
  BY <1>2, <1>6 DEF WriterStart, WriterPopped, WriterResumes, WriterStops
<1>7. CASE WriterWrote
  <2>1. Resuming("W") /\ UNCHANGED <<sig, kpc>> /\ SameNews(ready, rest)
    BY <1>1, <1>7, AsideRest DEF WriterWrote, WriterResumes
  <2>2. ready' = rest \/ ready' = Append(rest, Item("W", "ok"))
    BY <1>7 DEF WriterWrote, WriterStops
  <2>3. CASE ready' = rest
    BY <1>2, <2>1, <2>3
  <2>4. CASE ready' = Append(rest, Item("W", "ok"))
    <3>1. SameNews(rest, ready')
      BY <2>1, <2>4, Aside DEF SameNews
    <3> QED BY <2>1, <3>1 DEF Quiet, SameNews
  <2> QED BY <2>2, <2>3, <2>4
<1>8. CASE CloserStart \/ CloserReleased \/ CloserDone
  BY <1>2, <1>8 DEF CloserStart, CloserReleased, CloserDone, CloserResumes
<1> QED BY <1>3, <1>4, <1>5, <1>6, <1>7, <1>8
\* connect() is the wait.
LEMMA ConnectWaits ==
    ASSUME WsInv, ConnectCall
    PROVE  Signal!Wait(1)
<1>1. /\ ready \in Seq(Resume) /\ ~sig.set /\ ~sig.handler /\ kpc = "idle" /\ kpc' = "waiting"
      /\ sig.err \in BOOLEAN /\ sig \in [set : BOOLEAN, err : BOOLEAN, handler : BOOLEAN]
      /\ Item("K", "error") \in Resume
      /\ sig' = [sig EXCEPT !.handler = ~sig.err]
  BY Items DEF WsInv, TypeOK, ConnectCall, Asked, Wakes, ClientWakes
<1>2. ~Has(ready, "K")
  BY DEF WsInv, Wakes, ClientWakes, ConnectCall
<1>3. \A e : ~Heard(ready, kpc, e)
  BY <1>1, <1>2 DEF Heard, Told, Has
<1>4. ConnectResults = {}
  <2>1. \A r : r \notin ConnectResults
    BY <1>3, ResultsHeard, ResultsAre
  <2> QED BY <2>1
<1> DEFINE asked == IF latch.state = "waiting" THEN Append(ready, Item("R", "ok")) ELSE ready
<1>5. SameNews(ready, asked) /\ asked \in Seq(Resume)
  BY <1>1, Aside DEF SameNews
<1>6. ready' = IF sig.err THEN Append(asked, Item("K", "error")) ELSE asked
  <2>1. ready' = asked \o (IF sig.err THEN <<Item("K", "error")>> ELSE <<>>)
    BY <1>1, Items, Concats DEF ConnectCall
  <2> HIDE DEF asked
  <2> QED BY <1>1, <1>5, <2>1, Concats
<1> HIDE DEF asked
<1>7. CASE sig.err
  <2>1. Grown(asked, TRUE, "K", "error", ready')
    BY <1>5, <1>6, <1>7, Grows
  <2>2. Hears(ready, kpc, "error", ready', kpc')
    BY <1>1, <1>5, <2>1 DEF Grown, SameNews, Heard, Hears
  <2>3. ResultsOf(ready', kpc') = ResultsOf(ready, kpc) \cup {[wait |-> 1, ec |-> "error"]}
    BY <2>2, ResultsGrow
  <2>4. ConnectResults' = ConnectResults \cup {[wait |-> 1, ec |-> "error"]}
    BY <2>3, ResultsAre, ResultsAreNext
  <2> QED BY <1>1, <1>4, <1>7, <2>4 DEF Signal!Wait, Signal!Result, Signal!NoCode
<1>8. CASE ~sig.err
  <2>1. \A e : Heard(ready', kpc', e) <=> Heard(ready, kpc, e)
    BY <1>1, <1>5, <1>6, <1>8 DEF SameNews, Heard
  <2>2. ConnectResults' = ConnectResults
    BY <2>1, ResultsSame, ResultsAre, ResultsAreNext
  <2> QED BY <1>1, <1>4, <1>8, <2>2 DEF Signal!Wait, Signal!NoCode
<1> QED BY <1>7, <1>8

\* A stored handler of K is posted e: what the latch releases.
LEMMA Releases ==
    ASSUME NEW s, NEW e \in {"ok", "error"}, SameNews(ready, s), kpc' = kpc,
           sig.handler \in BOOLEAN,
           ready' = IF sig.handler THEN Append(s, Item("K", e)) ELSE s
    PROVE  ConnectResults' = ConnectResults
                               \cup {[wait |-> x, ec |-> e] : x \in IF sig.handler THEN {1} ELSE {}}
<1>1. CASE sig.handler
  <2>1. Grown(s, TRUE, "K", e, ready')
    BY <1>1, Grows DEF SameNews
  <2>2. Hears(ready, kpc, e, ready', kpc')
    BY <2>1 DEF Grown, SameNews, Heard, Hears
  <2>3. ResultsOf(ready', kpc') = ResultsOf(ready, kpc) \cup {[wait |-> 1, ec |-> e]}
    BY <2>2, ResultsGrow
  <2>4. ConnectResults' = ConnectResults \cup {[wait |-> 1, ec |-> e]}
    BY <2>3, ResultsAre, ResultsAreNext
  <2> QED BY <1>1, <2>4
<1>2. CASE ~sig.handler
  <2>1. \A f : Heard(ready', kpc', f) <=> Heard(ready, kpc, f)
    BY <1>2 DEF SameNews, Heard
  <2>2. ConnectResults' = ConnectResults
    BY <2>1, ResultsSame, ResultsAre, ResultsAreNext
  <2> QED BY <1>2, <2>2
<1> QED BY <1>1, <1>2

\* The connection comes up: the latch fires.
LEMMA ForkFires ==
    ASSUME WsInv, Connected, ~RunFails
    PROVE  Signal!Fire
<1>1. /\ ready \in Seq(Resume) /\ sig \in [set : BOOLEAN, err : BOOLEAN, handler : BOOLEAN]
      /\ Item("W", "ok") \in Resume /\ Item("C", "ok") \in Resume /\ Item("K", "ok") \in Resume
  BY Items DEF WsInv, TypeOK
<1>2. /\ Fork /\ kpc' = kpc /\ sig' = [sig EXCEPT !.set = TRUE, !.handler = FALSE]
      /\ SameNews(ready, rest) /\ rest \in Seq(Resume)
  BY <1>1, AsideRest DEF Connected, Fork, SameNews
<1> DEFINE s == IF inline THEN rest ELSE Append(Append(rest, Item("W", "ok")), Item("C", "ok"))
<1>3. SameNews(ready, s) /\ s \in Seq(Resume)
  <2>1. CASE inline
    BY <1>2, <2>1
  <2>2. CASE ~inline
    <3> DEFINE one == Append(rest, Item("W", "ok"))
    <3>1. SameNews(rest, one) /\ one \in Seq(Resume)
      BY <1>2, Aside DEF SameNews
    <3> HIDE DEF one
    <3>2. SameNews(one, Append(one, Item("C", "ok")))
      BY <3>1, Aside
    <3>3. SameNews(ready, Append(one, Item("C", "ok")))
      BY <1>2, <3>1, <3>2 DEF SameNews
    <3> QED BY <2>2, <3>3 DEF one, SameNews
  <2> QED BY <2>1, <2>2
<1>4. ready' = IF sig.handler THEN Append(s, Item("K", "ok")) ELSE s
  <2>1. ready' = s \o Announce
    BY <1>1, <1>2, Concats DEF Fork
  <2> HIDE DEF s
  <2> QED BY <1>1, <1>3, <2>1, Concats DEF Announce
<1> HIDE DEF s
<1>5. ConnectResults' = ConnectResults
                          \cup {[wait |-> x, ec |-> "ok"] : x \in IF sig.handler THEN {1} ELSE {}}
  BY <1>1, <1>2, <1>3, <1>4, Releases
<1> QED BY <1>1, <1>2, <1>5 DEF Signal!Fire, Signal!Release, Signal!Result, Signal!Ok

\* The run ends without a connection: the latch fails.
LEMMA RunFailsLatch ==
    ASSUME WsInv, Resuming("R"), RunFails
    PROVE  Signal!Fail("error")
<1>1. /\ ready \in Seq(Resume) /\ sig \in [set : BOOLEAN, err : BOOLEAN, handler : BOOLEAN]
      /\ SameNews(ready, rest)
      /\ kpc' = kpc /\ sig' = [sig EXCEPT !.err = TRUE, !.handler = FALSE]
      /\ ready' = IF sig.handler THEN Append(rest, Item("K", "error")) ELSE rest
  BY AsideRest DEF WsInv, TypeOK, RunFails
<1>2. ConnectResults' = ConnectResults
                          \cup {[wait |-> x, ec |-> "error"] : x \in IF sig.handler THEN {1} ELSE {}}
  BY <1>1, Releases
<1> QED BY <1>1, <1>2 DEF Signal!Fail, Signal!Release, Signal!Result

\* A read error fails the latch when the first cancel throws, and it has fired by then.
LEMMA ReadFailsLatch ==
    ASSUME WsInv, ReadFails
    PROVE  Signal!Fail("error") \/ UNCHANGED SignalVars
<1>1. /\ ready \in Seq(Resume) /\ sig \in [set : BOOLEAN, err : BOOLEAN, handler : BOOLEAN]
      /\ SameNews(ready, rest) /\ rest \in Seq(Resume) /\ kpc' = kpc
      /\ sig.set /\ ~sig.handler
  BY AsideRest DEF WsInv, TypeOK, Signalled, ReadFails, SameNews
<1>2. SameNews(rest, ready')
  BY <1>1, AsideCancel DEF ReadFails
<1>3. SameNews(ready, ready')
  BY <1>1, <1>2 DEF SameNews
<1>4. CASE w.cancel
  <2>1. Quiet
    BY <1>1, <1>3, <1>4 DEF Quiet, ReadFails
  <2> QED BY <2>1, QuietStutters
<1>5. CASE ~w.cancel
  <2>1. sig' = [sig EXCEPT !.err = TRUE]
    BY <1>5 DEF ReadFails
  <2>2. \A e : Heard(ready', kpc', e) <=> Heard(ready, kpc, e)
    BY <1>1, <1>3 DEF SameNews, Heard
  <2>3. ConnectResults' = ConnectResults
    BY <2>2, ResultsSame, ResultsAre, ResultsAreNext
  <2> QED BY <1>1, <2>1, <2>3 DEF Signal!Fail, Signal!Release
<1> QED BY <1>4, <1>5

\* K returns what it was told: K had nothing else to hear, and error is all it is told
\* besides ok.
LEMMA ConnectReturnsStutters ==
    ASSUME WsInv, ConnectReturns
    PROVE  UNCHANGED SignalVars
<1>1. RestOf("K") /\ kpc = "waiting" /\ sig' = sig /\ ready' = rest
  BY Rests DEF ConnectReturns, RestOf, WsInv, Wakes, ClientWakes
<1>2. \A e : ~Told(ready', "K", e)
  BY <1>1 DEF RestOf, Told, Has
<1>3. \A e : Told(ready, "K", e) <=> e = result
  <2>1. Distinct(ready)
    BY <1>1 DEF RestOf, WsInv, Wakes
  <2>2. Told(ready, "K", result)
    BY <1>1 DEF RestOf
  <2> QED BY <2>1, <2>2 DEF Told, Distinct
<1>4. result \in {"ok", "error"}
  BY <1>1 DEF RestOf, WsInv, Signalled
<1>5. \A e : Heard(ready', kpc', e) <=> Heard(ready, kpc, e)
  BY <1>1, <1>2, <1>3, <1>4 DEF Heard, ConnectReturns
<1>6. ConnectResults' = ConnectResults
  BY <1>5, ResultsSame, ResultsAre, ResultsAreNext
<1> QED BY <1>1, <1>6 DEF SignalVars

\* connected_signal_ is a latch to connect(): what connect() is told is what the latch
\* gives a wait, in the very step that brings the connection up or ends the run.
THEOREM SignalIsLatch == Spec => SignalSpec
<1>1. Init => Signal!Init
  <2> SUFFICES ASSUME Init PROVE Signal!Init
    OBVIOUS
  <2>1. kpc = "idle" /\ 1..Len(ready) = {} /\ ~sig.set /\ ~sig.err /\ ~sig.handler
    BY DEF Init
  <2>2. ConnectResults = {}
    BY <2>1 DEF ConnectResults
  <2>3. sig.set \in BOOLEAN
    BY DEF Init
  <2> QED BY <2>1, <2>2, <2>3 DEF Signal!Init, Signal!NoCode
<1>2. WsInv /\ [Next]_vars => [Signal!Next]_SignalVars
  <2> SUFFICES ASSUME WsInv, [Next]_vars
               PROVE  Signal!Next \/ UNCHANGED SignalVars
    OBVIOUS
  <2>1. CASE ConnectCall
    BY <2>1, ConnectWaits DEF Signal!Next
  <2>2. CASE (Requested \/ Connected) /\ RunFails
    BY <2>2, RunFailsLatch DEF Requested, Connected, Signal!Next
  <2>3. CASE Connected /\ ~RunFails
    BY <2>3, ForkFires DEF Signal!Next
  <2>4. CASE ReadFails
    BY <2>4, ReadFailsLatch DEF Signal!Next
  <2>5. CASE ConnectReturns
    BY <2>5, ConnectReturnsStutters
  <2>6. CASE Quiet
    BY <2>6, QuietStutters
  <2>7. CASE UNCHANGED vars
    BY <2>7, ResultsAre, ResultsAreNext DEF vars, SignalVars
  <2> QED BY <2>1, <2>2, <2>3, <2>4, <2>5, <2>6, <2>7, CallsQuiet, StreamQuiet, TasksQuiet
      DEF Next, Task
<1> QED BY <1>1, <1>2, WsInit, WsStep, PTL DEF Spec, SignalSpec, Signal!Spec, SignalVars

-----------------------------------------------------------------------------
(* The calls.                                                              *)

\* The id of the n-th call.
IdOf(n) == IF FirstId + n - 1 < IdModulus THEN FirstId + n - 1
                                          ELSE FirstId + n - 1 - IdModulus

Types ==
    /\ calls \in 0..MaxCalls
    /\ request_id_ \in Ids
    /\ call_handlers_ \in [Ids -> 0..MaxCalls]
    /\ ids \in [Calls -> Ids]
    /\ DOMAIN results = Calls
    /\ tx \in Seq(0..calls)
    /\ carried \in 0..calls
    /\ wire \subseteq 1..calls

IdsCounted ==
    /\ request_id_ = IdOf(calls + 1)
    /\ \A n \in 1..calls : ids[n] = IdOf(n)

Stored ==
    /\ \A i \in Ids : call_handlers_[i] # 0 =>
         call_handlers_[i] <= calls /\ i = ids[call_handlers_[i]]
    /\ \A n \in 1..calls : results[n] = <<>> <=> call_handlers_[ids[n]] = n
    /\ \A n \in Calls : n > calls => results[n] = <<>>

Results ==
    \A n \in Calls : /\ results[n] \in {<<>>, <<0>>, <<n>>}
                     /\ results[n] = <<n>> => n \in wire

OnWay(n) == (\E k \in 1..Len(tx) : tx[k] = n) \/ carried = n \/ n \in wire

Requests ==
    /\ \A j, k \in 1..Len(tx) : tx[j] = tx[k] /\ tx[j] # 0 => j = k
    /\ \A k \in 1..Len(tx) : tx[k] # 0 => tx[k] # carried /\ tx[k] \notin wire
    /\ carried \notin wire
    /\ \A n \in Calls : OnWay(n) => results[n] # <<0>>

IInv == Types /\ IdsCounted /\ Stored /\ Results /\ Requests

-----------------------------------------------------------------------------
(* Ids.                                                                    *)

\* Calls get different ids, as there are more ids than calls.
LEMMA IdsDiffer ==
    ASSUME NEW m \in 1..(MaxCalls + 1), NEW n \in 1..(MaxCalls + 1), IdOf(m) = IdOf(n)
    PROVE  m = n
BY IdsSuffice DEF IdOf

\* The next id is that of the next call, across the overflow too.
LEMMA IdsInOrder ==
    ASSUME NEW n \in 1..MaxCalls, request_id_ = IdOf(n)
    PROVE  NextId = IdOf(n + 1) /\ IdOf(n + 1) \in Ids
BY IdsSuffice DEF IdOf, NextId, Ids

-----------------------------------------------------------------------------
\* What is known of the elements of a sequence.
LEMMA SeqWider ==
    ASSUME NEW S, NEW T, S \subseteq T, NEW s \in Seq(S)
    PROVE  s \in Seq(T) /\ Len(s) \in Nat /\ \A k \in 1..Len(s) : s[k] \in S
OBVIOUS

LEMMA InitHolds == JsonInit => IInv
BY IdsSuffice DEF JsonInit, IInv, Types, IdsCounted, Stored, Results, Requests, OnWay,
    IdOf, Ids, Calls

\* What a call changes before it is sent or refused.
CallMade ==
    /\ calls \in Nat /\ calls' = calls + 1 /\ calls' \in Calls /\ calls' \in 0..MaxCalls
    /\ \A n \in 1..calls' : n = calls' \/ n \in 1..calls
    /\ \A n \in 1..calls : n \in Calls /\ n # calls' /\ n <= calls'
    /\ request_id_ \in Ids /\ request_id_' \in Ids /\ ids' \in [Calls -> Ids]
    /\ IdsCounted'
    /\ ids'[calls'] = request_id_
    /\ \A n \in 1..calls : ids'[n] = ids[n] /\ ids[n] # request_id_ /\ ids[n] \in Ids

LEMMA CallCounted ==
    ASSUME IInv, async_call
    PROVE  CallMade
<1> USE IdsSuffice DEF IInv, Types, async_call, Calls
<1>1. /\ calls \in 0..(MaxCalls - 1) /\ calls \in Nat
      /\ calls' = calls + 1 /\ calls' \in 1..MaxCalls /\ calls' \in 0..MaxCalls
  OBVIOUS
<1>2. request_id_' = IdOf(calls' + 1) /\ request_id_' \in Ids
  BY <1>1, IdsInOrder DEF IdsCounted
<1>3. /\ ids' \in [Calls -> Ids] /\ ids'[calls'] = request_id_
      /\ \A n \in 1..calls : ids'[n] = ids[n] /\ ids[n] \in Ids
  BY <1>1 DEF RequestId
<1>4. \A n \in 1..calls : ids[n] # request_id_
  <2> SUFFICES ASSUME NEW n \in 1..calls, ids[n] = request_id_ PROVE FALSE
    OBVIOUS
  <2>1. IdOf(n) = IdOf(calls + 1)
    BY DEF IdsCounted
  <2> QED BY <1>1, <2>1, IdsDiffer
<1>5. IdsCounted'
  <2>1. \A n \in 1..calls' : ids'[n] = IdOf(n)
    BY <1>1, <1>3 DEF IdsCounted
  <2> QED BY <1>2, <2>1 DEF IdsCounted
<1>6. /\ \A n \in 1..calls' : n = calls' \/ n \in 1..calls
      /\ \A n \in 1..calls : n \in Calls /\ n # calls' /\ n <= calls'
  BY <1>1
<1> QED BY <1>1, <1>2, <1>3, <1>4, <1>5, <1>6 DEF CallMade

\* A stored entry is one of the calls made.
LEMMA EntryMade ==
    ASSUME IInv, NEW i \in Ids, call_handlers_[i] # 0
    PROVE  call_handlers_[i] \in 1..calls /\ i = ids[call_handlers_[i]]
<1>1. call_handlers_[i] \in 0..MaxCalls /\ calls \in 0..MaxCalls /\ MaxCalls \in Nat
  BY IdsSuffice DEF IInv, Types
<1>2. call_handlers_[i] <= calls /\ i = ids[call_handlers_[i]]
  BY DEF IInv, Stored
<1> QED BY <1>1, <1>2

\* A call that is sent is stored, and its request is on its way.
LEMMA SentHolds ==
    ASSUME IInv, async_call, Sent
    PROVE  IInv'
<1>1. CallMade
  BY CallCounted
<1>2. /\ call_handlers_' = [call_handlers_ EXCEPT ![request_id_] = calls']
      /\ results' = results /\ wire' = wire
      /\ \/ carried' = calls' /\ tx' = tx
         \/ carried' = carried /\ tx' = Append(tx, calls')
  BY DEF Sent
<1>3. /\ call_handlers_ \in [Ids -> 0..MaxCalls] /\ DOMAIN results = Calls
      /\ tx \in Seq(0..calls) /\ carried \in 0..calls /\ wire \subseteq 1..calls
  BY DEF IInv, Types
<1>4. Types'
  <2>1. call_handlers_' \in [Ids -> 0..MaxCalls]
    BY <1>1, <1>2, <1>3 DEF CallMade
  <2>2. /\ 0..calls \subseteq 0..calls' /\ calls' \in 0..calls'
        /\ wire' \subseteq 1..calls'
    BY <1>1, <1>2, <1>3 DEF CallMade
  <2>3. tx \in Seq(0..calls')
    BY <1>3, <2>2, SeqWider
  <2>4. tx' \in Seq(0..calls') /\ carried' \in 0..calls'
    <3> DEFINE S == 0..calls'
    <3>1. tx \in Seq(S) /\ calls' \in S /\ carried \in S
      BY <1>3, <2>2, <2>3
    <3> HIDE DEF S
    <3>2. tx' \in Seq(S) /\ carried' \in S
      BY <1>2, <3>1
    <3> QED BY <3>2 DEF S
  <2> QED BY <1>1, <1>2, <1>3, <2>1, <2>2, <2>4 DEF Types, CallMade
<1>5. Stored'
  <2>1. ASSUME NEW i \in Ids, call_handlers_'[i] # 0
        PROVE  call_handlers_'[i] <= calls' /\ i = ids'[call_handlers_'[i]]
    <3>1. CASE i = request_id_
      BY <1>1, <1>2, <1>3, <3>1 DEF CallMade
    <3>2. CASE i # request_id_
      <4>1. call_handlers_'[i] = call_handlers_[i]
        BY <1>2, <1>3, <3>2
      <4>2. call_handlers_[i] \in 1..calls /\ i = ids[call_handlers_[i]]
        BY <2>1, <4>1, EntryMade
      <4> QED BY <1>1, <4>1, <4>2 DEF CallMade
    <3> QED BY <3>1, <3>2
  <2>2. ASSUME NEW n \in 1..calls'
        PROVE  results'[n] = <<>> <=> call_handlers_'[ids'[n]] = n
    <3>1. CASE n = calls'
      <4>1. results[calls'] = <<>>
        BY <1>1 DEF IInv, Stored, CallMade
      <4> QED BY <1>1, <1>2, <1>3, <3>1, <4>1 DEF CallMade
    <3>2. CASE n \in 1..calls
      <4>1. ids'[n] = ids[n] /\ ids[n] # request_id_ /\ ids[n] \in Ids
        BY <1>1, <3>2 DEF CallMade
      <4>2. call_handlers_'[ids[n]] = call_handlers_[ids[n]]
        BY <1>2, <1>3, <4>1
      <4> QED BY <1>2, <3>2, <4>1, <4>2 DEF IInv, Stored
    <3> QED BY <1>1, <3>1, <3>2 DEF CallMade
  <2>3. \A n \in Calls : n > calls' => results'[n] = <<>>
    BY <1>1, <1>2 DEF IInv, Stored, CallMade, Calls
  <2> QED BY <2>1, <2>2, <2>3 DEF Stored
<1>6. Results'
  BY <1>2 DEF IInv, Results
<1>7. Requests'
  <2>1. Len(tx) \in Nat /\ \A k \in 1..Len(tx) : tx[k] \in 0..calls
    BY <1>3, SeqWider
  <2>2. results[calls'] = <<>> /\ calls' \notin wire /\ calls' # carried
        /\ \A k \in 1..Len(tx) : tx[k] # calls'
    <3>1. results[calls'] = <<>>
      BY <1>1 DEF IInv, Stored, CallMade
    <3> QED BY <1>1, <1>3, <2>1, <3>1 DEF CallMade
  <2>3. calls' # 0 /\ <<>> # <<0>>
    BY <1>1 DEF CallMade
  <2>4. CASE carried' = calls' /\ tx' = tx
    BY <1>2, <2>2, <2>3, <2>4 DEF IInv, Requests, OnWay
  <2>5. CASE carried' = carried /\ tx' = Append(tx, calls')
    <3>1. /\ Len(tx') = Len(tx) + 1 /\ Len(tx) \in Nat /\ tx'[Len(tx')] = calls'
          /\ \A k \in 1..Len(tx) : tx'[k] = tx[k]
          /\ \A k \in 1..Len(tx') : k \in 1..Len(tx) \/ k = Len(tx')
      BY <1>3, <2>5
    <3>2. \A j, k \in 1..Len(tx') : tx'[j] = tx'[k] /\ tx'[j] # 0 => j = k
      BY <2>2, <3>1 DEF IInv, Requests
    <3>3. \A k \in 1..Len(tx') : tx'[k] # 0 => tx'[k] # carried' /\ tx'[k] \notin wire'
      BY <1>2, <2>2, <2>5, <3>1 DEF IInv, Requests
    <3>4. \A n \in Calls : OnWay(n)' => n = calls' \/ OnWay(n)
      BY <1>2, <2>5, <3>1 DEF OnWay
    <3>5. \A n \in Calls : OnWay(n)' => results'[n] # <<0>>
      BY <1>2, <2>2, <2>3, <3>4 DEF IInv, Requests
    <3> QED BY <1>2, <2>5, <3>2, <3>3, <3>5 DEF IInv, Requests
  <2> QED BY <1>2, <2>4, <2>5
<1> QED BY <1>1, <1>4, <1>5, <1>6, <1>7 DEF IInv, CallMade

\* A call that is refused has its error, and neither an entry nor a request.
LEMMA RefusedHolds ==
    ASSUME IInv, async_call, Refused
    PROVE  IInv'
<1>1. CallMade
  BY CallCounted
<1>2. /\ call_handlers_' = [call_handlers_ EXCEPT ![request_id_] = 0]
      /\ results' = [results EXCEPT ![calls'] = Append(@, 0)]
      /\ tx' = tx /\ carried' = carried /\ wire' = wire
  BY DEF Refused, frameVars
<1>3. /\ call_handlers_ \in [Ids -> 0..MaxCalls] /\ DOMAIN results = Calls
      /\ tx \in Seq(0..calls) /\ carried \in 0..calls /\ wire \subseteq 1..calls
  BY DEF IInv, Types
<1>4. /\ results'[calls'] = <<0>>
      /\ \A n \in Calls : n # calls' => results'[n] = results[n]
  <2>1. results[calls'] = <<>>
    BY <1>1 DEF IInv, Stored, CallMade
  <2> QED BY <1>1, <1>2, <1>3, <2>1 DEF CallMade
<1>5. Types'
  <2>1. call_handlers_' \in [Ids -> 0..MaxCalls] /\ DOMAIN results' = Calls
    <3>1. 0 \in 0..MaxCalls
      BY IdsSuffice
    <3> QED BY <1>2, <1>3, <3>1
  <2>2. 0..calls \subseteq 0..calls' /\ wire' \subseteq 1..calls'
    BY <1>1, <1>2, <1>3 DEF CallMade
  <2>3. tx' \in Seq(0..calls') /\ carried' \in 0..calls'
    BY <1>2, <1>3, <2>2, SeqWider
  <2> QED BY <1>1, <2>1, <2>2, <2>3 DEF Types, CallMade
<1>6. Stored'
  <2>1. ASSUME NEW i \in Ids, call_handlers_'[i] # 0
        PROVE  call_handlers_'[i] <= calls' /\ i = ids'[call_handlers_'[i]]
    <3>1. call_handlers_'[i] = call_handlers_[i]
      BY <1>2, <1>3, <2>1
    <3>2. call_handlers_[i] \in 1..calls /\ i = ids[call_handlers_[i]]
      BY <2>1, <3>1, EntryMade
    <3> QED BY <1>1, <3>1, <3>2 DEF CallMade
  <2>2. ASSUME NEW n \in 1..calls'
        PROVE  results'[n] = <<>> <=> call_handlers_'[ids'[n]] = n
    <3>1. CASE n = calls'
      <4>1. call_handlers_'[ids'[n]] = 0 /\ n # 0
        BY <1>1, <1>2, <1>3, <3>1 DEF CallMade
      <4>2. results'[n] # <<>>
        BY <1>4, <3>1
      <4> QED BY <4>1, <4>2
    <3>2. CASE n \in 1..calls
      <4>1. ids'[n] = ids[n] /\ ids[n] # request_id_ /\ ids[n] \in Ids /\ n \in Calls
            /\ n # calls'
        BY <1>1, <3>2 DEF CallMade
      <4>2. call_handlers_'[ids[n]] = call_handlers_[ids[n]]
        BY <1>2, <1>3, <4>1
      <4> QED BY <1>4, <3>2, <4>1, <4>2 DEF IInv, Stored
    <3> QED BY <1>1, <3>1, <3>2 DEF CallMade
  <2>3. \A n \in Calls : n > calls' => results'[n] = <<>>
    BY <1>1, <1>4 DEF IInv, Stored, CallMade, Calls
  <2> QED BY <2>1, <2>2, <2>3 DEF Stored
<1>7. Results'
  <2>1. ASSUME NEW n \in Calls
        PROVE  /\ results'[n] \in {<<>>, <<0>>, <<n>>}
               /\ results'[n] = <<n>> => n \in wire'
    <3>1. <<0>> # <<n>>
      BY DEF Calls
    <3> QED BY <1>2, <1>4, <3>1 DEF IInv, Results
  <2> QED BY <2>1 DEF Results
<1>8. Requests'
  <2>1. ~OnWay(calls')
    BY <1>1, <1>3 DEF CallMade, OnWay
  <2>2. \A n \in Calls : OnWay(n)' <=> OnWay(n)
    BY <1>2 DEF OnWay
  <2> QED BY <1>2, <1>4, <2>1, <2>2 DEF IInv, Requests
<1> QED BY <1>1, <1>5, <1>6, <1>7, <1>8 DEF IInv, CallMade

\* A response completes the call it answers, and no other: the entry under its id
\* is that of the request itself.
LEMMA ResponseHolds ==
    ASSUME IInv, NEW n \in Calls, Response(n)
    PROVE  IInv'
<1>1. /\ n \in wire /\ call_handlers_[ids[n]] # 0
      /\ results' = [results EXCEPT ![call_handlers_[ids[n]]] = Append(@, n)]
      /\ call_handlers_' = [call_handlers_ EXCEPT ![ids[n]] = 0]
      /\ request_id_' = request_id_ /\ ids' = ids /\ calls' = calls
      /\ tx' = tx /\ carried' = carried /\ wire' = wire
  BY DEF Response, Answered, frameVars
<1>2. /\ call_handlers_ \in [Ids -> 0..MaxCalls] /\ DOMAIN results = Calls
      /\ wire \subseteq 1..calls /\ calls \in 0..MaxCalls /\ ids \in [Calls -> Ids]
  BY DEF IInv, Types
<1>3. n \in 1..calls /\ ids[n] \in Ids
  BY <1>1, <1>2
<1>4. call_handlers_[ids[n]] = n
  <2> DEFINE m == call_handlers_[ids[n]]
  <2>1. m \in 1..calls /\ ids[n] = ids[m]
    BY <1>1, <1>3, EntryMade
  <2>2. IdOf(n) = IdOf(m)
    BY <1>3, <2>1 DEF IInv, IdsCounted
  <2> HIDE DEF m
  <2>3. m \in 1..(MaxCalls + 1) /\ n \in 1..(MaxCalls + 1)
    BY <1>2, <1>3, <2>1, IdsSuffice
  <2>4. m = n
    BY <2>2, <2>3, IdsDiffer
  <2> QED BY <2>4 DEF m
<1>5. /\ results[n] = <<>> /\ results'[n] = <<n>>
      /\ \A k \in Calls : k # n => results'[k] = results[k]
  <2>1. results[n] = <<>>
    BY <1>3, <1>4 DEF IInv, Stored
  <2> QED BY <1>1, <1>2, <1>4, <2>1
<1>6. Types'
  <2>1. 0 \in 0..MaxCalls
    BY IdsSuffice
  <2>2. call_handlers_' \in [Ids -> 0..MaxCalls] /\ DOMAIN results' = Calls
    BY <1>1, <1>2, <2>1
  <2> QED BY <1>1, <2>2 DEF IInv, Types
<1>7. IdsCounted'
  BY <1>1 DEF IInv, IdsCounted, IdOf
<1>8. Stored'
  <2>1. ASSUME NEW i \in Ids, call_handlers_'[i] # 0
        PROVE  call_handlers_'[i] <= calls' /\ i = ids'[call_handlers_'[i]]
    <3>1. call_handlers_'[i] = call_handlers_[i]
      BY <1>1, <1>2, <2>1
    <3> QED BY <1>1, <2>1, <3>1 DEF IInv, Stored
  <2>2. ASSUME NEW k \in 1..calls'
        PROVE  results'[k] = <<>> <=> call_handlers_'[ids'[k]] = k
    <3>1. CASE k = n
      BY <1>1, <1>2, <1>3, <1>5, <3>1
    <3>2. CASE k # n
      <4>1. k \in 1..calls /\ k \in 1..(MaxCalls + 1) /\ n \in 1..(MaxCalls + 1)
            /\ k \in Calls
        BY <1>1, <1>2, <1>3, IdsSuffice DEF Calls
      <4>2. ids[k] # ids[n]
        BY <1>3, <3>2, <4>1, IdsDiffer DEF IInv, IdsCounted
      <4>3. call_handlers_'[ids[k]] = call_handlers_[ids[k]]
        BY <1>1, <1>2, <4>1, <4>2
      <4> QED BY <1>1, <1>5, <3>2, <4>1, <4>3 DEF IInv, Stored
    <3> QED BY <3>1, <3>2
  <2>3. \A k \in Calls : k > calls' => results'[k] = <<>>
    <3>1. ~(n > calls)
      BY <1>2, <1>3, IdsSuffice
    <3> QED BY <1>1, <1>5, <3>1 DEF IInv, Stored
  <2> QED BY <2>1, <2>2, <2>3 DEF Stored
<1>9. Results'
  <2>1. ASSUME NEW k \in Calls
        PROVE  /\ results'[k] \in {<<>>, <<0>>, <<k>>}
               /\ results'[k] = <<k>> => k \in wire'
    BY <1>1, <1>5 DEF IInv, Results
  <2> QED BY <2>1 DEF Results
<1>10. Requests'
  <2>1. \A k \in Calls : OnWay(k)' <=> OnWay(k)
    BY <1>1 DEF OnWay
  <2>2. <<n>> # <<0>>
    BY DEF Calls
  <2> QED BY <1>1, <1>5, <2>1, <2>2 DEF IInv, Requests
<1> QED BY <1>6, <1>7, <1>8, <1>9, <1>10 DEF IInv

-----------------------------------------------------------------------------
\* Requests move on to the peer, or are dropped, and calls stay as they are.
LEMMA FramesHold ==
    ASSUME IInv, UNCHANGED callVars,
           \/ /\ carried # 0 /\ carried' = 0
              /\ wire' = wire \cup {carried} /\ tx' = tx
           \/ carried' \in {carried, 0} /\ UNCHANGED <<tx, wire>>
           \/ /\ tx # <<>> /\ carried' = Head(tx)
              /\ tx' = [tx EXCEPT ![1] = 0] /\ wire' = wire
    PROVE  IInv'
<1>1. /\ request_id_' = request_id_ /\ call_handlers_' = call_handlers_
      /\ ids' = ids /\ calls' = calls /\ results' = results
  BY DEF callVars
<1>2. /\ tx \in Seq(0..calls) /\ carried \in 0..calls /\ wire \subseteq 1..calls
      /\ calls \in Nat /\ 0 \in 0..calls /\ 0 \notin wire
  BY IdsSuffice DEF IInv, Types
<1>3. wire \subseteq wire'
  OBVIOUS
<1>4. IdsCounted' /\ Stored' /\ Results'
  BY <1>1, <1>3 DEF IInv, IdsCounted, IdOf, Stored, Results
<1>5. CASE /\ carried # 0 /\ carried' = 0
           /\ wire' = wire \cup {carried} /\ tx' = tx
  <2>1. Types'
    BY <1>1, <1>2, <1>5 DEF IInv, Types
  <2>2. Requests'
    BY <1>1, <1>2, <1>5 DEF IInv, Requests, OnWay, Calls
  <2> QED BY <1>4, <2>1, <2>2 DEF IInv
<1>6. CASE carried' \in {carried, 0} /\ UNCHANGED <<tx, wire>>
  <2>1. Types'
    BY <1>1, <1>2, <1>6 DEF IInv, Types
  <2>2. Requests'
    BY <1>1, <1>2, <1>6 DEF IInv, Requests, OnWay, Calls
  <2> QED BY <1>4, <2>1, <2>2 DEF IInv
<1>7. CASE /\ tx # <<>> /\ carried' = Head(tx)
           /\ tx' = [tx EXCEPT ![1] = 0] /\ wire' = wire
  <2> DEFINE S == 0..calls
  <2>1. tx \in Seq(S) /\ 0 \in S
    BY <1>2
  <2> HIDE DEF S
  <2>2. /\ Len(tx) \in Nat /\ Len(tx) # 0 /\ Head(tx) = tx[1] /\ tx[1] \in S
        /\ tx' \in Seq(S) /\ Len(tx') = Len(tx) /\ 1 \in 1..Len(tx)
        /\ tx'[1] = 0 /\ \A k \in 1..Len(tx) : k # 1 => tx'[k] = tx[k]
    BY <1>7, <2>1
  <2>3. Types'
    BY <1>1, <1>2, <1>7, <2>2 DEF IInv, Types, S
  <2>4. \A j, k \in 1..Len(tx') : tx'[j] = tx'[k] /\ tx'[j] # 0 => j = k
    BY <2>2 DEF IInv, Requests
  <2>5. \A k \in 1..Len(tx') : tx'[k] # 0 => tx'[k] # carried' /\ tx'[k] \notin wire'
    BY <1>7, <2>2 DEF IInv, Requests
  <2>6. carried' \notin wire'
    BY <1>2, <1>7, <2>2 DEF IInv, Requests
  <2>7. ASSUME NEW n \in Calls, OnWay(n)' PROVE OnWay(n)
    <3>1. n # 0
      BY DEF Calls
    <3> QED BY <1>7, <2>2, <2>7, <3>1 DEF OnWay
  <2> QED BY <1>1, <1>4, <2>3, <2>4, <2>5, <2>6, <2>7 DEF IInv, Requests
<1> QED BY <1>5, <1>6, <1>7

LEMMA StepHolds == IInv /\ [JsonNext]_allVars => IInv'
<1> SUFFICES ASSUME IInv, [JsonNext]_allVars PROVE IInv'
  OBVIOUS
<1>1. CASE async_call
  BY <1>1, SentHolds, RefusedHolds DEF async_call
<1>2. ASSUME NEW n \in Calls, Response(n) PROVE IInv'
  BY <1>2, ResponseHolds
<1>3. CASE OtherFrame \/ Connection \/ UNCHANGED allVars
  <2>1. UNCHANGED <<callVars, frameVars>>
    BY <1>3 DEF OtherFrame, Connection, allVars
  <2>2. UNCHANGED callVars /\ carried' \in {carried, 0} /\ UNCHANGED <<tx, wire>>
    BY <2>1 DEF frameVars
  <2> QED BY <2>2, FramesHold
<1>4. CASE Received
  <2>1. /\ UNCHANGED callVars /\ carried # 0 /\ carried' = 0
        /\ wire' = wire \cup {carried} /\ tx' = tx
    BY <1>4 DEF Received
  <2> QED BY <2>1, FramesHold
<1>5. CASE WriteEnds \/ Popped
  <2>1. UNCHANGED callVars /\ carried' \in {carried, 0} /\ UNCHANGED <<tx, wire>>
    BY <1>5 DEF WriteEnds, Popped
  <2> QED BY <2>1, FramesHold
<1>6. CASE Wrote
  <2>1. CASE tx # <<>> /\ carried' = Head(tx) /\ tx' = [tx EXCEPT ![1] = 0]
    <3>1. UNCHANGED callVars /\ wire' = wire
      BY <1>6 DEF Wrote
    <3> QED BY <2>1, <3>1, FramesHold
  <2>2. CASE UNCHANGED <<carried, tx>>
    <3>1. UNCHANGED callVars /\ carried' \in {carried, 0} /\ UNCHANGED <<tx, wire>>
      BY <1>6, <2>2 DEF Wrote
    <3> QED BY <3>1, FramesHold
  <2> QED BY <1>6, <2>1, <2>2 DEF Wrote
<1> QED BY <1>1, <1>2, <1>3, <1>4, <1>5, <1>6 DEF JsonNext

-----------------------------------------------------------------------------
\* Every call is in the table or has one result, however often ids wrap round.
THEOREM EveryCallHasOnePlace == JsonSpec => []CallInOnePlace
<1>1. IInv => CallInOnePlace
  <2> SUFFICES ASSUME IInv, NEW n \in Calls
      PROVE LET stored == n <= calls /\ call_handlers_[ids[n]] = n
            IN /\ Len(results[n]) = (IF n > calls \/ stored THEN 0 ELSE 1)
               /\ \A i \in Ids : call_handlers_[i] = n => stored /\ i = ids[n]
    BY DEF CallInOnePlace
  <2>1. results[n] \in {<<>>, <<0>>, <<n>>} /\ Len(<<>>) = 0 /\ Len(<<0>>) = 1
        /\ Len(<<n>>) = 1
    BY DEF IInv, Results
  <2>2. /\ n > calls => results[n] = <<>>
        /\ n <= calls => (results[n] = <<>> <=> call_handlers_[ids[n]] = n)
    BY DEF IInv, Stored, Types, Calls
  <2>3. \A i \in Ids : call_handlers_[i] = n => n <= calls /\ i = ids[n]
    BY DEF IInv, Stored, Calls
  <2>4. n \in Nat /\ calls \in Nat
    BY DEF IInv, Types, Calls
  <2>5. <<>> # <<0>> /\ <<>> # <<n>>
    OBVIOUS
  <2>6. Len(results[n]) = (IF results[n] = <<>> THEN 0 ELSE 1)
    BY <2>1, <2>5
  <2>7. results[n] = <<>> <=> (n > calls \/ (n <= calls /\ call_handlers_[ids[n]] = n))
    BY <2>2, <2>4
  <2>8. \A i \in Ids : call_handlers_[i] = n =>
           (n <= calls /\ call_handlers_[ids[n]] = n) /\ i = ids[n]
    BY <2>3
  <2> QED BY <2>6, <2>7, <2>8
<1> QED BY InitHolds, StepHolds, <1>1, PTL DEF JsonSpec

\* No call is completed with the response to another one, whichever id the first
\* request had.
THEOREM ResponsesGoToTheirCalls == JsonSpec => []OwnResponse
<1>1. IInv => OwnResponse
  BY DEF IInv, Results, OwnResponse
<1> QED BY InitHolds, StepHolds, <1>1, PTL DEF JsonSpec

\* A request is in one place, and a call that was refused has none.
THEOREM RequestsInOnePlace == JsonSpec => []RequestsAccounted
<1>1. IInv => RequestsAccounted
  <2> SUFFICES ASSUME IInv, NEW n \in Calls
      PROVE LET queued == {k \in 1..Len(tx) : tx[k] = n}
            IN /\ Cardinality(queued) + (IF carried = n THEN 1 ELSE 0)
                    + (IF n \in wire THEN 1 ELSE 0) <= 1
               /\ queued # {} \/ carried = n \/ n \in wire =>
                    n <= calls /\ results[n] # <<0>>
    BY DEF RequestsAccounted
  <2> DEFINE queued == {k \in 1..Len(tx) : tx[k] = n}
  <2>1. n # 0 /\ n \in Nat
    BY DEF Calls
  <2>2. CASE queued = {}
    <3>1. Cardinality(queued) = 0
      BY <2>2, FS_EmptySet
    <3>2. carried # n \/ n \notin wire
      BY DEF IInv, Requests
    <3>3. carried = n \/ n \in wire => n <= calls /\ results[n] # <<0>>
      <4>1. carried \in 0..calls /\ wire \subseteq 1..calls /\ calls \in Nat
        BY DEF IInv, Types
      <4>2. carried = n \/ n \in wire => results[n] # <<0>>
        BY DEF IInv, Requests, OnWay
      <4>3. ASSUME carried = n PROVE n <= calls
        BY <4>1, <4>3
      <4>4. ASSUME n \in wire PROVE n <= calls
        <5>1. n \in 1..calls
          BY <4>1, <4>4
        <5> QED BY <4>1, <5>1
      <4> QED BY <4>2, <4>3, <4>4
    <3> QED BY <2>2, <3>1, <3>2, <3>3
  <2>3. CASE queued # {}
    <3> PICK k \in 1..Len(tx) : tx[k] = n
      BY <2>3
    <3>1. queued = {k}
      BY <2>1 DEF IInv, Requests
    <3>2. Cardinality(queued) = 1
      BY <3>1, FS_Singleton
    <3>3. carried # n /\ n \notin wire
      BY <2>1 DEF IInv, Requests
    <3>4. n <= calls
      <4>1. tx \in Seq(0..calls)
        BY DEF IInv, Types
      <4>2. tx[k] \in 0..calls
        BY <4>1, SeqWider
      <4> QED BY <4>2
    <3>5. results[n] # <<0>>
      BY DEF IInv, Requests, OnWay
    <3> QED BY <3>2, <3>3, <3>4, <3>5
  <2> QED BY <2>2, <2>3
<1> QED BY InitHolds, StepHolds, <1>1, PTL DEF JsonSpec

\* The calls leave the websocket as it is: every step of theirs is a step of
\* WebsocketState or none, so what is shown of Spec holds below them.
THEOREM CallsKeepTheWebsocket == JsonSpec => Spec
<1>1. JsonInit => Init
  BY DEF JsonInit
<1>2. [JsonNext]_allVars => [Next]_vars
  <2> SUFFICES ASSUME [JsonNext]_allVars PROVE [Next]_vars
    OBVIOUS
  <2>1. CASE async_call
    BY <2>1 DEF async_call, Sent, Refused, Next
  <2>2. ASSUME NEW n \in Calls, Response(n) PROVE Next
    BY <2>2 DEF Response, Next, Task
  <2>3. CASE OtherFrame
    BY <2>3 DEF OtherFrame, Next, Task
  <2>4. CASE Received
    BY <2>4 DEF Received
  <2>5. CASE WriteEnds
    BY <2>5 DEF WriteEnds, WriteDone, Next
  <2>6. CASE Popped \/ Wrote
    BY <2>6 DEF Popped, Wrote, Next, Task
  <2>7. CASE Connection
    BY <2>7 DEF Connection, Next, Task
  <2>8. CASE UNCHANGED allVars
    BY <2>8 DEF allVars
  <2> QED BY <2>1, <2>2, <2>3, <2>4, <2>5, <2>6, <2>7, <2>8 DEF JsonNext
<1> QED BY <1>1, <1>2, PTL DEF JsonSpec, Spec

\* What the websocket does by itself neither queues a frame nor takes one away.
LEMMA QueueKept ==
    ASSUME w \in WriterStates, Task \/ Connection \/ WriteDone \/ UNCHANGED vars
    PROVE  w'.queued = w.queued
<1> USE DEF WriterStates
<1>1. CASE Close
  BY <1>1 DEF Close, CloseBeforeConnect, CloseConnecting, CloseConnected, CloseDangling,
      CancelWriter
<1>2. CASE RunStart \/ ConnectCall \/ ConnectDone \/ CloseDone \/ ReadDone \/ WriteDone
  BY <1>2 DEF RunStart, ConnectCall, ConnectDone, CloseDone, ReadDone, WriteDone, Complete
<1>3. CASE Requested \/ ReadFrame \/ ReadClosed \/ ReadFails \/ Orphaned
  BY <1>3 DEF Requested, RunFails, ReadFrame, ReadClosed, ReadFails, CancelWriter, Orphaned
<1>4. CASE Connected
  BY <1>4 DEF Connected, RunFails, Fork, WriterStarted
<1>5. CASE WriterStart \/ WriterPopped \/ WriterWrote
  BY <1>5 DEF WriterStart, WriterStarted, WriterPopped, WriterStops, WriterWrote
<1>6. CASE CloserStart \/ CloserReleased \/ CloserDone \/ ConnectReturns
  BY <1>6 DEF CloserStart, CloserReleased, CloserDone, CloserResumes, ConnectReturns
<1>7. CASE UNCHANGED vars
  BY <1>7 DEF vars
<1> QED BY <1>1, <1>2, <1>3, <1>4, <1>5, <1>6, <1>7 DEF Task, Connection

\* The queue of the websocket and that of the requests are empty together.
QueuesAgree == w.queued <=> tx # <<>>

LEMMA QueuesAgreeNext ==
    ASSUME TypeOK, Types, QueuesAgree, [JsonNext]_allVars
    PROVE  QueuesAgree'
<1> USE DEF QueuesAgree
<1>1. w \in WriterStates /\ w.queued \in BOOLEAN /\ tx \in Seq(0..calls)
  BY DEF TypeOK, WriterStates, Types
<1>2. CASE async_call
  <2>1. CASE Sent
    <3>1. w' = IF w.popper THEN [w EXCEPT !.popper = FALSE] ELSE [w EXCEPT !.queued = TRUE]
      BY <2>1 DEF Sent, SendText
    <3>2. CASE w.popper
      BY <1>1, <2>1, <3>1, <3>2 DEF Sent, WriterStates
    <3>3. CASE ~w.popper
      <4>1. tx' = Append(tx, calls') /\ w'.queued
        BY <1>1, <2>1, <3>1, <3>3 DEF Sent, WriterStates
      <4>2. tx' # <<>>
        BY <1>1, <4>1
      <4> QED BY <4>1, <4>2
    <3> QED BY <3>2, <3>3
  <2>2. CASE Refused
    BY <2>2 DEF Refused, vars, frameVars
  <2> QED BY <1>2, <2>1, <2>2 DEF async_call
<1>3. CASE \/ \E n \in Calls : Response(n)
           \/ OtherFrame \/ Received \/ WriteEnds \/ Popped \/ Connection
           \/ UNCHANGED allVars
  <2>1. tx' = tx
    BY <1>3 DEF Response, OtherFrame, Received, WriteEnds, Popped, Connection, frameVars,
        allVars
  <2>2. Task \/ Connection \/ WriteDone \/ UNCHANGED vars
    BY <1>3 DEF Response, OtherFrame, Received, WriteEnds, WriteDone, Popped, Task, allVars
  <2> QED BY <1>1, <2>1, <2>2, QueueKept
<1>4. CASE Wrote
  <2>1. w'.queued = w.queued
    BY <1>1, <1>4, QueueKept DEF Wrote, Task
  <2>2. tx' # <<>> <=> tx # <<>>
    <3>1. tx # <<>> => [tx EXCEPT ![1] = 0] # <<>>
      <4>1. DOMAIN [tx EXCEPT ![1] = 0] = DOMAIN tx
        OBVIOUS
      <4> QED BY <1>1, <4>1
    <3> QED BY <1>4, <3>1 DEF Wrote
  <2> QED BY <1>1, <2>1, <2>2
<1> QED BY <1>2, <1>3, <1>4 DEF JsonNext

\* results is a function.
ResultsPerCall == results = [n \in DOMAIN results |-> results[n]]

LEMMA ResultsPerCallNext == ResultsPerCall /\ [JsonNext]_allVars => ResultsPerCall'
<1> SUFFICES ASSUME ResultsPerCall, [JsonNext]_allVars PROVE ResultsPerCall'
  OBVIOUS
<1>1. \/ results' = results
      \/ \E n, m : results' = [results EXCEPT ![n] = Append(results[n], m)]
  BY DEF JsonNext, async_call, Sent, Refused, Response, Answered, OtherFrame, Received,
      WriteEnds, Popped, Wrote, Connection, callVars, allVars
<1>2. ASSUME NEW n, NEW m, results' = [results EXCEPT ![n] = Append(results[n], m)]
      PROVE  ResultsPerCall'
  <2>1. results' = [k \in DOMAIN results |->
                     IF k = n THEN Append(results[n], m) ELSE results[k]]
    BY <1>2
  <2> QED BY <2>1 DEF ResultsPerCall
<1> QED BY <1>1, <1>2 DEF ResultsPerCall

\* The variables have their types, and w.queued says of the websocket's queue what the
\* requests in it say.
THEOREM CallTypes == JsonSpec => []CallTypeOK
<1>1. JsonInit => QueuesAgree /\ ResultsPerCall
  BY DEF JsonInit, Init, QueuesAgree, ResultsPerCall
<1>2. IInv => Types
  BY DEF IInv
<1>3. IInv /\ TypeOK /\ QueuesAgree /\ ResultsPerCall => CallTypeOK
  <2> SUFFICES ASSUME IInv, TypeOK, QueuesAgree, ResultsPerCall PROVE CallTypeOK
    OBVIOUS
  <2>1. Types /\ 0..calls \subseteq 0..MaxCalls /\ 1..calls \subseteq Calls
    BY IdsSuffice DEF IInv, Types, Calls
  <2>2. results \in [Calls -> Seq(0..MaxCalls)]
    <3>1. \A n \in Calls : results[n] \in Seq(0..MaxCalls)
      <4> TAKE n \in Calls
      <4>1. <<>> \in Seq(0..MaxCalls) /\ <<0>> \in Seq(0..MaxCalls)
            /\ <<n>> \in Seq(0..MaxCalls)
        BY IdsSuffice DEF Calls
      <4> QED BY <4>1 DEF IInv, Results
    <3>2. results = [n \in Calls |-> results[n]]
      BY <2>1 DEF Types, ResultsPerCall
    <3> QED BY <3>1, <3>2
  <2>3. tx \in Seq(0..MaxCalls)
    BY <2>1, SeqWider DEF Types
  <2> QED BY <2>1, <2>2, <2>3 DEF CallTypeOK, Types, QueuesAgree
<1> QED BY InitHolds, StepHolds, QueuesAgreeNext, ResultsPerCallNext,
           CallsKeepTheWebsocket, WebsocketTypes, <1>1, <1>2, <1>3, PTL DEF JsonSpec
=============================================================================
