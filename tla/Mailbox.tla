------------------------------ MODULE Mailbox ------------------------------
(***************************************************************************)
(* What an asynchronous queue promises its client, without executors,      *)
(* tasks or handler slots: a box of messages in the order they were sent,  *)
(* of which a stop discards everything sent before it and leaves one       *)
(* failure behind, and at most one request waiting for an answer.          *)
(***************************************************************************)
EXTENDS Naturals, Sequences

CONSTANTS
    Messages,   \* what can be sent: the values and the stop
    Stop,       \* the stop
    Answer(_),  \* the answer that delivers a message
    Failure     \* the answer that reports a stop

VARIABLES
    box,        \* messages sent and not yet consumed, in order
    error,      \* a stop has taken effect and has not been reported
    waiting,    \* a request is waiting
    answers     \* the answers given, in order

Init == box = <<>> /\ ~error /\ ~waiting /\ answers = <<>>

Send(m) ==
    /\ box' = Append(box, m)
    /\ UNCHANGED <<error, waiting, answers>>

Request ==
    /\ ~waiting
    /\ waiting' = TRUE
    /\ UNCHANGED <<box, error, answers>>

\* The oldest value is the answer, unless a stop comes first.
Deliver ==
    /\ waiting /\ ~error
    /\ box # <<>> /\ Head(box) # Stop
    /\ box' = Tail(box)
    /\ waiting' = FALSE
    /\ answers' = Append(answers, Answer(Head(box)))
    /\ UNCHANGED error

ReportStop ==
    /\ waiting /\ error
    /\ error' = FALSE
    /\ waiting' = FALSE
    /\ answers' = Append(answers, Failure)
    /\ UNCHANGED box

\* The first stop in the box takes effect: everything up to it is discarded. A
\* waiting request is told at once.
TakeStop ==
    /\ \E i \in 1..Len(box) :
         /\ box[i] = Stop
         /\ \A j \in 1..(i - 1) : box[j] # Stop
         /\ box' = SubSeq(box, i + 1, Len(box))
    /\ IF waiting
       THEN /\ answers' = Append(answers, Failure)
            /\ error' = FALSE
            /\ waiting' = FALSE
       ELSE /\ error' = TRUE
            /\ UNCHANGED <<waiting, answers>>

Next ==
    \/ \E m \in Messages : Send(m)
    \/ Request
    \/ Deliver
    \/ ReportStop
    \/ TakeStop

Spec == Init /\ [][Next]_<<box, error, waiting, answers>>
=============================================================================
