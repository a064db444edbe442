--------------------------------- MODULE Fifo ---------------------------------
(***************************************************************************)
(* What the users of the message queue rely on: items leave in the order   *)
(* in which they entered, each once, and a consumer that keeps asking gets *)
(* them all.                                                               *)
(***************************************************************************)
EXTENDS Sequences, SequencesExt

CONSTANTS Items, None

VARIABLES queue,    \* the items in the queue, oldest first
          taken     \* the item the last successful pop returned

Init == queue = <<>> /\ taken = None

Push(x) ==
    /\ x \notin ToSet(queue)
    /\ queue' = Append(queue, x)
    /\ UNCHANGED taken

Pop ==
    /\ queue # <<>>
    /\ taken' = Head(queue)
    /\ queue' = Tail(queue)

Next == Pop \/ \E x \in Items : Push(x)

Spec == Init /\ [][Next]_<<queue, taken>> /\ WF_<<queue, taken>>(Pop)
=============================================================================
