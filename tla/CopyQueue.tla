------------------------------ MODULE CopyQueue ------------------------------
(***************************************************************************)
(* What an asynchronous host-to-device copy promises: a request carries    *)
(* the bytes the source had when it was made, requests take effect in the  *)
(* order they were made, each one once.                                    *)
(***************************************************************************)
EXTENDS Naturals, Sequences

CONSTANTS Dsts,   \* destinations
          Datas   \* what a source can hold

VARIABLES pending,  \* requests that have not taken effect, in order
          memory    \* destination -> its bytes

Init == pending = <<>> /\ memory \in [Dsts -> Datas]

Request(d, x) == /\ pending' = Append(pending, [dst |-> d, data |-> x])
                 /\ UNCHANGED memory

Deliver == /\ pending # <<>>
           /\ memory' = [memory EXCEPT ![Head(pending).dst] = Head(pending).data]
           /\ pending' = Tail(pending)

\* a blocking copy returns when it and everything before it have taken effect
CopyNow(d, x) == /\ pending = <<>>
                 /\ memory' = [memory EXCEPT ![d] = x]
                 /\ UNCHANGED pending

Next == \/ \E d \in Dsts, x \in Datas : Request(d, x) \/ CopyNow(d, x)
        \/ Deliver

Spec == Init /\ [][Next]_<<pending, memory>>

=============================================================================
