------------------------------ MODULE BounceCopy -----------------------------
(***************************************************************************)
(* The pinned bounce of the weight loader (exl3.py, _bounce_copy).         *)
(*                                                                         *)
(* A tensor is copied by the CPU into one of two pinned buffers and from   *)
(* there, asynchronously, by the GPU's copy engine to its place in the     *)
(* arena.  The engine reads the buffer at some moment before the slot's    *)
(* event completes.  A tensor that exceeds the buffers makes both grow; if *)
(* no pinned memory can be had the copy is made directly, and blocks.      *)
(***************************************************************************)
EXTENDS Naturals, Sequences

CONSTANTS Dsts,     \* places in the arena
          Datas,    \* tensors to load
          SizeOf,   \* tensor -> bytes
          Garbage   \* bytes nobody wrote

ASSUME SizeAssumption == SizeOf \in [Datas -> Nat \ {0}]
ASSUME GarbageAssumption == Garbage \notin Datas

VARIABLES cap,      \* size of the two buffers
          pinned,   \* slot -> bytes in its buffer; <<>> if there are no buffers
          event,    \* slot -> copies the stream still has to finish for its event
          slot,     \* the slot of the next copy
          stream,   \* copies the engine has not finished, in order
          arena,    \* place -> bytes
          call,     \* the call of _bounce_copy in progress
          loaded    \* history: place -> the last tensor a finished call copied there

bounceVars == <<cap, pinned, event, slot, stream, arena, call, loaded>>

Slots == {0, 1}
NoBuffers == <<>>
Returned == [at |-> "returned"]
At(step) == call.at = step
Goto(step) == call' = [call EXCEPT !.at = step]

BounceInit ==
    /\ cap = 0 /\ pinned = NoBuffers /\ event = [i \in Slots |-> 0] /\ slot = 0
    /\ stream = <<>>
    /\ arena = [d \in Dsts |-> Garbage] /\ loaded = [d \in Dsts |-> Garbage]
    /\ call = Returned

Call(d, x) ==
    /\ At("returned")
    /\ call' = [at |-> IF pinned = NoBuffers \/ cap < SizeOf[x] THEN "grow" ELSE "wait",
                dst |-> d, data |-> x]
    /\ UNCHANGED <<cap, pinned, event, slot, stream, arena, loaded>>

\* Variant: only the event of the current slot is waited for.
BothRetiredOne == event[slot] = 0
\* growing waits for both copies in flight
BothRetired == \A i \in Slots : event[i] = 0

\* both buffers and both events are new
Grow ==
    /\ At("grow") /\ BothRetired
    /\ pinned' = [i \in Slots |-> Garbage]
    /\ event' = [i \in Slots |-> 0]
    /\ cap' = SizeOf[call.data] /\ slot' = 0
    /\ Goto("wait")
    /\ UNCHANGED <<stream, arena, loaded>>

\* no pinned memory: a blocking copy, and the next call tries again
CopyDirect ==
    /\ At("grow") /\ BothRetired
    /\ pinned' = NoBuffers /\ cap' = 0 /\ event' = [i \in Slots |-> 0]
    /\ arena' = [arena EXCEPT ![call.dst] = call.data]
    /\ loaded' = [loaded EXCEPT ![call.dst] = call.data]
    /\ call' = Returned
    /\ UNCHANGED <<slot, stream>>

\* Variant: the buffer is filled without waiting for the slot's event.
FillAtOnce ==
    /\ At("wait")
    /\ pinned' = [pinned EXCEPT ![slot] = call.data]
    /\ Goto("issue")
    /\ UNCHANGED <<cap, event, slot, stream, arena, loaded>>

\* the CPU fills the slot's buffer once its previous copy has retired
Fill ==
    /\ At("wait") /\ event[slot] = 0
    /\ pinned' = [pinned EXCEPT ![slot] = call.data]
    /\ Goto("issue")
    /\ UNCHANGED <<cap, event, slot, stream, arena, loaded>>

\* the copy to the arena is enqueued, its event recorded, the slots alternate
Issue ==
    /\ At("issue")
    /\ stream' = Append(stream, [slot |-> slot, dst |-> call.dst])
    /\ event' = [event EXCEPT ![slot] = Len(stream')]
    /\ slot' = 1 - slot
    /\ loaded' = [loaded EXCEPT ![call.dst] = call.data]
    /\ call' = Returned
    /\ UNCHANGED <<cap, pinned, arena>>

\* the engine finishes its oldest copy; only now is the buffer surely read
Retire ==
    /\ stream # <<>>
    /\ arena' = [arena EXCEPT ![Head(stream).dst] = pinned[Head(stream).slot]]
    /\ stream' = Tail(stream)
    /\ event' = [i \in Slots |-> IF event[i] > 0 THEN event[i] - 1 ELSE 0]
    /\ UNCHANGED <<cap, pinned, slot, call, loaded>>

Copy == Grow \/ CopyDirect \/ Fill \/ Issue

BounceNext == (\E d \in Dsts, x \in Datas : Call(d, x)) \/ Copy \/ Retire

BounceSpec == BounceInit /\ [][BounceNext]_bounceVars

-----------------------------------------------------------------------------
(* Properties.                                                             *)

BounceTypeOK ==
    /\ cap \in Nat /\ slot \in Slots /\ event \in [Slots -> Nat]
    /\ pinned \in [Slots -> Datas \cup {Garbage}] \cup {NoBuffers}
    /\ stream \in Seq([slot : Slots, dst : Dsts])
    /\ arena \in [Dsts -> Datas \cup {Garbage}] /\ loaded \in [Dsts -> Datas \cup {Garbage}]
    /\ \/ call = Returned
       \/ call \in [at : {"grow", "wait", "issue"}, dst : Dsts, data : Datas]

\* What the copy engine will still read is what the call gave it: the last copy
\* in flight to a place carries the tensor loaded there, and a place no copy is
\* in flight to already holds it.
LoadedArrives ==
    /\ \A i \in DOMAIN stream :
          (\A j \in DOMAIN stream : j > i => stream[j].dst # stream[i].dst)
              => pinned[stream[i].slot] = loaded[stream[i].dst]
    /\ \A d \in Dsts : (\A i \in DOMAIN stream : stream[i].dst # d) => arena[d] = loaded[d]

\* A buffer is large enough for the tensor that is copied through it.
BufferFits == At("wait") \/ At("issue") => pinned # NoBuffers /\ SizeOf[call.data] <= cap

\* Seen from outside the bounce is an ordered asynchronous copy.
InFlight == [i \in DOMAIN stream |-> [dst |-> stream[i].dst, data |-> pinned[stream[i].slot]]]
Abstract == INSTANCE CopyQueue WITH Datas <- Datas \cup {Garbage}, pending <- InFlight, memory <- arena
ImplementsCopyQueue == Abstract!Spec

=============================================================================
