---------------------------- MODULE StagingSlots ----------------------------
(***************************************************************************)
(* What a store of staged expert records promises its consumers: at most   *)
(* Slots records hold a staging slot, a slot is leased by one consumer at  *)
(* a time, only verified bytes are shown, a record that is leased keeps    *)
(* its slot, and the store stops granting leases once it is shut.          *)
(***************************************************************************)
EXTENDS Naturals, FiniteSets

CONSTANTS Keys, Callers, Slots, Nobody

VARIABLES held,      \* keys that hold a slot
          verified,  \* held keys whose bytes are complete and verified
          lessee,    \* key -> the consumer that leases it, or Nobody
          shown,     \* consumer -> the key whose bytes it sees, or Nobody
          open

sVars == <<held, verified, lessee, shown, open>>

SInit == /\ held = {} /\ verified = {}
         /\ lessee = [k \in Keys |-> Nobody]
         /\ shown = [c \in Callers |-> Nobody]
         /\ open = TRUE

\* k gets a slot, for c or (c = Nobody) ahead of any demand
Take(c, k) ==
    /\ open /\ k \notin held /\ Cardinality(held) < Slots
    /\ held' = held \cup {k}
    /\ lessee' = [lessee EXCEPT ![k] = c]
    /\ UNCHANGED <<verified, shown, open>>

Lease(c, k) ==
    /\ open /\ k \in held /\ lessee[k] = Nobody
    /\ lessee' = [lessee EXCEPT ![k] = c]
    /\ UNCHANGED <<held, verified, shown, open>>

Verify(k) ==
    /\ k \in held
    /\ verified' = verified \cup {k}
    /\ UNCHANGED <<held, lessee, shown, open>>

Show(c, k) ==
    /\ lessee[k] = c /\ k \in verified /\ shown[c] = Nobody
    /\ shown' = [shown EXCEPT ![c] = k]
    /\ UNCHANGED <<held, verified, lessee, open>>

Hide(c) ==
    /\ shown[c] # Nobody
    /\ shown' = [shown EXCEPT ![c] = Nobody]
    /\ UNCHANGED <<held, verified, lessee, open>>

\* a slot is freed, by its lessee or while nobody leases it
Free(k) ==
    /\ k \in held /\ \A c \in Callers : shown[c] # k
    /\ held' = held \ {k} /\ verified' = verified \ {k}
    /\ lessee' = [lessee EXCEPT ![k] = Nobody]
    /\ UNCHANGED <<shown, open>>

\* the lessee goes and leaves the record staged
Leave(k) ==
    /\ k \in verified /\ lessee[k] # Nobody /\ shown[lessee[k]] = Nobody
    /\ lessee' = [lessee EXCEPT ![k] = Nobody]
    /\ UNCHANGED <<held, verified, shown, open>>

Shut ==
    /\ \A k \in Keys : lessee[k] = Nobody
    /\ open' = FALSE
    /\ UNCHANGED <<held, verified, lessee, shown>>

SNext ==
    \/ \E k \in Keys : Verify(k) \/ Free(k) \/ Leave(k)
    \/ \E c \in Callers, k \in Keys : Lease(c, k) \/ Show(c, k)
    \/ \E c \in Callers \cup {Nobody}, k \in Keys : Take(c, k)
    \/ \E c \in Callers : Hide(c)
    \/ Shut

SSpec == SInit /\ [][SNext]_sVars

=============================================================================
