----------------------------- MODULE RecentIDs -----------------------------
(***************************************************************************)
(* What invalidation.Dedupe promises: it remembers the last Capacity IDs    *)
(* that were new to it, and forgets the oldest of them first.  An ID that   *)
(* is seen again keeps its place.                                           *)
(***************************************************************************)
EXTENDS Naturals, Sequences

CONSTANTS IDs, Capacity

VARIABLES recent,   \* the IDs remembered, oldest first
          reply     \* the last call: its ID, and whether it had been seen

vars == <<recent, reply>>

Remembered(id) == \E n \in DOMAIN recent : recent[n] = id

Seen(id) ==
    /\ reply' = [id |-> id, seen |-> Remembered(id)]
    /\ recent' = IF Remembered(id) THEN recent
                 ELSE IF Len(recent) = Capacity THEN Append(Tail(recent), id)
                 ELSE Append(recent, id)

Init == recent = << >> /\ reply \in [id : IDs, seen : {FALSE}]

Next == \E id \in IDs : Seen(id)

Spec == Init /\ [][Next]_vars
=============================================================================
