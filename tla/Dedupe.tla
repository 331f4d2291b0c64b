------------------------------- MODULE Dedupe -------------------------------
(***************************************************************************)
(* invalidation.Dedupe: a set of event IDs and a ring buffer that says which *)
(* to forget.  Seen holds the mutex throughout, so that a call is one step.  *)
(***************************************************************************)
EXTENDS Integers, Sequences, FiniteSets

CONSTANTS IDs,
          Empty,      \* "": the zero string of a ring slot, which is also an ID
          Requested   \* the argument of NewDedupe

ASSUME EmptyAssumption == Empty \in IDs /\ Requested \in Int

Capacity == IF Requested < 1 THEN 1 ELSE Requested

VARIABLES seen,     \* the map, as the set of its keys
          order,    \* the ring: a function on 0..Capacity-1
          idx,      \* the next slot to write
          filled,   \* slots in use
          reply     \* the last call: its ID, and what it returned

vars == <<seen, order, idx, filled, reply>>

-----------------------------------------------------------------------------
Known(id) ==
    /\ id \in seen
    /\ reply' = [id |-> id, seen |-> TRUE]
    /\ UNCHANGED <<seen, order, idx, filled>>

\* A slot that holds the zero string counts as empty.
RecordZeroIsFree(id) ==
    /\ id \notin seen
    /\ seen' = (IF order[idx] # Empty THEN seen \ {order[idx]} ELSE seen) \cup {id}
    /\ filled' = IF filled = Capacity THEN filled ELSE filled + 1
    /\ order' = [order EXCEPT ![idx] = id]
    /\ idx' = (idx + 1) % Capacity
    /\ reply' = [id |-> id, seen |-> FALSE]

\* The index moves before the slot is written.
RecordAtNext(id) ==
    /\ id \notin seen
    /\ seen' = (IF filled = Capacity THEN seen \ {order[idx]} ELSE seen) \cup {id}
    /\ filled' = IF filled = Capacity THEN filled ELSE filled + 1
    /\ idx' = (idx + 1) % Capacity
    /\ order' = [order EXCEPT ![idx'] = id]
    /\ reply' = [id |-> id, seen |-> FALSE]

\* A new ID takes the slot at idx, and the ID there is forgotten if all are full.
Record(id) ==
    /\ id \notin seen
    /\ seen' = (IF filled = Capacity THEN seen \ {order[idx]} ELSE seen) \cup {id}
    /\ filled' = IF filled = Capacity THEN filled ELSE filled + 1
    /\ order' = [order EXCEPT ![idx] = id]
    /\ idx' = (idx + 1) % Capacity
    /\ reply' = [id |-> id, seen |-> FALSE]

Seen(id) == Known(id) \/ Record(id)

Init ==
    /\ seen = {} /\ idx = 0 /\ filled = 0
    /\ order = [n \in 0..(Capacity - 1) |-> Empty]
    /\ reply = [id |-> Empty, seen |-> FALSE]

Next == \E id \in IDs : Seen(id)

Spec == Init /\ [][Next]_vars

-----------------------------------------------------------------------------
\* The types of the fields of Dedupe; idx stays in the ring.
TypeOK ==
    /\ seen \subseteq IDs
    /\ order \in [0..(Capacity - 1) -> IDs]
    /\ idx \in 0..(Capacity - 1)
    /\ filled \in 0..Capacity
    /\ reply \in [id : IDs, seen : BOOLEAN]

\* The map and the ring agree (Seen): the map holds the IDs of the slots in use,
\* each in one slot, so that it never outgrows the ring and nothing in it is out
\* of reach of the eviction.
MapMatchesRing ==
    /\ seen = {order[n] : n \in 0..(filled - 1)}
    /\ Cardinality(seen) = filled

\* The ring from its oldest slot on.
Oldest == IF filled = Capacity THEN idx ELSE 0
Recent == [n \in 1..filled |-> order[(Oldest + n - 1) % Capacity]]

Window == INSTANCE RecentIDs WITH recent <- Recent
\* Dedupe remembers exactly the last Capacity new IDs, in order (Seen).
ImplementsRecentIDs == Window!Spec
=============================================================================
