--------------------------- MODULE PullBusProofs ---------------------------
(***************************************************************************)
(* Proofs about PullBus and the Dedupe in it, for every set of event IDs,   *)
(* every capacity of the ring and any number of callbacks.                  *)
(***************************************************************************)
EXTENDS PullBus, FiniteSetTheorems, TLAPS

-----------------------------------------------------------------------------
(* The ring *)

\* Until the ring is full its slots are taken in order.
FilledInOrder == filled < Capacity => idx = filled

\* No ID has two slots.
SlotsDiffer == \A m, n \in 0..(filled - 1) : order[m] = order[n] => m = n

RingInv == /\ TypeOK /\ MapMatchesRing /\ IsFiniteSet(seen)
           /\ FilledInOrder /\ SlotsDiffer

\* The capacity is positive, whatever NewDedupe is asked for.
LEMMA CapacityType == Capacity \in Nat /\ Capacity > 0
BY EmptyAssumption DEF Capacity

\* The index stays in the ring, and wraps at its end.
LEMMA NextSlot ==
    ASSUME NEW C \in Nat, NEW n \in 0..(C - 1)
    PROVE  /\ (n + 1) % C \in 0..(C - 1)
           /\ n + 1 < C => (n + 1) % C = n + 1
BY Z3

\* A new Dedupe is consistent.
LEMMA RingInit == Init => RingInv
<1> SUFFICES ASSUME Init PROVE RingInv
  BY Zenon
<1>1. TypeOK
  BY EmptyAssumption, CapacityType DEF Init, TypeOK
<1>2. seen = {order[n] : n \in 0..(filled - 1)} /\ SlotsDiffer
  BY DEF Init, SlotsDiffer
<1>3. IsFiniteSet(seen) /\ Cardinality(seen) = filled
  BY FS_EmptySet, Zenon DEF Init
<1> QED BY <1>1, <1>2, <1>3, Zenon DEF RingInv, MapMatchesRing, FilledInOrder, Init

\* Recording a new ID keeps the ring and the map consistent, full or not.
LEMMA RecordStep ==
    ASSUME RingInv, NEW id \in IDs, Record(id)
    PROVE  RingInv'
<1> DEFINE slots == 0..(filled - 1)
<1>0. /\ Capacity \in Nat /\ Capacity > 0
      /\ idx \in 0..(Capacity - 1) /\ filled \in 0..Capacity
      /\ order \in [0..(Capacity - 1) -> IDs]
      /\ seen = {order[n] : n \in slots} /\ IsFiniteSet(seen) /\ Cardinality(seen) = filled
      /\ id \notin seen
  BY CapacityType, Zenon DEF RingInv, TypeOK, MapMatchesRing, Record
<1>1. /\ idx' \in 0..(Capacity - 1)
      /\ idx + 1 < Capacity => idx' = idx + 1
  BY <1>0, NextSlot, Zenon DEF Record
<1>2. TypeOK'
  BY <1>0, <1>1 DEF RingInv, TypeOK, Record
<1>3. CASE filled = Capacity
  <2>1. /\ seen' = (seen \ {order[idx]}) \cup {id} /\ filled' = filled
        /\ order' = [order EXCEPT ![idx] = id]
    BY <1>3, Zenon DEF Record
  <2>2. idx \in slots /\ order[idx] \in seen
    BY <1>0, <1>3, Zenon
  <2>3. \A n \in slots : n # idx => order[n] # order[idx]
    BY <2>2, Zenon DEF RingInv, SlotsDiffer
  <2>4. \A n \in slots : order'[n] = IF n = idx THEN id ELSE order[n]
    BY <1>0, <1>3, <2>1, Zenon
  <2>5. seen' = {order'[n] : n \in slots}
    BY <1>0, <2>1, <2>2, <2>3, <2>4
  <2>6. SlotsDiffer'
    BY <1>0, <2>1, <2>4 DEF RingInv, SlotsDiffer
  <2>7. IsFiniteSet(seen \ {order[idx]}) /\ Cardinality(seen \ {order[idx]}) = filled - 1
    BY <1>0, <2>2, FS_RemoveElement
  <2>8. IsFiniteSet(seen') /\ Cardinality(seen') = filled'
    <3> DEFINE rest == seen \ {order[idx]}
    <3>1. id \notin rest
      BY <1>0, Zenon
    <3>2. IsFiniteSet(rest) /\ Cardinality(rest) = filled - 1
      BY <2>7, Zenon
    <3> HIDE DEF rest
    <3>3. IsFiniteSet(rest \cup {id}) /\ Cardinality(rest \cup {id}) = Cardinality(rest) + 1
      BY <3>1, <3>2, FS_AddElement, Zenon
    <3>4. seen' = rest \cup {id} /\ filled' = filled
      BY <2>1, Zenon DEF rest
    <3>5. filled - 1 + 1 = filled
      BY <1>0
    <3> QED BY <3>2, <3>3, <3>4, <3>5, Zenon
  <2>9. FilledInOrder'
    BY <1>0, <1>3, <2>1 DEF FilledInOrder
  <2> QED BY <1>2, <2>1, <2>5, <2>6, <2>8, <2>9, Zenon DEF RingInv, MapMatchesRing
<1>4. CASE filled # Capacity
  <2>1. /\ seen' = seen \cup {id} /\ filled' = filled + 1 /\ idx = filled
        /\ order' = [order EXCEPT ![idx] = id]
    BY <1>0, <1>4 DEF Record, RingInv, FilledInOrder
  <2>2. \A n \in 0..filled : order'[n] = IF n = filled THEN id ELSE order[n]
    BY <1>0, <1>4, <2>1
  <2>3. 0..(filled' - 1) = slots \cup {filled} /\ filled \notin slots
    BY <1>0, <2>1
  <2>4. seen' = {order'[n] : n \in 0..(filled' - 1)}
    BY <1>0, <2>1, <2>2, <2>3
  <2>5. SlotsDiffer'
    BY <1>0, <2>1, <2>2, <2>3 DEF RingInv, SlotsDiffer
  <2>6. IsFiniteSet(seen') /\ Cardinality(seen') = filled'
    BY <1>0, <2>1, FS_AddElement, Zenon
  <2>7. FilledInOrder'
    BY <1>0, <1>1, <2>1, Zenon DEF FilledInOrder
  <2> QED BY <1>2, <2>4, <2>5, <2>6, <2>7, Zenon DEF RingInv, MapMatchesRing
<1> QED BY <1>3, <1>4, Zenon

\* A call of Seen, or a step of somebody else, keeps the ring consistent.
LEMMA SeenStep ==
    ASSUME RingInv, (\E id \in IDs : Seen(id)) \/ UNCHANGED vars
    PROVE  RingInv'
<1>1. ASSUME NEW id \in IDs, Known(id) PROVE RingInv'
  BY <1>1 DEF Known, RingInv, TypeOK, MapMatchesRing, FilledInOrder, SlotsDiffer
<1>2. CASE UNCHANGED vars
  BY <1>2 DEF vars, RingInv, TypeOK, MapMatchesRing, FilledInOrder, SlotsDiffer
<1> QED BY <1>1, <1>2, RecordStep, Zenon DEF Seen

-----------------------------------------------------------------------------
(* The callbacks *)

\* A callback with an event has a message.
HandledIsMessage == \A c \in Callbacks : cb[c].pc # "idle" => cb[c].id \in Messages

\* An ID not published yet is nowhere.
FreshIsNew == /\ fresh \cap (seen \cup backlog) = {}
              /\ \A c \in Callbacks : cb[c].id \notin fresh

\* A new subscription owes nothing.
NoneOwesNothing == sub = "none" => owed = {}

\* Whoever recorded an ID has evicted its key or is about to, and so an
\* acknowledgement takes nothing away that is still needed.
SeenIsEvicted == owed \cap seen \subseteq Evicting
AckedIsEvicted ==
    ~closed => \A c \in Callbacks : cb[c].pc = "ack" /\ cb[c].id \in owed => cb[c].id \in Evicting

PullInv == /\ PullTypeOK /\ RingInv /\ HandledIsMessage /\ FreshIsNew /\ NoneOwesNothing
           /\ SeenIsEvicted /\ AckedIsEvicted /\ NothingForgotten

\* A new instance satisfies the invariant.
LEMMA PullInvInit == PullInit => PullInv
<1> SUFFICES ASSUME PullInit PROVE PullInv
  OBVIOUS
<1>1. RingInv
  BY RingInit, Zenon DEF PullInit
<1>2. PullTypeOK
  BY <1>1, Zenon DEF PullInit, PullTypeOK, RingInv, NoMessage, Messages
<1>3. seen = {} /\ owed = {} /\ fresh \cap backlog = {}
  BY Zenon DEF PullInit, Init
<1>4. \A c \in Callbacks : cb[c].pc = "idle" /\ cb[c].id \notin fresh
  BY MessageAssumption, Zenon DEF PullInit, NoMessage
<1> QED BY <1>1, <1>2, <1>3, <1>4, Zenon DEF PullInv, HandledIsMessage, FreshIsNew, NoneOwesNothing,
             SeenIsEvicted, AckedIsEvicted, NothingForgotten

\* What a callback does to the keys about to be evicted.
LEMMA EvictingStep ==
    ASSUME PullTypeOK, NEW c \in Callbacks, NEW p \in {"idle", "handle", "evict", "ack"},
           NEW m \in Messages \cup {NoID}, cb' = [cb EXCEPT ![c] = [pc |-> p, id |-> m]]
    PROVE  /\ cb' \in [Callbacks -> [pc : {"idle", "handle", "evict", "ack"}, id : Messages \cup {NoID}]]
           /\ cb'[c].pc = p /\ cb'[c].id = m
           /\ \A d \in Callbacks \ {c} : cb'[d] = cb[d]
           /\ p = "evict" => m \in Evicting'
           /\ \A id \in Evicting : id \in Evicting' \/ (cb[c].pc = "evict" /\ cb[c].id = id)
<1>1. /\ cb' \in [Callbacks -> [pc : {"idle", "handle", "evict", "ack"}, id : Messages \cup {NoID}]]
      /\ cb'[c].pc = p /\ cb'[c].id = m
      /\ \A d \in Callbacks \ {c} : cb'[d] = cb[d]
  BY Zenon DEF PullTypeOK
<1> QED BY <1>1 DEF Evicting

\* Steps that neither look at an event nor acknowledge one.
LEMMA ServiceStep ==
    ASSUME PullInv, UNCHANGED <<vars, closed>>,
           \/ \E m \in IDs : Publish(m)
           \/ \E m \in Other : PublishOther(m)
           \/ \E m \in Messages : LeaseExpires(m) \/ HolderTakes(m)
           \/ HolderLeaves \/ Subscribe
    PROVE  PullInv'
<1> USE DEF PullInv
<1>0. RingInv' /\ Evicting' = Evicting /\ cb' = cb /\ seen' = seen
  <2>1. cb' = cb
    BY Zenon DEF Publish, PublishOther, LeaseExpires, HolderTakes, HolderLeaves,
           Subscribe, Create, ReceiveEnds, ReceiveReturns, Teardown
  <2> QED BY <2>1, SeenStep, Zenon DEF Evicting, vars
<1>1. TypeOK'
  BY <1>0, Zenon DEF RingInv
<1>2. ASSUME NEW m \in IDs, Publish(m) PROVE PullInv'
  <2>1. m \in fresh /\ m \notin seen /\ \A c \in Callbacks : cb[c].id # m
    BY <1>2, Zenon DEF Publish, FreshIsNew
  <2>2. PullTypeOK'
    BY <1>1, <1>2, Zenon DEF Publish, PullTypeOK, Messages
  <2>3. HandledIsMessage' /\ FreshIsNew' /\ NoneOwesNothing'
    BY <1>2, <1>0, Zenon DEF Publish, HandledIsMessage, FreshIsNew, NoneOwesNothing
  <2>4. SeenIsEvicted' /\ AckedIsEvicted'
    BY <1>2, <1>0, <2>1 DEF Publish, SeenIsEvicted, AckedIsEvicted
  <2>5. NothingForgotten'
    BY <1>2, <1>0 DEF Publish, NothingForgotten, Attached
  <2> QED BY <1>0, <2>2, <2>3, <2>4, <2>5, Zenon
<1>3. ASSUME NEW m \in Other, PublishOther(m) PROVE PullInv'
  <2>1. m \notin fresh
    BY MessageAssumption, Zenon DEF PullTypeOK
  <2>2. PullTypeOK'
    BY <1>1, <1>3, Zenon DEF PublishOther, PullTypeOK, Messages
  <2> QED BY <1>0, <1>3, <2>1, <2>2 DEF PublishOther, HandledIsMessage, FreshIsNew, NoneOwesNothing,
                SeenIsEvicted, AckedIsEvicted, NothingForgotten, Attached
<1>4. ASSUME NEW m \in Messages, LeaseExpires(m) \/ HolderTakes(m) PROVE PullInv'
  <2>1. PullTypeOK'
    BY <1>1, <1>4, Zenon DEF LeaseExpires, HolderTakes, PullTypeOK
  <2>2. FreshIsNew'
    BY <1>0, <1>4, Zenon DEF LeaseExpires, HolderTakes, FreshIsNew
  <2> QED BY <1>0, <1>4, <2>1, <2>2 DEF LeaseExpires, HolderTakes, HandledIsMessage, NoneOwesNothing,
                SeenIsEvicted, AckedIsEvicted, NothingForgotten, Attached
<1>5. ASSUME sub' = "none", owed' = {}, backlog' = {}, leased' = {}, fresh' = fresh,
             pc' \in {pc, "returned"}
      PROVE  PullInv'
  <2>1. PullTypeOK'
    BY <1>0, <1>1, <1>5, Zenon DEF PullTypeOK
  <2>2. FreshIsNew'
    BY <1>0, <1>5, Zenon DEF FreshIsNew
  <2> QED BY <1>0, <1>5, <2>1, <2>2, Zenon DEF HandledIsMessage, NoneOwesNothing,
                SeenIsEvicted, AckedIsEvicted, NothingForgotten
<1>6. ASSUME UNCHANGED <<backlog, leased, fresh, owed>>, sub' = sub \/ (sub = "none" /\ sub' = "own"),
             pc' \in {"start", "receive", "drain", "teardown", "returned"},
             pc = "returned" => pc' = "returned"
      PROVE  PullInv'
  <2>1. PullTypeOK'
    BY <1>0, <1>1, <1>6, Zenon DEF PullTypeOK
  <2>2. NothingForgotten' /\ NoneOwesNothing'
    BY <1>0, <1>6, Zenon DEF NothingForgotten, Attached, NoneOwesNothing
  <2> QED BY <1>0, <1>6, <2>1, <2>2, Zenon DEF HandledIsMessage, FreshIsNew, SeenIsEvicted, AckedIsEvicted
<1> HIDE DEF PullInv
<1>7. CASE HolderLeaves
  BY <1>5, <1>7, Zenon DEF HolderLeaves, Drop
<1>8. CASE Create
  <2>1. /\ UNCHANGED <<backlog, leased, fresh, owed>> /\ pc = "start"
        /\ sub' = sub \/ (sub = "none" /\ sub' = "own")
        /\ pc' \in {"receive", "returned"}
    BY <1>8, Zenon DEF Create
  <2> QED BY <1>6, <2>1, Zenon
<1>9. CASE ReceiveEnds \/ ReceiveReturns
  <2>1. /\ UNCHANGED <<backlog, leased, fresh, owed>> /\ pc \in {"receive", "drain"}
        /\ sub' = sub /\ pc' \in {"drain", "teardown", "returned"}
    BY <1>9, Zenon DEF ReceiveEnds, ReceiveReturns, svcVars
  <2> QED BY <1>6, <2>1, Zenon
<1>10. CASE Teardown
  <2>1. pc = "teardown" /\ pc' = "returned" /\ fresh' = fresh
    BY <1>10, Zenon DEF Teardown
  <2>2. CASE Drop
    BY <1>5, <2>1, <2>2, Zenon DEF Drop
  <2>3. CASE UNCHANGED <<sub, backlog, leased, owed>>
    BY <1>6, <2>1, <2>3, Zenon
  <2> QED BY <1>10, <2>2, <2>3, Zenon DEF Teardown
<1> QED BY <1>2, <1>3, <1>4, <1>7, <1>8, <1>9, <1>10, Zenon DEF Subscribe

-----------------------------------------------------------------------------
\* A delivery hands out a message that has been published.
LEMMA DeliverStep ==
    ASSUME PullInv, NEW c \in Callbacks, NEW m \in Messages, Deliver(c, m)
    PROVE  PullInv'
<1> USE DEF PullInv
<1>1. RingInv' /\ seen' = seen /\ m \notin fresh /\ cb[c].pc = "idle"
  BY SeenStep DEF Deliver, vars, FreshIsNew, NoMessage
<1>2. /\ cb' \in [Callbacks -> [pc : {"idle", "handle", "evict", "ack"}, id : Messages \cup {NoID}]]
      /\ cb'[c].pc = "handle" /\ cb'[c].id = m
      /\ \A d \in Callbacks \ {c} : cb'[d] = cb[d]
      /\ Evicting \subseteq Evicting'
  BY <1>1, EvictingStep, Zenon DEF Deliver
<1>3. PullTypeOK'
  BY <1>1, <1>2, Zenon DEF Deliver, PullTypeOK, RingInv
<1>4. HandledIsMessage' /\ FreshIsNew' /\ NoneOwesNothing'
  BY <1>1, <1>2, Zenon DEF Deliver, HandledIsMessage, FreshIsNew, NoneOwesNothing
<1>5. SeenIsEvicted' /\ AckedIsEvicted' /\ NothingForgotten'
  BY <1>1, <1>2, Zenon DEF Deliver, SeenIsEvicted, AckedIsEvicted, NothingForgotten, Attached
<1> QED BY <1>1, <1>3, <1>4, <1>5, Zenon

\* onEvent up to Seen: an ID that is known needs no second eviction, and a new
\* one gets its own.
LEMMA HandleStep ==
    ASSUME PullInv, NEW c \in Callbacks, Handle(c)
    PROVE  PullInv'
<1> DEFINE m == cb[c].id
<1>1. /\ cb[c].pc = "handle" /\ m \in Messages /\ m \notin fresh
      /\ UNCHANGED <<sub, backlog, leased, fresh, pc, closed, owed>>
  BY Zenon DEF Handle, PullInv, HandledIsMessage, FreshIsNew, svcVars
<1>2. PICK p \in {"evict", "ack"} :
         /\ cb' = [cb EXCEPT ![c] = [pc |-> p, id |-> m]]
         /\ seen' \subseteq seen \cup {m}
         /\ m \in seen' \ seen => p = "evict"
         /\ p = "ack" => m \in Other \/ closed \/ m \in seen
         /\ RingInv'
  <2>1. CASE m \in Other \/ closed
    <3>1. UNCHANGED vars /\ Goto(c, "ack")
      BY <2>1, Zenon DEF Handle
    <3> QED BY <2>1, <3>1, SeenStep, Zenon DEF Goto, vars, PullInv
  <2>2. CASE ~(m \in Other \/ closed)
    <3>1. m \in IDs
      BY <1>1, <2>2, Zenon DEF Messages
    <3>2. CASE Known(m) /\ Goto(c, "ack")
      BY <3>1, <3>2, SeenStep, Zenon DEF Goto, Known, Seen, PullInv
    <3>3. CASE Record(m) /\ Goto(c, "evict")
      BY <3>1, <3>3, SeenStep, Zenon DEF Goto, Record, Seen, PullInv
    <3> QED BY <2>2, <3>2, <3>3, Zenon DEF Handle
  <2> QED BY <2>1, <2>2, Zenon
<1> HIDE DEF m
<1>3. /\ cb' \in [Callbacks -> [pc : {"idle", "handle", "evict", "ack"}, id : Messages \cup {NoID}]]
      /\ cb'[c].pc = p /\ cb'[c].id = m
      /\ \A d \in Callbacks \ {c} : cb'[d] = cb[d]
      /\ p = "evict" => m \in Evicting'
      /\ Evicting \subseteq Evicting'
  BY <1>1, <1>2, EvictingStep, Zenon DEF PullInv
<1> USE DEF PullInv
<1>4. PullTypeOK'
  BY <1>1, <1>2, <1>3, Zenon DEF PullTypeOK, RingInv
<1>5. HandledIsMessage' /\ FreshIsNew' /\ NoneOwesNothing'
  BY <1>1, <1>2, <1>3 DEF HandledIsMessage, FreshIsNew, NoneOwesNothing
<1>6. SeenIsEvicted'
  BY <1>1, <1>2, <1>3, Zenon DEF SeenIsEvicted
<1>7. AckedIsEvicted'
  <2>1. p = "ack" /\ ~closed /\ m \in owed => m \in Evicting
    BY <1>2, MessageAssumption, Zenon DEF PullTypeOK, SeenIsEvicted
  <2> QED BY <1>1, <1>3, <2>1, Zenon DEF AckedIsEvicted
<1>8. NothingForgotten'
  BY <1>1, <1>3, Zenon DEF NothingForgotten, Attached
<1> QED BY <1>2, <1>4, <1>5, <1>6, <1>7, <1>8, Zenon

\* The rest of onEvent: the event is no longer owed.
LEMMA EvictStep ==
    ASSUME PullInv, NEW c \in Callbacks, Evict(c)
    PROVE  PullInv'
<1> USE DEF PullInv
<1>1. /\ RingInv' /\ seen' = seen /\ cb[c].pc = "evict" /\ owed' = owed \ {cb[c].id}
      /\ UNCHANGED <<sub, backlog, leased, fresh, pc, closed>>
      /\ cb' = [cb EXCEPT ![c] = [pc |-> "ack", id |-> cb[c].id]]
      /\ cb[c].id \in Messages
  BY SeenStep, Zenon DEF Evict, vars, svcVars, Goto, HandledIsMessage
<1>2. /\ cb' \in [Callbacks -> [pc : {"idle", "handle", "evict", "ack"}, id : Messages \cup {NoID}]]
      /\ cb'[c].pc = "ack" /\ cb'[c].id = cb[c].id
      /\ \A d \in Callbacks \ {c} : cb'[d] = cb[d]
      /\ Evicting \ {cb[c].id} \subseteq Evicting'
  BY <1>1, EvictingStep, Zenon
<1>3. PullTypeOK'
  BY <1>1, <1>2, Zenon DEF PullTypeOK, RingInv
<1>4. HandledIsMessage' /\ FreshIsNew' /\ NoneOwesNothing'
  BY <1>1, <1>2, Zenon DEF HandledIsMessage, FreshIsNew, NoneOwesNothing
<1>5. SeenIsEvicted' /\ AckedIsEvicted' /\ NothingForgotten'
  BY <1>1, <1>2, Zenon DEF SeenIsEvicted, AckedIsEvicted, NothingForgotten, Attached
<1> QED BY <1>1, <1>3, <1>4, <1>5, Zenon

\* An acknowledged event is evicted, or about to be.
LEMMA AckStep ==
    ASSUME PullInv, NEW c \in Callbacks, Ack(c)
    PROVE  PullInv'
<1> USE DEF PullInv
<1>1. /\ RingInv' /\ seen' = seen /\ cb[c].pc = "ack"
      /\ UNCHANGED <<sub, fresh, pc, closed, owed>>
      /\ cb' = [cb EXCEPT ![c] = [pc |-> "idle", id |-> NoID]]
  BY SeenStep, Zenon DEF Ack, vars, NoMessage
<1>2. /\ cb' \in [Callbacks -> [pc : {"idle", "handle", "evict", "ack"}, id : Messages \cup {NoID}]]
      /\ cb'[c].pc = "idle" /\ cb'[c].id = NoID
      /\ \A d \in Callbacks \ {c} : cb'[d] = cb[d]
      /\ Evicting \subseteq Evicting'
  BY <1>1, EvictingStep, Zenon
<1>3. backlog' \subseteq backlog /\ backlog \ {cb[c].id} \subseteq backlog' /\ leased' \subseteq backlog'
  BY Zenon DEF Ack, PullTypeOK
<1>4. PullTypeOK'
  BY <1>1, <1>2, <1>3, Zenon DEF PullTypeOK, RingInv
<1>5. HandledIsMessage' /\ FreshIsNew' /\ NoneOwesNothing'
  BY <1>1, <1>2, <1>3, MessageAssumption, Zenon DEF HandledIsMessage, FreshIsNew, NoneOwesNothing, PullTypeOK
<1>6. SeenIsEvicted' /\ AckedIsEvicted'
  BY <1>1, <1>2, Zenon DEF SeenIsEvicted, AckedIsEvicted
<1>7. NothingForgotten'
  BY <1>1, <1>2, <1>3 DEF NothingForgotten, Attached, AckedIsEvicted
<1> QED BY <1>1, <1>4, <1>5, <1>6, <1>7, Zenon

\* Close only stops what follows it.
LEMMA CloseStep ==
    ASSUME PullInv, Close
    PROVE  PullInv'
<1> USE DEF PullInv
<1>1. /\ RingInv' /\ UNCHANGED <<seen, sub, backlog, leased, fresh, pc, cb, owed>> /\ closed' = TRUE
      /\ Evicting' = Evicting
  BY SeenStep, Zenon DEF Close, vars, svcVars, Evicting
<1>2. PullTypeOK'
  BY <1>1, Zenon DEF PullTypeOK, RingInv
<1> QED BY <1>1, <1>2, Zenon DEF HandledIsMessage, FreshIsNew, NoneOwesNothing,
             SeenIsEvicted, AckedIsEvicted, NothingForgotten, Attached

\* The invariant holds of every behaviour.
LEMMA PullInvariance == PullSpec => []PullInv
<1>1. PullInv /\ [PullNext]_pullVars => PullInv'
  <2> SUFFICES ASSUME PullInv, [PullNext]_pullVars PROVE PullInv'
    BY Zenon
  <2>1. ASSUME NEW m \in IDs, Publish(m) PROVE PullInv'
    BY <2>1, ServiceStep, Zenon DEF Publish, vars
  <2>2. ASSUME NEW m \in Other, PublishOther(m) PROVE PullInv'
    BY <2>2, ServiceStep, Zenon DEF PublishOther, vars
  <2>3. ASSUME NEW m \in Messages, LeaseExpires(m) \/ HolderTakes(m) PROVE PullInv'
    BY <2>3, ServiceStep, Zenon DEF LeaseExpires, HolderTakes, vars
  <2>4. CASE HolderLeaves
    BY <2>4, ServiceStep, Zenon DEF HolderLeaves, vars
  <2>5. CASE Subscribe
    <3>1. UNCHANGED <<vars, closed>>
      BY <2>5, Zenon DEF Subscribe, Create, ReceiveEnds, ReceiveReturns, Teardown, vars
    <3> QED BY <2>5, <3>1, ServiceStep, Zenon
  <2>6. CASE UNCHANGED pullVars
    <3>1. RingInv' /\ Evicting' = Evicting
      BY <2>6, SeenStep, Zenon DEF pullVars, vars, PullInv, Evicting
    <3> QED BY <2>6, <3>1, Zenon DEF pullVars, svcVars, vars, PullInv, PullTypeOK, RingInv, HandledIsMessage,
                 FreshIsNew, NoneOwesNothing, SeenIsEvicted, AckedIsEvicted, NothingForgotten, Attached
  <2> QED BY <2>1, <2>2, <2>3, <2>4, <2>5, <2>6, DeliverStep, HandleStep, EvictStep, AckStep, CloseStep, Zenon
          DEF PullNext, Run
<1> QED BY <1>1, PullInvInit, PTL DEF PullSpec

\* The types of the puller, of its callbacks and of the Dedupe they share.
THEOREM PullTypeCorrect == PullSpec => []PullTypeOK
BY PullInvariance, PTL DEF PullInv

\* The map of Dedupe holds exactly the IDs of the slots in use (Seen), for every
\* capacity: it never grows beyond the ring.
THEOREM RingConsistency == PullSpec => []MapMatchesRing
BY PullInvariance, PTL DEF PullInv, RingInv

\* No event is acknowledged into the void (Subscribe, onEvent, Seen), for any
\* number of callbacks, redeliveries and forgotten IDs.
THEOREM NoEventForgotten == PullSpec => []NothingForgotten
BY PullInvariance, PTL DEF PullInv

-----------------------------------------------------------------------------
(* The refinement *)

\* The remainder of a sum of two slots.
LEMMA SumOfSlots ==
    ASSUME NEW C \in Nat, NEW a \in Nat, C > 0, a < 2 * C
    PROVE  a % C = IF a < C THEN a ELSE a - C
BY Z3

\* The slot of the n-th oldest ID.
SlotOf(n) == IF filled < Capacity THEN n - 1
             ELSE IF idx + n - 1 < Capacity THEN idx + n - 1 ELSE idx + n - 1 - Capacity

\* The ring, read from its oldest slot on, is the sequence of what the map holds.
RingView == /\ filled \in 0..Capacity /\ DOMAIN Recent = 1..filled
            /\ \A n \in 1..filled : SlotOf(n) \in 0..(filled - 1) /\ Recent[n] = order[SlotOf(n)]
            /\ Recent \in Seq(IDs) /\ Len(Recent) = filled
            /\ \A id \in IDs : id \in seen <=> \E n \in 1..filled : Recent[n] = id

\* The consistent ring can be read that way.
LEMMA RingAsSequence == RingInv => RingView
<1> SUFFICES ASSUME RingInv PROVE RingView
  OBVIOUS
<1>0. /\ Capacity \in Nat /\ Capacity > 0
      /\ idx \in 0..(Capacity - 1) /\ filled \in 0..Capacity
      /\ order \in [0..(Capacity - 1) -> IDs]
      /\ seen = {order[n] : n \in 0..(filled - 1)}
  BY CapacityType, Zenon DEF RingInv, TypeOK, MapMatchesRing
<1>1. ASSUME NEW n \in 1..filled
      PROVE  (Oldest + n - 1) % Capacity = SlotOf(n) /\ SlotOf(n) \in 0..(filled - 1)
  <2> DEFINE a == Oldest + n - 1
  <2>1. a \in Nat /\ a < 2 * Capacity
    BY <1>0 DEF Oldest
  <2>2. SlotOf(n) = (IF a < Capacity THEN a ELSE a - Capacity) /\ SlotOf(n) \in 0..(filled - 1)
    BY <1>0 DEF Oldest, SlotOf
  <2> HIDE DEF a
  <2>3. a % Capacity = IF a < Capacity THEN a ELSE a - Capacity
    BY <1>0, <2>1, SumOfSlots, Zenon
  <2> QED BY <2>2, <2>3, Zenon DEF a
<1>2. \A n \in 1..filled : SlotOf(n) \in 0..(filled - 1) /\ Recent[n] = order[SlotOf(n)]
  BY <1>1, Zenon DEF Recent
<1>3. \A n \in 1..filled : Recent[n] \in IDs
  BY <1>0, <1>2
<1>4. DOMAIN Recent = 1..filled /\ Recent \in [1..filled -> IDs]
  BY <1>3, Zenon DEF Recent
<1>5. Recent \in Seq(IDs) /\ Len(Recent) = filled
  BY <1>0, <1>4
<1>6. ASSUME NEW m \in 0..(filled - 1) PROVE \E n \in 1..filled : SlotOf(n) = m
  <2>1. CASE filled < Capacity
    BY <1>0, <2>1 DEF SlotOf
  <2>2. CASE filled = Capacity /\ m >= idx
    <3>1. m - idx + 1 \in 1..filled /\ SlotOf(m - idx + 1) = m
      BY <1>0, <2>2 DEF SlotOf
    <3> QED BY <3>1, Zenon
  <2>3. CASE filled = Capacity /\ m < idx
    <3>1. m - idx + 1 + Capacity \in 1..filled /\ SlotOf(m - idx + 1 + Capacity) = m
      BY <1>0, <2>3 DEF SlotOf
    <3> QED BY <3>1, Zenon
  <2> QED BY <1>0, <2>1, <2>2, <2>3
<1>7. ASSUME NEW id \in seen PROVE \E n \in 1..filled : Recent[n] = id
  <2>1. PICK m \in 0..(filled - 1) : order[m] = id
    BY <1>0, Zenon
  <2>2. PICK n \in 1..filled : SlotOf(n) = m
    BY <1>6, Zenon
  <2> QED BY <1>2, <2>1, <2>2, Zenon
<1>8. ASSUME NEW n \in 1..filled PROVE Recent[n] \in seen
  BY <1>0, <1>2, Zenon
<1> QED BY <1>0, <1>2, <1>4, <1>5, <1>7, <1>8, Zenon DEF RingView

\* Recording an ID appends it, and forgets the oldest if the ring is full.
LEMMA RecordAppends ==
    ASSUME RingInv, NEW id \in IDs, Record(id)
    PROVE  Recent' = IF filled = Capacity THEN Append(Tail(Recent), id) ELSE Append(Recent, id)
<1>0. /\ Capacity \in Nat /\ Capacity > 0
      /\ idx \in 0..(Capacity - 1) /\ filled \in 0..Capacity
      /\ order \in [0..(Capacity - 1) -> IDs]
      /\ order' = [order EXCEPT ![idx] = id]
      /\ filled' = (IF filled = Capacity THEN filled ELSE filled + 1)
      /\ idx' = IF idx + 1 < Capacity THEN idx + 1 ELSE 0
  <2>1. /\ Capacity \in Nat /\ Capacity > 0 /\ idx \in 0..(Capacity - 1) /\ idx' = (idx + 1) % Capacity
    BY CapacityType, Zenon DEF RingInv, TypeOK, Record
  <2>2. idx' = IF idx + 1 < Capacity THEN idx + 1 ELSE idx + 1 - Capacity
    BY <2>1, SumOfSlots
  <2> QED BY <2>1, <2>2 DEF RingInv, TypeOK, Record
<1>1. RingInv'
  BY RecordStep, Zenon
<1>2. /\ DOMAIN Recent' = 1..filled'
      /\ \A n \in 1..filled' : Recent'[n] = order'[SlotOf(n)']
      /\ Recent' \in Seq(IDs) /\ Len(Recent') = filled'
  <2>1. RingView'
    BY <1>1, RingAsSequence, PTL
  <2> QED BY <2>1, Zenon DEF RingView
<1>3. /\ \A n \in 1..filled : SlotOf(n) \in 0..(filled - 1) /\ Recent[n] = order[SlotOf(n)]
      /\ Recent \in Seq(IDs) /\ Len(Recent) = filled
  BY RingAsSequence, Zenon DEF RingView
<1>4. CASE filled = Capacity
  <2>1. \A n \in 1..(filled - 1) : SlotOf(n)' = SlotOf(n + 1) /\ SlotOf(n + 1) # idx
    BY <1>0, <1>4 DEF SlotOf
  <2>2. SlotOf(filled)' = idx
    BY <1>0, <1>4 DEF SlotOf
  <2>3. \A n \in 1..(filled - 1) : Recent'[n] = Recent[n + 1]
    BY <1>0, <1>2, <1>3, <1>4, <2>1
  <2>4. Recent'[filled] = id
    BY <1>0, <1>2, <1>4, <2>2
  <2> DEFINE s == Append(Tail(Recent), id)
  <2>5. /\ s \in Seq(IDs) /\ Len(s) = filled /\ s[filled] = id
        /\ \A n \in 1..(filled - 1) : s[n] = Recent[n + 1]
    BY <1>0, <1>3, <1>4
  <2> HIDE DEF s
  <2>6. Recent' = s
    BY <1>0, <1>2, <1>4, <2>3, <2>4, <2>5
  <2> QED BY <1>4, <2>6, Zenon DEF s
<1>5. CASE filled # Capacity
  <2>1. \A n \in 1..filled : SlotOf(n) = n - 1
    BY <1>0, <1>5 DEF SlotOf
  <2>2. idx = filled
    BY <1>0, <1>5 DEF RingInv, FilledInOrder
  <2>3. \A n \in 1..filled' : SlotOf(n)' = n - 1
    BY <1>0, <1>5, <2>2 DEF SlotOf
  <2>4. ASSUME NEW n \in 1..filled PROVE Recent'[n] = Recent[n]
    <3>1. n \in 1..filled' /\ n - 1 \in 0..(Capacity - 1) /\ n - 1 # idx
      BY <1>0, <1>5, <2>2
    <3>2. Recent'[n] = order'[n - 1] /\ Recent[n] = order[n - 1]
      BY <1>2, <1>3, <2>1, <2>3, <3>1, Zenon
    <3> QED BY <1>0, <3>1, <3>2, Zenon
  <2>5. Recent'[filled + 1] = id
    BY <1>0, <1>2, <1>5, <2>2, <2>3
  <2> DEFINE s == Append(Recent, id)
  <2>6. /\ s \in Seq(IDs) /\ Len(s) = filled + 1 /\ s[filled + 1] = id
        /\ \A n \in 1..filled : s[n] = Recent[n]
    BY <1>0, <1>3
  <2> HIDE DEF s
  <2>7. Recent' = s
    BY <1>0, <1>2, <1>5, <2>4, <2>5, <2>6
  <2> QED BY <1>5, <2>7, Zenon DEF s
<1> QED BY <1>4, <1>5, Zenon

\* Dedupe remembers exactly the last Capacity new IDs, oldest first (Seen), for
\* every capacity and set of IDs.
THEOREM DedupeRefinement == PullSpec => ImplementsRecentIDs
<1>1. PullInit => Window!Init
  <2> SUFFICES ASSUME PullInit PROVE Window!Init
    BY Zenon
  <2>1. Recent \in Seq(IDs) /\ Len(Recent) = 0
    BY RingInit, RingAsSequence, Zenon DEF PullInit, Init, RingView
  <2> QED BY <2>1, EmptyAssumption DEF PullInit, Init, Window!Init
<1>2. PullInv /\ [PullNext]_pullVars => [Window!Next]_(Window!vars)
  <2> SUFFICES ASSUME PullInv, [PullNext]_pullVars PROVE Window!Next \/ UNCHANGED Window!vars
    BY Zenon
  <2>0. RingInv
    BY Zenon DEF PullInv
  <2>1. ASSUME NEW id \in IDs, Known(id) PROVE Window!Seen(id)
    <3>1. Recent' = Recent
      BY <2>1, Zenon DEF Known, Recent, Oldest
    <3>2. Window!Remembered(id)
      BY <2>0, <2>1, RingAsSequence, Zenon DEF Known, Window!Remembered, RingView
    <3> QED BY <2>1, <3>1, <3>2, Zenon DEF Known, Window!Seen
  <2>2. ASSUME NEW id \in IDs, Record(id) PROVE Window!Seen(id)
    <3>1. ~Window!Remembered(id) /\ Len(Recent) = filled
      BY <2>0, <2>2, RingAsSequence, Zenon DEF Record, Window!Remembered, RingView
    <3>2. Recent' = IF filled = Capacity THEN Append(Tail(Recent), id) ELSE Append(Recent, id)
      BY <2>0, <2>2, RecordAppends, Zenon
    <3>3. reply' = [id |-> id, seen |-> FALSE]
      BY <2>2, Zenon DEF Record
    <3>4. Window!Remembered(id) = FALSE
      BY <3>1, Zenon DEF Window!Remembered
    <3> QED BY <3>1, <3>2, <3>3, <3>4, Zenon DEF Window!Seen
  <2>3. CASE UNCHANGED vars
    BY <2>3, Zenon DEF vars, Window!vars, Recent, Oldest
  <2>4. (\E id \in IDs : Known(id) \/ Record(id)) \/ UNCHANGED vars
    <3>1. ASSUME NEW c \in Callbacks, Handle(c) PROVE (\E id \in IDs : Known(id) \/ Record(id)) \/ UNCHANGED vars
      <4>1. cb[c].id \in Messages
        BY <3>1, Zenon DEF Handle, PullInv, HandledIsMessage
      <4> QED BY <3>1, <4>1, Zenon DEF Handle, Messages
    <3>2. CASE ~\E c \in Callbacks : Handle(c)
      BY <3>2, Zenon DEF PullNext, Publish, PublishOther, LeaseExpires, HolderTakes, Deliver, HolderLeaves, Run, Evict,
                  Ack, Subscribe, Create, ReceiveEnds, ReceiveReturns, Teardown, Close, pullVars
    <3> QED BY <3>1, <3>2, Zenon
  <2> QED BY <2>1, <2>2, <2>3, <2>4, Zenon DEF Window!Next
<1> QED BY <1>1, <1>2, PullInvariance, PTL DEF PullSpec, Window!Spec, ImplementsRecentIDs
-----------------------------------------------------------------------------
(* The ack deadline *)

\* A wrapped integer is an integer, and one in range is left alone.
LEMMA WrapType ==
    ASSUME NEW n \in Int, NEW m \in Nat \ {0}
    PROVE  Wrap(n, m) \in Int /\ (n \in -(m \div 2)..(m \div 2 - 1) => Wrap(n, m) = n)
<1>1. n % m \in 0..(m - 1) /\ (n \in 0..(m - 1) => n % m = n)
  OBVIOUS
<1>2. n \in -m..-1 => n % m = n + m
  OBVIOUS
<1>3. m \div 2 \in Nat /\ m - (m \div 2) >= m \div 2
  OBVIOUS
<1> QED BY <1>1, <1>2, <1>3 DEF Wrap

\* Rounding up to whole units: the bounds of the quotient.
LEMMA RoundUp ==
    ASSUME NEW d \in Nat, NEW s \in Nat \ {0}, NEW n \in Nat, d <= n * s
    PROVE  LET q == (d + s - 1) \div s
           IN  q \in Nat /\ q <= n /\ d <= q * s /\ (q - 1) * s < d
<1> DEFINE q == (d + s - 1) \div s
<1>1. q \in Nat /\ s * q <= d + s - 1 /\ d + s - 1 < s * q + s
  OBVIOUS
<1> HIDE DEF q
<1>2. q * s = s * q /\ (q - 1) * s = s * q - s
  BY <1>1
<1>3. d <= q * s /\ (q - 1) * s < d
  BY <1>1, <1>2
<1>4. q <= n
  <2> SUFFICES ASSUME n + 1 <= q PROVE FALSE
    BY <1>1
  <2>1. (n + 1) * s <= q * s
    BY <1>1
  <2>2. (n + 1) * s = n * s + s
    OBVIOUS
  <2> QED BY <1>1, <1>2, <2>1, <2>2
<1> QED BY <1>1, <1>3, <1>4, Zenon DEF q

\* The clamp of clampAckSeconds, whatever the conversion to int32 leaves.
LEMMA SecondsType == \A d \in Int : Seconds(d) \in Int
<1> SUFFICES ASSUME NEW d \in Int PROVE Seconds(d) \in Int
  BY Zenon
<1>1. Wrap(d + Second - 1, Wide) \in Int
  BY WrapType, DeadlineAssumption
<1>2. Quotient(Wrap(d + Second - 1, Wide), Second) \in Int
  BY <1>1, DeadlineAssumption DEF Quotient
<1> QED BY <1>2, WrapType, DeadlineAssumption, Zenon DEF Seconds

\* Truncating toward zero: a negative dividend has a quotient between its bound
\* and 0.
LEMMA QuotientOfNegative ==
    ASSUME NEW n \in Int, n < 0, NEW s \in Nat \ {0}, NEW b \in Nat, -n <= b * s
    PROVE  Quotient(n, s) \in -b..0
<1> DEFINE q == (-n) \div s
<1>1. q \in Nat /\ s * q <= -n
  OBVIOUS
<1>2. Quotient(n, s) = -q
  BY DEF Quotient
<1> HIDE DEF q
<1>3. q <= b
  <2> SUFFICES ASSUME b + 1 <= q PROVE FALSE
    BY <1>1
  <2>1. (b + 1) * s <= q * s
    BY <1>1
  <2>2. (b + 1) * s = b * s + s /\ q * s = s * q
    BY <1>1
  <2> QED BY <1>1, <2>1, <2>2
<1> QED BY <1>1, <1>2, <1>3

\* For every size of the integers, every unit and every range: the deadline asked
\* for is valid, and it is the configured one rounded up and clamped whenever its
\* seconds fit the narrow integer (clampAckSeconds).
THEOREM AckDeadline == PullSpec => []AckDeadlineIsValid
<1>1. ASSUME NEW d \in Durations PROVE clampAckSeconds(d) \in AckMin..AckMax
  <2>1. Seconds(d) \in Int
    BY SecondsType, DeadlineAssumption, Zenon
  <2> QED BY <2>1, DeadlineAssumption DEF clampAckSeconds
<1>2. ASSUME NEW d \in Durations,
             d \in -((Narrow \div 2) * Second)..((Narrow \div 2 - 1) * Second)
      PROVE  RoundedAndClamped(d, clampAckSeconds(d))
  <2> DEFINE b == Narrow \div 2
             n == d + Second - 1
  <2>0. /\ d \in Int /\ n \in Int /\ b \in Nat /\ b * Second \in Nat
        /\ (b - 1) * Second = b * Second - Second
        /\ b * Second < Wide \div 2 /\ Wide \div 2 \in Nat
        /\ -(b * Second) <= d /\ d <= b * Second - Second
    BY <1>2, DeadlineAssumption
  <2>1. Wrap(n, Wide) = n
    <3>1. n \in -(Wide \div 2)..(Wide \div 2 - 1)
      BY <2>0, DeadlineAssumption
    <3> QED BY <3>1, WrapType, DeadlineAssumption
  <2>2. ASSUME NEW q \in -b..(b - 1), Quotient(n, Second) = q
        PROVE  clampAckSeconds(d) = IF q < AckMin THEN AckMin ELSE IF q > AckMax THEN AckMax ELSE q
    <3>1. Wrap(q, Narrow) = q
      BY <2>0, <2>2, WrapType, DeadlineAssumption
    <3> QED BY <2>1, <2>2, <3>1 DEF clampAckSeconds, Seconds
  <2>3. CASE d <= 0
    <3>1. Quotient(n, Second) \in -b..0
      <4>1. CASE n < 0
        <5>1. -n <= b * Second
          BY <2>0, DeadlineAssumption
        <5> QED BY <4>1, <5>1, <2>0, QuotientOfNegative, DeadlineAssumption
      <4>2. CASE n >= 0
        <5>1. n \in 0..(Second - 1)
          BY <2>0, <2>3, <4>2, DeadlineAssumption
        <5> HIDE DEF n
        <5>2. n \div Second = 0
          BY <5>1, DeadlineAssumption
        <5> QED BY <4>2, <5>2, <2>0 DEF Quotient
      <4> QED BY <4>1, <4>2, <2>0
    <3>2. b - 1 >= 0
      BY <2>0, DeadlineAssumption
    <3> HIDE DEF n, b
    <3>3. clampAckSeconds(d) = AckMin
      <4>1. Quotient(n, Second) \in -b..(b - 1)
        BY <3>1, <3>2, <2>0
      <4> QED BY <4>1, <3>1, <2>0, <2>2, DeadlineAssumption
    <3>4. AckMin * Second \in Nat
      BY DeadlineAssumption
    <3> QED BY <2>0, <2>3, <3>3, <3>4 DEF RoundedAndClamped
  <2>4. CASE d > 0
    <3> DEFINE q == n \div Second
    <3>1. q \in Nat /\ q <= b - 1 /\ d <= q * Second /\ (q - 1) * Second < d
      <4>1. b - 1 \in Nat /\ d \in Nat /\ d <= (b - 1) * Second
        BY <2>0, <2>4, DeadlineAssumption
      <4> QED BY <4>1, RoundUp, DeadlineAssumption
    <3>2. Quotient(n, Second) = q
      BY <2>0, <2>4, DeadlineAssumption DEF Quotient
    <3> HIDE DEF q, n, b
    <3>3. clampAckSeconds(d) = IF q < AckMin THEN AckMin ELSE IF q > AckMax THEN AckMax ELSE q
      <4>1. q \in -b..(b - 1)
        BY <3>1, <2>0
      <4> QED BY <4>1, <3>2, <2>2
    <3>4. q < AckMin => q * Second <= AckMin * Second
      BY <3>1, DeadlineAssumption
    <3>5. q > AckMax => (AckMax - 1) * Second <= (q - 1) * Second
      BY <3>1, DeadlineAssumption
    <3>6. /\ q * Second \in Nat /\ AckMin * Second \in Nat
          /\ (q - 1) * Second \in Int /\ (AckMax - 1) * Second \in Int
      BY <3>1, DeadlineAssumption
    <3> QED BY <2>0, <3>1, <3>3, <3>4, <3>5, <3>6, DeadlineAssumption DEF RoundedAndClamped
  <2> QED BY <2>0, <2>3, <2>4
<1>3. AckDeadlineIsValid
  BY <1>1, <1>2, Zenon DEF AckDeadlineIsValid
<1> QED BY <1>3, PTL
=============================================================================
