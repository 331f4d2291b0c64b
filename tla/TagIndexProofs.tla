--------------------------- MODULE TagIndexProofs ---------------------------
(***************************************************************************)
(* Proofs about TagIndex, for every set of keys, writers and instances, any *)
(* number of calls of InvalidateTag that overlap in any way, any number of  *)
(* readers, and every size of the batches and chunks.                       *)
(***************************************************************************)
EXTENDS TagIndex, FiniteSetTheorems, TLAPS

\* What a call of InvalidateTag holds.
CallType ==
    [pc : {"idle", "scan", "tombstone", "evict"},
     owed : SUBSET Keys, page : SUBSET Keys, todo : SUBSET Keys, done : SUBSET Keys,
     last : BOOLEAN, failed : BOOLEAN, processed : SUBSET Keys, evict : SUBSET Keys,
     calls : Nat, chunks : Nat]

\* An event ID names a call and a chunk of it.
IDType == Callers \X Nat \X Nat

\* Which parts of a call are in use where it is.
Shape(c) ==
    /\ c.pc = "idle" => c.processed = {} /\ ~c.failed
    /\ c.pc # "tombstone" => c.page = {} /\ c.todo = {} /\ c.done = {}
    /\ c.pc \in {"idle", "evict"} \/ c.last => c.owed = {}
    /\ IsFiniteSet(c.page) /\ IsFiniteSet(c.todo) /\ IsFiniteSet(c.done)
    /\ IsFiniteSet(c.processed)
    /\ Cardinality(c.todo) + Cardinality(c.done) <= Batch

\* The event ID has been given to a chunk that was sent.
Used(id) ==
    LET c == call[id[1]]
    IN  id[2] < c.calls \/ (id[2] = c.calls /\ (c.pc = "idle" \/ id[3] < c.chunks))

TypeInv ==
    /\ hash \in [Keys -> {"gone"} \cup Writers]
    /\ members \subseteq Keys /\ IsFiniteSet(members) /\ tagged \subseteq Keys
    /\ adding \in [Writers -> SUBSET Keys]
    /\ \A w \in Writers : IsFiniteSet(adding[w]) /\ Cardinality(adding[w]) <= 1
    /\ call \in [Callers -> CallType] /\ \A i \in Callers : Shape(call[i])
    /\ l1 \in [Instances -> [Keys -> {"none"} \cup CopyState]]
    /\ hand \in [Instances -> SUBSET (Keys \X CopyState)]
    /\ bus \in [Instances -> SUBSET [id : IDType, keys : SUBSET Keys]]
    /\ \A i \in Instances : \A ev \in bus[i] : ev.keys # {} /\ Cardinality(ev.keys) <= Chunk
    /\ seen \in [Instances -> SUBSET IDType]
    /\ due \in [Callers -> SUBSET Keys]

\* IDs are not used twice, and no event is taken for a duplicate before it is
\* applied.
IDInv ==
    \A j \in Instances :
        /\ \A id \in seen[j] : Used(id)
        /\ \A ev \in bus[j] : Used(ev.id) /\ ev.id \notin seen[j]
        /\ \A e, f \in bus[j] : e.id = f.id => e = f

\* What a sweep has still to reach.
Ahead(c) == c.owed \cup c.page \cup c.todo

\* What is due to a call is in the tag set, no call is about to take it off, and
\* it is ahead of the sweep if that has not failed.
SweepInv ==
    \A i \in Callers :
        /\ due[i] \subseteq members
        /\ \A j \in Callers : due[i] \cap call[j].done = {}
        /\ ~call[i].failed => due[i] \subseteq Ahead(call[i])

\* The call of i is still to evict k from the L1 of j.
Handles(i, j, k) ==
    IF call[i].pc = "evict" /\ Home[i] = j THEN k \in call[i].evict
    ELSE k \in call[i].done \cup call[i].processed

Dead(j, k) == l1[j][k] = "dead" \/ <<k, "dead">> \in hand[j]

\* What is to evict k from j: a retry, for the tag set has it, a call or an event.
Awaited(j, k) ==
    \/ k \in members
    \/ \E i \in Callers : Handles(i, j, k)
    \/ \E ev \in bus[j] : k \in ev.keys

DeadInv == \A j \in Instances, k \in Keys : Dead(j, k) => Awaited(j, k)

-----------------------------------------------------------------------------
(* The steps of a call *)

\* The end of a sweep.
LEMMA FinishFields ==
    ASSUME NEW c \in CallType
    PROVE  /\ Finish(c) \in CallType
           /\ Finish(c).pc = "evict" /\ Finish(c).evict = c.processed /\ Finish(c).todo = {}
           /\ Finish(c).done = {} /\ Finish(c).page = {} /\ Finish(c).owed = {}
           /\ Finish(c).processed = c.processed /\ Finish(c).failed = c.failed
           /\ Finish(c).calls = c.calls /\ Finish(c).chunks = c.chunks
BY Zenon DEF Finish, CallType

\* A sweep between two commands, and as it goes on: it loses nothing of what is
\* ahead of it, unless it fails.
Sound(c, d) ==
    /\ d \in CallType /\ Shape(d) /\ d.pc # "idle"
    /\ d.done = {} /\ d.processed = c.processed
    /\ d.calls = c.calls /\ d.chunks = c.chunks
    /\ d.pc = "evict" => d.evict = c.processed
    /\ ~d.failed => ~c.failed /\ c.owed \cup c.page \subseteq Ahead(d)

LEMMA GoesOn ==
    ASSUME NEW c \in CallType, c.todo = {}, c.last => c.owed = {},
           IsFiniteSet(c.page), IsFiniteSet(c.processed),
           NEW d, d \in Proceed(c) \/ d = Finish([c EXCEPT !.failed = TRUE])
    PROVE  Sound(c, d)
<1>0. IsFiniteSet({}) /\ Cardinality({}) = 0
  BY FS_EmptySet, Zenon
<1>1. ASSUME NEW x \in CallType, x.processed = c.processed, x.calls = c.calls, x.chunks = c.chunks,
             x.failed \/ (x = c /\ c.page = {} /\ c.last), d = Finish(x)
      PROVE  Sound(c, d)
  <2>1. /\ d \in CallType
        /\ d.pc = "evict" /\ d.evict = c.processed /\ d.todo = {} /\ d.done = {} /\ d.page = {}
        /\ d.owed = {} /\ d.processed = c.processed /\ d.failed = x.failed
        /\ d.calls = c.calls /\ d.chunks = c.chunks
    BY <1>1, FinishFields, Zenon
  <2>2. Cardinality(d.todo) + Cardinality(d.done) <= Batch
    BY <1>0, <2>1, SizeAssumption
  <2>3. Shape(d)
    BY <1>0, <2>1, <2>2, Zenon DEF Shape
  <2>4. ~d.failed => ~c.failed /\ c.owed \cup c.page = {}
    BY <1>1, <2>1, Zenon
  <2> QED BY <2>1, <2>3, <2>4, Zenon DEF Sound
<1>2. CASE d = Finish([c EXCEPT !.failed = TRUE])
  <2> DEFINE x == [c EXCEPT !.failed = TRUE]
  <2>1. x \in CallType /\ x.processed = c.processed /\ x.calls = c.calls /\ x.chunks = c.chunks /\ x.failed
    BY Zenon DEF CallType
  <2> HIDE DEF x
  <2> QED BY <1>1, <1>2, <2>1, Zenon DEF x
<1>3. CASE d \in Proceed(c) /\ (c.failed \/ (c.page = {} /\ c.last))
  <2>1. d = Finish(c)
    BY <1>3, Zenon DEF Proceed
  <2> QED BY <1>1, <1>3, <2>1, Zenon
<1>4. CASE d \in Proceed(c) /\ ~c.failed /\ c.page # {}
  <2>1. PICK s \in Batches(c.page) :
           d = [c EXCEPT !.pc = "tombstone", !.page = c.page \ s, !.todo = s, !.done = {}]
    BY <1>4, Zenon DEF Proceed
  <2>2. s \subseteq c.page /\ Cardinality(s) \in 1..Batch
    BY Zenon DEF Batches
  <2>3. /\ d \in CallType /\ d.pc = "tombstone" /\ d.page = c.page \ s /\ d.todo = s /\ d.done = {}
        /\ d.owed = c.owed /\ d.processed = c.processed /\ d.failed = c.failed /\ d.last = c.last
        /\ d.calls = c.calls /\ d.chunks = c.chunks
    BY <2>1, <2>2, Zenon DEF CallType
  <2>4. IsFiniteSet(d.page) /\ IsFiniteSet(d.todo)
    BY <2>2, <2>3, FS_Subset, Zenon
  <2>5. Cardinality(d.todo) + Cardinality(d.done) <= Batch
    BY <1>0, <2>2, <2>3, SizeAssumption
  <2>6. Shape(d)
    BY <1>0, <2>3, <2>4, <2>5, Zenon DEF Shape
  <2>7. c.owed \cup c.page \subseteq Ahead(d)
    BY <2>3, Zenon DEF Ahead
  <2> QED BY <1>4, <2>3, <2>6, <2>7, Zenon DEF Sound
<1>5. CASE d \in Proceed(c) /\ ~c.failed /\ c.page = {} /\ ~c.last
  <2>1. d = [c EXCEPT !.pc = "scan", !.done = {}]
    BY <1>5, Zenon DEF Proceed
  <2>2. /\ d \in CallType /\ d.pc = "scan" /\ d.page = {} /\ d.todo = {} /\ d.done = {}
        /\ d.owed = c.owed /\ d.processed = c.processed /\ d.failed = c.failed /\ d.last = c.last
        /\ d.calls = c.calls /\ d.chunks = c.chunks
    BY <1>5, <2>1, Zenon DEF CallType
  <2>3. Cardinality(d.todo) + Cardinality(d.done) <= Batch
    BY <1>0, <2>2, SizeAssumption
  <2>4. Shape(d)
    BY <1>0, <1>5, <2>2, <2>3, Zenon DEF Shape
  <2> QED BY <1>5, <2>2, <2>4, Zenon DEF Sound, Ahead
<1> QED BY <1>2, <1>3, <1>4, <1>5, Zenon

\* Sscan: a page, or an error.
LEMMA SscanFields ==
    ASSUME TypeInv, NEW i \in Callers, Sscan(i)
    PROVE  \E c, d : /\ Sound(c, d) /\ call' = [call EXCEPT ![i] = d]
                     /\ c.processed = call[i].processed /\ c.failed = call[i].failed
                     /\ c.calls = call[i].calls /\ c.chunks = call[i].chunks
                     /\ call[i].owed \subseteq c.owed \cup c.page
<1>0. /\ call[i] \in CallType /\ Shape(call[i]) /\ call[i].todo = {} /\ call[i].page = {}
      /\ IsFiniteSet(call[i].processed) /\ IsFiniteSet(call[i].page) /\ call[i].last \in BOOLEAN
  BY Zenon DEF TypeInv, Shape, Sscan, CallType
<1>2. ASSUME NEW page \in SUBSET members, NEW last \in BOOLEAN, last => call[i].owed \subseteq page,
             NEW d \in Proceed([call[i] EXCEPT !.page = page, !.last = last,
                                               !.owed = IF last THEN {} ELSE @ \ page]),
             call' = [call EXCEPT ![i] = d]
      PROVE  \E c, e : /\ Sound(c, e) /\ call' = [call EXCEPT ![i] = e]
                       /\ c.processed = call[i].processed /\ c.failed = call[i].failed
                       /\ c.calls = call[i].calls /\ c.chunks = call[i].chunks
                       /\ call[i].owed \subseteq c.owed \cup c.page
  <2>1. PICK c : c = [call[i] EXCEPT !.page = page, !.last = last,
                                     !.owed = IF last THEN {} ELSE call[i].owed \ page]
    BY Zenon
  <2>2. d \in Proceed(c)
    BY <1>2, <2>1, Zenon
  <2>3. page \in SUBSET Keys /\ (IF last THEN {} ELSE call[i].owed \ page) \in SUBSET Keys
    BY <1>0 DEF TypeInv, CallType
  <2>4. /\ c \in CallType /\ c.todo = {} /\ c.page = page /\ c.last = last
        /\ c.owed = (IF last THEN {} ELSE call[i].owed \ page)
        /\ c.processed = call[i].processed /\ c.failed = call[i].failed
        /\ c.calls = call[i].calls /\ c.chunks = call[i].chunks
    BY <1>0, <2>1, <2>3, Zenon DEF CallType
  <2>5. IsFiniteSet(page)
    BY FS_Subset, Zenon DEF TypeInv
  <2>6. call[i].owed \subseteq c.owed \cup c.page /\ (c.last => c.owed = {})
    BY <1>2, <2>4
  <2>7. Sound(c, d)
    BY <1>0, <2>2, <2>4, <2>5, <2>6, GoesOn, Zenon
  <2> QED BY <1>2, <2>4, <2>6, <2>7, Zenon
<1>3. ASSUME call' = [call EXCEPT ![i] = Finish([call[i] EXCEPT !.failed = TRUE])]
      PROVE  \E c, e : /\ Sound(c, e) /\ call' = [call EXCEPT ![i] = e]
                       /\ c.processed = call[i].processed /\ c.failed = call[i].failed
                       /\ c.calls = call[i].calls /\ c.chunks = call[i].chunks
                       /\ call[i].owed \subseteq c.owed \cup c.page
  <2>1. Sound(call[i], Finish([call[i] EXCEPT !.failed = TRUE]))
    BY <1>0, GoesOn, Zenon DEF Shape
  <2> QED BY <1>3, <2>1, Zenon
<1> QED BY <1>2, <1>3, Zenon DEF Sscan

\* Srem: what the batch tombstoned is processed, and leaves the set if SREM does it.
LEMMA SremFields ==
    ASSUME TypeInv, NEW i \in Callers, Srem(i)
    PROVE  \E c, d, ks : /\ Sound(c, d) /\ Leave(ks, i, d) /\ ks \subseteq call[i].done
                         /\ c.processed = call[i].processed \cup call[i].done
                         /\ c.failed = call[i].failed
                         /\ c.calls = call[i].calls /\ c.chunks = call[i].chunks
                         /\ Ahead(call[i]) = c.owed \cup c.page
<1>0. call[i] \in CallType /\ Shape(call[i])
  BY Zenon DEF TypeInv
<1>1. PICK c : c = [call[i] EXCEPT !.processed = call[i].processed \cup call[i].done]
  BY Zenon
<1>2. /\ c \in CallType /\ c.page = call[i].page /\ c.todo = call[i].todo /\ c.done = call[i].done
      /\ c.owed = call[i].owed /\ c.last = call[i].last /\ c.failed = call[i].failed
      /\ c.processed = call[i].processed \cup call[i].done
      /\ c.calls = call[i].calls /\ c.chunks = call[i].chunks
  BY <1>0, <1>1, Zenon DEF CallType
<1>3. PICK d, ks : /\ c.todo = {} /\ ks \subseteq c.done /\ Leave(ks, i, d)
                   /\ d \in Proceed(c) \/ d = Finish([c EXCEPT !.failed = TRUE])
  BY <1>1, Zenon DEF Srem
<1>4. IsFiniteSet(c.page) /\ IsFiniteSet(c.processed) /\ (c.last => c.owed = {})
  <2>1. IsFiniteSet(call[i].processed) /\ IsFiniteSet(call[i].done) /\ IsFiniteSet(call[i].page)
        /\ (call[i].last => call[i].owed = {})
    BY <1>0, Zenon DEF Shape
  <2> QED BY <1>2, <2>1, FS_Union, Zenon
<1>5. Sound(c, d)
  BY <1>2, <1>3, <1>4, GoesOn, Zenon
<1>6. Ahead(call[i]) = c.owed \cup c.page
  BY <1>2, <1>3, Zenon DEF Ahead
<1> QED BY <1>2, <1>3, <1>5, <1>6, Zenon

\* Leave: the other calls.
LEMMA LeaveFields ==
    ASSUME TypeInv, NEW i \in Callers, NEW d, NEW ks, Leave(ks, i, d)
    PROVE  /\ call' = [j \in Callers |-> call'[j]] /\ call'[i] = d
           /\ \A j \in Callers \ {i} : /\ call'[j] \in CallType /\ Shape(call'[j])
                                       /\ call'[j].owed = call[j].owed \ ks
                                       /\ call'[j].page = call[j].page /\ call'[j].todo = call[j].todo
                                       /\ call'[j].done = call[j].done /\ call'[j].pc = call[j].pc
                                       /\ call'[j].failed = call[j].failed
                                       /\ call'[j].processed = call[j].processed
                                       /\ call'[j].evict = call[j].evict
                                       /\ call'[j].calls = call[j].calls
                                       /\ call'[j].chunks = call[j].chunks
<1>1. call' = [j \in Callers |-> call'[j]] /\ call'[i] = d
  BY Zenon DEF Leave
<1>2. ASSUME NEW j \in Callers \ {i}
      PROVE  /\ call'[j] \in CallType /\ Shape(call'[j])
             /\ call'[j].owed = call[j].owed \ ks
             /\ call'[j].page = call[j].page /\ call'[j].todo = call[j].todo
             /\ call'[j].done = call[j].done /\ call'[j].pc = call[j].pc
             /\ call'[j].failed = call[j].failed
             /\ call'[j].processed = call[j].processed
             /\ call'[j].evict = call[j].evict
             /\ call'[j].calls = call[j].calls
             /\ call'[j].chunks = call[j].chunks
  <2>1. PICK x : x = [call[j] EXCEPT !.owed = call[j].owed \ ks]
    BY Zenon
  <2>2. call'[j] = x /\ call[j] \in CallType /\ Shape(call[j])
    BY <2>1, Zenon DEF Leave, TypeInv
  <2>3. /\ x \in CallType /\ x.owed = call[j].owed \ ks
        /\ x.page = call[j].page /\ x.todo = call[j].todo /\ x.done = call[j].done
        /\ x.pc = call[j].pc /\ x.failed = call[j].failed /\ x.last = call[j].last
        /\ x.processed = call[j].processed /\ x.evict = call[j].evict
        /\ x.calls = call[j].calls /\ x.chunks = call[j].chunks
    BY <2>1, <2>2, Zenon DEF CallType
  <2>4. Shape(x)
    BY <2>2, <2>3, Zenon DEF Shape
  <2> QED BY <2>2, <2>3, <2>4, Zenon
<1> QED BY <1>1, <1>2, Zenon

\* What a command that failed may have done.
LEMMA KillMember ==
    ASSUME NEW k \in Keys, Kill(k, k \in members)
    PROVE  (k \in members /\ Kill(k, TRUE)) \/ (k \notin members /\ Kill(k, FALSE))
<1>1. CASE k \in members
  <2>1. Kill(k, TRUE)
    BY <1>1 DEF Kill
  <2> QED BY <1>1, <2>1, Zenon
<1>2. CASE k \notin members
  <2>1. Kill(k, FALSE)
    BY <1>2 DEF Kill
  <2> QED BY <1>2, <2>1, Zenon
<1> QED BY <1>1, <1>2, Zenon

\* Tombstone: a command that succeeds puts its key among those done; one that
\* fails marks the sweep as failed.
LEMMA TombstoneFields ==
    ASSUME TypeInv, NEW i \in Callers, NEW k \in Keys, Tombstone(i, k)
    PROVE  \E d : /\ d \in CallType /\ Shape(d) /\ call' = [call EXCEPT ![i] = d]
                  /\ call[i].pc = "tombstone" /\ d.pc = "tombstone"
                  /\ d.page = call[i].page /\ d.owed = call[i].owed /\ d.todo = call[i].todo \ {k}
                  /\ d.processed = call[i].processed /\ d.evict = call[i].evict
                  /\ d.calls = call[i].calls /\ d.chunks = call[i].chunks
                  /\ \/ Kill(k, TRUE) /\ d.done = call[i].done \cup {k} /\ d.failed = call[i].failed
                     \/ /\ \/ k \in members /\ Kill(k, TRUE)
                           \/ k \notin members /\ Kill(k, FALSE)
                           \/ UNCHANGED <<hash, l1, hand, tagged, due>>
                        /\ d.done = call[i].done /\ d.failed = TRUE
<1>0. /\ call[i] \in CallType /\ Shape(call[i]) /\ call[i].pc = "tombstone" /\ k \in call[i].todo
      /\ IsFiniteSet(call[i].todo) /\ IsFiniteSet(call[i].done)
      /\ Cardinality(call[i].todo) + Cardinality(call[i].done) <= Batch
  BY Zenon DEF TypeInv, Tombstone, Shape
<1> DEFINE Rec(s, f) == [call[i] EXCEPT !.todo = call[i].todo \ {k}, !.done = call[i].done \cup s,
                                      !.failed = f]
<1>1. ASSUME NEW s \in {{}, {k}}, NEW f \in BOOLEAN, NEW d, d = Rec(s, f)
      PROVE  /\ d \in CallType /\ Shape(d) /\ d.pc = "tombstone"
             /\ d.page = call[i].page /\ d.owed = call[i].owed /\ d.todo = call[i].todo \ {k}
             /\ d.processed = call[i].processed /\ d.evict = call[i].evict
             /\ d.calls = call[i].calls /\ d.chunks = call[i].chunks
             /\ d.done = call[i].done \cup s /\ d.failed = f
  <2>1. /\ d \in CallType /\ d.pc = "tombstone" /\ d.last = call[i].last
        /\ d.page = call[i].page /\ d.owed = call[i].owed /\ d.todo = call[i].todo \ {k}
        /\ d.processed = call[i].processed /\ d.evict = call[i].evict
        /\ d.calls = call[i].calls /\ d.chunks = call[i].chunks
        /\ d.done = call[i].done \cup s /\ d.failed = f
    BY <1>0, <1>1, Zenon DEF CallType
  <2>2. /\ IsFiniteSet(call[i].todo \ {k})
        /\ Cardinality(call[i].todo \ {k}) = Cardinality(call[i].todo) - 1
    BY <1>0, FS_RemoveElement, ZenonT(30)
  <2>3. /\ IsFiniteSet(call[i].done \cup {k})
        /\ Cardinality(call[i].done \cup {k}) \in {Cardinality(call[i].done), Cardinality(call[i].done) + 1}
    BY <1>0, FS_AddElement, Zenon
  <2>4. Cardinality(call[i].todo) \in Nat /\ Cardinality(call[i].done) \in Nat
    BY <1>0, FS_CardinalityType, Zenon
  <2>5. call[i].done \cup s \in {call[i].done, call[i].done \cup {k}}
    BY Zenon
  <2>6. IsFiniteSet(d.done) /\ Cardinality(d.done) \in {Cardinality(call[i].done), Cardinality(call[i].done) + 1}
    BY <1>0, <2>1, <2>3, <2>5, Zenon
  <2>7. Cardinality(d.todo) + Cardinality(d.done) <= Batch
    BY <1>0, <2>1, <2>2, <2>4, <2>6, SizeAssumption
  <2>8. Shape(d)
    BY <1>0, <2>1, <2>2, <2>6, <2>7, Zenon DEF Shape
  <2> QED BY <2>1, <2>8, Zenon
<1> HIDE DEF Rec
<1>2. CASE Kill(k, TRUE) /\ call' = [call EXCEPT ![i].todo = @ \ {k}, ![i].done = @ \cup {k}]
  <2>1. PICK d : d = Rec({k}, call[i].failed)
    BY Zenon
  <2>2. call' = [call EXCEPT ![i] = d] /\ call[i].failed \in BOOLEAN
    BY <1>0, <1>2, <2>1, Zenon DEF CallType, TypeInv, Rec
  <2>3. /\ d \in CallType /\ Shape(d) /\ d.pc = "tombstone"
        /\ d.page = call[i].page /\ d.owed = call[i].owed /\ d.todo = call[i].todo \ {k}
        /\ d.processed = call[i].processed /\ d.evict = call[i].evict
        /\ d.calls = call[i].calls /\ d.chunks = call[i].chunks
        /\ d.done = call[i].done \cup {k} /\ d.failed = call[i].failed
    BY <1>1, <2>1, <2>2, Zenon
  <2> QED BY <1>0, <1>2, <2>2, <2>3, Zenon
<1>3. CASE /\ Kill(k, k \in members) \/ UNCHANGED <<hash, l1, hand, tagged, due>>
           /\ call' = [call EXCEPT ![i].todo = @ \ {k}, ![i].failed = TRUE]
  <2>1. PICK d : d = Rec({}, TRUE)
    BY Zenon
  <2>2. call' = [call EXCEPT ![i] = d]
    BY <1>0, <1>3, <2>1, ZenonT(30) DEF CallType, TypeInv, Rec
  <2>3. /\ d \in CallType /\ Shape(d) /\ d.pc = "tombstone"
        /\ d.page = call[i].page /\ d.owed = call[i].owed /\ d.todo = call[i].todo \ {k}
        /\ d.processed = call[i].processed /\ d.evict = call[i].evict
        /\ d.calls = call[i].calls /\ d.chunks = call[i].chunks
        /\ d.done = call[i].done \cup {} /\ d.failed = TRUE
    BY <1>1, <2>1, Zenon
  <2>4. d.done = call[i].done
    BY <2>3, Zenon
  <2> QED BY <1>0, <1>3, <2>2, <2>3, <2>4, KillMember, Zenon
<1> QED BY <1>2, <1>3, Zenon DEF Tombstone

\* The call of i becomes d, and the others stay.
LEMMA CallStep ==
    ASSUME TypeInv, NEW i \in Callers, NEW d \in CallType, Shape(d),
           call' = [call EXCEPT ![i] = d]
    PROVE  /\ call' \in [Callers -> CallType] /\ \A j \in Callers : Shape(call'[j])
           /\ call'[i] = d /\ \A j \in Callers \ {i} : call'[j] = call[j]
<1>1. call' \in [Callers -> CallType] /\ call'[i] = d /\ \A j \in Callers \ {i} : call'[j] = call[j]
  BY Zenon DEF TypeInv
<1>2. ASSUME NEW j \in Callers PROVE Shape(call'[j])
  <2>1. CASE j = i
    BY <1>1, <2>1, Zenon
  <2>2. CASE j # i
    <3>1. call'[j] = call[j] /\ Shape(call[j])
      BY <1>1, <2>2, Zenon DEF TypeInv
    <3> QED BY <3>1, Zenon
  <2> QED BY <2>1, <2>2, Zenon
<1> QED BY <1>1, <1>2, Zenon

\* The call of i becomes d, and the keys ks are no longer owed by the others.
LEMMA LeaveStep ==
    ASSUME TypeInv, NEW i \in Callers, NEW d \in CallType, Shape(d), NEW ks, Leave(ks, i, d)
    PROVE  call' \in [Callers -> CallType] /\ \A j \in Callers : Shape(call'[j])
<1>1. /\ call' = [j \in Callers |-> call'[j]] /\ call'[i] = d
      /\ \A j \in Callers \ {i} : call'[j] \in CallType /\ Shape(call'[j])
  BY LeaveFields, Zenon
<1>2. ASSUME NEW j \in Callers PROVE call'[j] \in CallType /\ Shape(call'[j])
  <2>1. CASE j = i
    BY <1>1, <2>1, Zenon
  <2>2. CASE j # i
    BY <1>1, <2>2, Zenon
  <2> QED BY <2>1, <2>2, Zenon
<1>3. \A j \in Callers : call'[j] \in CallType
  BY <1>2, Zenon
<1>4. call' \in [Callers -> CallType]
  BY <1>1, <1>3, Zenon
<1> QED BY <1>2, <1>4, Zenon

\* The calls of the two kinds of step that change no other part of a call.
LEMMA BeginFields ==
    ASSUME TypeInv, NEW i \in Callers, Begin(i)
    PROVE  \E d : /\ d \in CallType /\ Shape(d) /\ call' = [call EXCEPT ![i] = d]
                  /\ d.pc = "scan" /\ d.owed = members /\ d.page = {} /\ d.todo = {} /\ d.done = {}
                  /\ d.processed = {} /\ d.evict = {} /\ d.chunks = 0
                  /\ d.calls = call[i].calls + 1
<1>1. PICK d : d = [NoCall EXCEPT !.pc = "scan", !.owed = members, !.calls = call[i].calls + 1]
  BY Zenon
<1>2. call[i].calls + 1 \in Nat /\ members \in SUBSET Keys
  BY DEF TypeInv, CallType
<1>3. /\ d \in CallType /\ d.pc = "scan" /\ d.owed = members /\ d.page = {} /\ d.todo = {}
      /\ d.done = {} /\ d.processed = {} /\ d.evict = {} /\ d.chunks = 0 /\ ~d.failed /\ ~d.last
      /\ d.calls = call[i].calls + 1
  BY <1>1, <1>2 DEF NoCall, CallType
<1>4. IsFiniteSet({}) /\ Cardinality({}) = 0
  BY FS_EmptySet, Zenon
<1>5. Cardinality(d.todo) + Cardinality(d.done) <= Batch
  BY <1>3, <1>4, SizeAssumption
<1>6. Shape(d)
  BY <1>3, <1>4, <1>5, Zenon DEF Shape
<1> QED BY <1>1, <1>3, <1>6, Zenon DEF Begin

LEMMA ReturnFields ==
    ASSUME TypeInv, NEW i \in Callers, Return(i)
    PROVE  \E d : /\ d \in CallType /\ Shape(d) /\ call' = [call EXCEPT ![i] = d]
                  /\ d.pc = "idle" /\ d.done = {} /\ d.processed = {} /\ d.calls = call[i].calls
<1>1. PICK d : d = [NoCall EXCEPT !.calls = call[i].calls]
  BY Zenon
<1>2. call[i].calls \in Nat
  BY DEF TypeInv, CallType
<1>3. /\ d \in CallType /\ d.pc = "idle" /\ d.owed = {} /\ d.page = {} /\ d.todo = {}
      /\ d.done = {} /\ d.processed = {} /\ ~d.failed /\ ~d.last /\ d.calls = call[i].calls
  BY <1>1, <1>2 DEF NoCall, CallType
<1>4. IsFiniteSet({}) /\ Cardinality({}) = 0
  BY FS_EmptySet, Zenon
<1>5. Cardinality(d.todo) + Cardinality(d.done) <= Batch
  BY <1>3, <1>4, SizeAssumption
<1>6. Shape(d)
  BY <1>3, <1>4, <1>5, Zenon DEF Shape
<1> QED BY <1>1, <1>3, <1>6, Zenon DEF Return

\* The eviction of one key and the broadcast of one chunk.
LEMMA EvictL1Fields ==
    ASSUME TypeInv, NEW i \in Callers, NEW k \in Keys, EvictL1(i, k)
    PROVE  \E d : /\ d \in CallType /\ Shape(d) /\ call' = [call EXCEPT ![i] = d]
                  /\ call[i].pc = "evict" /\ d.pc = "evict" /\ d.evict = call[i].evict \ {k}
                  /\ d.owed = call[i].owed /\ d.page = call[i].page /\ d.todo = call[i].todo
                  /\ d.failed = call[i].failed /\ d.done = call[i].done
                  /\ d.processed = call[i].processed
                  /\ d.calls = call[i].calls /\ d.chunks = call[i].chunks
<1>0. call[i] \in CallType /\ Shape(call[i]) /\ call[i].pc = "evict"
  BY Zenon DEF TypeInv, EvictL1
<1>1. PICK d : d = [call[i] EXCEPT !.evict = call[i].evict \ {k}]
  BY Zenon
<1>2. call' = [call EXCEPT ![i] = d]
  BY <1>1, Zenon DEF EvictL1, TypeInv
<1>3. /\ d \in CallType /\ d.pc = call[i].pc /\ d.last = call[i].last
      /\ d.page = call[i].page /\ d.owed = call[i].owed /\ d.todo = call[i].todo
      /\ d.done = call[i].done /\ d.failed = call[i].failed
      /\ d.evict = call[i].evict \ {k} /\ d.processed = call[i].processed
      /\ d.calls = call[i].calls /\ d.chunks = call[i].chunks
  BY <1>0, <1>1, Zenon DEF CallType
<1>4. Shape(d)
  BY <1>0, <1>3, Zenon DEF Shape
<1> QED BY <1>0, <1>2, <1>3, <1>4, Zenon

LEMMA PublishFields ==
    ASSUME TypeInv, NEW i \in Callers, Publish(i)
    PROVE  \E d, ks :
             /\ d \in CallType /\ Shape(d) /\ call' = [call EXCEPT ![i] = d]
             /\ call[i].pc = "evict" /\ d.pc = "evict" /\ call[i].evict = {} /\ d.evict = {}
             /\ d.owed = call[i].owed /\ d.page = call[i].page /\ d.todo = call[i].todo
             /\ d.failed = call[i].failed /\ d.done = call[i].done
             /\ d.processed = call[i].processed \ ks
             /\ d.calls = call[i].calls /\ d.chunks = call[i].chunks + 1
             /\ ks \subseteq call[i].processed /\ ks # {} /\ Cardinality(ks) <= Chunk
             /\ Send(i, [id |-> <<i, call[i].calls, call[i].chunks>>, keys |-> ks])
<1>0. /\ call[i] \in CallType /\ Shape(call[i]) /\ call[i].pc = "evict" /\ call[i].evict = {}
      /\ IsFiniteSet(call[i].processed) /\ call[i].chunks \in Nat
  BY Zenon DEF TypeInv, Publish, Shape, CallType
<1>1. PICK ks \in SUBSET call[i].processed :
         /\ ks # {} /\ Cardinality(ks) <= Chunk
         /\ Send(i, [id |-> <<i, call[i].calls, call[i].chunks>>, keys |-> ks])
         /\ call' = [call EXCEPT ![i].processed = @ \ ks, ![i].chunks = @ + 1]
  BY Zenon DEF Publish
<1>2. PICK d : d = [call[i] EXCEPT !.processed = call[i].processed \ ks, !.chunks = call[i].chunks + 1]
  BY Zenon
<1>3. call' = [call EXCEPT ![i] = d]
  BY <1>0, <1>1, <1>2, Zenon DEF TypeInv, CallType
<1>4. call[i].chunks + 1 \in Nat
  BY <1>0
<1>5. /\ d \in CallType /\ d.pc = call[i].pc /\ d.last = call[i].last
      /\ d.page = call[i].page /\ d.owed = call[i].owed /\ d.todo = call[i].todo
      /\ d.done = call[i].done /\ d.failed = call[i].failed
      /\ d.evict = call[i].evict /\ d.processed = call[i].processed \ ks
      /\ d.calls = call[i].calls /\ d.chunks = call[i].chunks + 1
  BY <1>0, <1>2, <1>4, Zenon DEF CallType
<1>6. IsFiniteSet(d.processed)
  BY <1>0, <1>5, FS_Subset, Zenon
<1>7. Shape(d)
  BY <1>0, <1>5, <1>6, Zenon DEF Shape
<1> QED BY <1>0, <1>1, <1>3, <1>5, <1>7, Zenon

-----------------------------------------------------------------------------
(* Types *)

\* A tombstone and an eviction.
LEMMA KillTypes ==
    ASSUME TypeInv, NEW k \in Keys, NEW told \in BOOLEAN, Kill(k, told)
    PROVE  /\ hash' \in [Keys -> {"gone"} \cup Writers] /\ tagged' \subseteq Keys
           /\ l1' \in [Instances -> [Keys -> {"none"} \cup CopyState]]
           /\ hand' \in [Instances -> SUBSET (Keys \X CopyState)]
           /\ due' \in [Callers -> SUBSET Keys]
<1>1. hash' \in [Keys -> {"gone"} \cup Writers] /\ tagged' \subseteq Keys
      /\ due' \in [Callers -> SUBSET Keys]
  BY DEF TypeInv, Kill, Forget
<1>2. l1' \in [Instances -> [Keys -> {"none"} \cup CopyState]]
  BY DEF TypeInv, Kill, CopyState
<1>3. hand' \in [Instances -> SUBSET (Keys \X CopyState)]
  <2>1. ASSUME NEW j \in Instances, NEW y \in hand[j]
        PROVE  <<y[1], IF told /\ y[1] = k THEN "dead" ELSE y[2]>> \in Keys \X CopyState
    BY DEF TypeInv, CopyState
  <2>2. ASSUME NEW j \in Instances
        PROVE  {<<y[1], IF told /\ y[1] = k THEN "dead" ELSE y[2]>> : y \in hand[j]}
                 \in SUBSET (Keys \X CopyState)
    BY <2>1, Zenon
  <2> QED BY <2>2, Zenon DEF Kill
<1> QED BY <1>1, <1>2, <1>3, Zenon

LEMMA EvictTypes ==
    ASSUME TypeInv, NEW i, NEW ks, Evict(i, ks)
    PROVE  /\ l1' \in [Instances -> [Keys -> {"none"} \cup CopyState]]
           /\ hand' \in [Instances -> SUBSET (Keys \X CopyState)]
<1>1. l1' \in [Instances -> [Keys -> {"none"} \cup CopyState]]
  BY DEF TypeInv, Evict, CopyState
<1>2. hand' \in [Instances -> SUBSET (Keys \X CopyState)]
  <2>1. ASSUME NEW j \in Instances, NEW y \in hand[j]
        PROVE  <<y[1], IF j = i /\ y[1] \in ks THEN "held" ELSE y[2]>> \in Keys \X CopyState
    BY DEF TypeInv, CopyState
  <2>2. ASSUME NEW j \in Instances
        PROVE  {<<y[1], IF j = i /\ y[1] \in ks THEN "held" ELSE y[2]>> : y \in hand[j]}
                 \in SUBSET (Keys \X CopyState)
    BY <2>1, Zenon
  <2> QED BY <2>2, Zenon DEF Evict
<1> QED BY <1>1, <1>2, Zenon

\* The steps of writers and readers, and events.
LEMMA OthersTypeStep ==
    ASSUME TypeInv,
           \/ \E w \in Writers : addTags(w) \/ \E k \in Keys : SetCAS(w, k)
           \/ \E k \in Keys : \/ CompareAndDelete(k)
                              \/ \E i \in Instances : Load(i, k) \/ installL1(i, k)
           \/ \E i \in Instances : \E ev \in bus[i] : onEvent(i, ev)
    PROVE  TypeInv'
<1>0. IsFiniteSet({}) /\ Cardinality({}) = 0
  BY FS_EmptySet, Zenon
<1>1. ASSUME NEW w \in Writers, addTags(w) PROVE TypeInv'
  <2>1. PICK k \in adding[w] :
           /\ adding' = [adding EXCEPT ![w] = {}]
           /\ \/ /\ members' = members \cup {k}
                 /\ tagged' = IF hash[k] = w THEN tagged \cup {k} ELSE tagged
              \/ members' \in {members, members \cup {k}} /\ UNCHANGED tagged
    BY <1>1, Zenon DEF addTags
  <2>2. k \in Keys
    BY <2>1, Zenon DEF TypeInv
  <2>3. IsFiniteSet(members \cup {k})
    BY FS_AddElement, Zenon DEF TypeInv
  <2>4. members' \subseteq Keys /\ IsFiniteSet(members') /\ tagged' \subseteq Keys
    BY <2>1, <2>2, <2>3 DEF TypeInv
  <2>5. /\ adding' \in [Writers -> SUBSET Keys]
        /\ \A v \in Writers : IsFiniteSet(adding'[v]) /\ Cardinality(adding'[v]) <= 1
    BY <1>0, <2>1 DEF TypeInv
  <2> QED BY <1>1, <2>4, <2>5, Zenon DEF TypeInv, addTags, copies
<1>2. ASSUME NEW w \in Writers, NEW k \in Keys, SetCAS(w, k) PROVE TypeInv'
  <2>1. IsFiniteSet({k}) /\ Cardinality({k}) = 1
    BY FS_Singleton, Zenon
  <2>2. /\ hash' \in [Keys -> {"gone"} \cup Writers] /\ tagged' \subseteq Keys
        /\ due' \in [Callers -> SUBSET Keys]
    BY <1>2 DEF TypeInv, SetCAS, Forget
  <2>3. /\ adding' \in [Writers -> SUBSET Keys]
        /\ \A v \in Writers : IsFiniteSet(adding'[v]) /\ Cardinality(adding'[v]) <= 1
    BY <1>2, <2>1 DEF TypeInv, SetCAS
  <2> QED BY <1>2, <2>2, <2>3, Zenon DEF TypeInv, SetCAS, copies
<1>3. ASSUME NEW k \in Keys, CompareAndDelete(k) PROVE TypeInv'
  <2>1. /\ hash' \in [Keys -> {"gone"} \cup Writers] /\ tagged' \subseteq Keys
        /\ due' \in [Callers -> SUBSET Keys]
    BY <1>3 DEF TypeInv, CompareAndDelete, Forget
  <2> QED BY <1>3, <2>1, Zenon DEF TypeInv, CompareAndDelete, copies
<1>4. ASSUME NEW k \in Keys, NEW i \in Instances, Load(i, k) PROVE TypeInv'
  <2>1. hand' \in [Instances -> SUBSET (Keys \X CopyState)]
    BY <1>4 DEF TypeInv, Load, CopyState
  <2> QED BY <1>4, <2>1, Zenon DEF TypeInv, Load, store
<1>5. ASSUME NEW k \in Keys, NEW i \in Instances, installL1(i, k) PROVE TypeInv'
  <2>1. PICK x \in CopyState : /\ hand' = [hand EXCEPT ![i] = @ \ {<<k, x>>}]
                               /\ l1' = [l1 EXCEPT ![i][k] = x] \/ l1' = l1
    BY <1>5, Zenon DEF installL1
  <2>2. hand' \in [Instances -> SUBSET (Keys \X CopyState)]
    BY <2>1 DEF TypeInv
  <2>3. l1' \in [Instances -> [Keys -> {"none"} \cup CopyState]]
    BY <2>1 DEF TypeInv
  <2> QED BY <1>5, <2>2, <2>3, Zenon DEF TypeInv, installL1, store
<1>6. ASSUME NEW i \in Instances, NEW ev \in bus[i], onEvent(i, ev) PROVE TypeInv'
  <2>1. /\ bus' \in [Instances -> SUBSET [id : IDType, keys : SUBSET Keys]]
        /\ \A j \in Instances : bus'[j] \subseteq bus[j]
    BY <1>6 DEF TypeInv, onEvent
  <2>2. \A j \in Instances : \A f \in bus'[j] : f.keys # {} /\ Cardinality(f.keys) <= Chunk
    BY <2>1, Zenon DEF TypeInv
  <2>3. ev.id \in IDType
    BY DEF TypeInv
  <2>4. seen' \in [Instances -> SUBSET IDType]
    BY <1>6, <2>3 DEF TypeInv, onEvent
  <2>5. Evict(i, ev.keys) \/ UNCHANGED <<l1, hand>>
    BY <1>6, Zenon DEF onEvent
  <2>6. /\ l1' \in [Instances -> [Keys -> {"none"} \cup CopyState]]
        /\ hand' \in [Instances -> SUBSET (Keys \X CopyState)]
    BY <2>5, EvictTypes, Zenon DEF TypeInv
  <2> QED BY <1>6, <2>1, <2>2, <2>4, <2>6, Zenon DEF TypeInv, onEvent, store
<1> QED BY <1>1, <1>2, <1>3, <1>4, <1>5, <1>6, Zenon

\* The steps of a call of InvalidateTag.
LEMMA CallTypeStep ==
    ASSUME TypeInv, NEW i \in Callers, InvalidateTag(i)
    PROVE  TypeInv'
<1>1. ASSUME Begin(i) PROVE TypeInv'
  <2>1. call' \in [Callers -> CallType] /\ \A j \in Callers : Shape(call'[j])
    BY <1>1, BeginFields, CallStep, Zenon
  <2>2. due' \in [Callers -> SUBSET Keys]
    BY <1>1 DEF TypeInv, Begin
  <2> QED BY <1>1, <2>1, <2>2, Zenon DEF TypeInv, Begin, copies
<1>2. ASSUME Sscan(i) PROVE TypeInv'
  <2>1. \E d : d \in CallType /\ Shape(d) /\ call' = [call EXCEPT ![i] = d]
    BY <1>2, SscanFields, Zenon DEF Sound
  <2>2. call' \in [Callers -> CallType] /\ \A j \in Callers : Shape(call'[j])
    BY <2>1, CallStep, Zenon
  <2> QED BY <1>2, <2>2, Zenon DEF TypeInv, Sscan, store, copies
<1>3. ASSUME Srem(i) PROVE TypeInv'
  <2>1. PICK d, ks : d \in CallType /\ Shape(d) /\ Leave(ks, i, d)
    BY <1>3, SremFields, Zenon DEF Sound
  <2>2. call' \in [Callers -> CallType] /\ \A j \in Callers : Shape(call'[j])
    BY <2>1, LeaveStep, Zenon
  <2>3. members' \subseteq members
    BY <2>1, Zenon DEF Leave
  <2>4. members' \subseteq Keys /\ IsFiniteSet(members')
    BY <2>3, FS_Subset, Zenon DEF TypeInv
  <2> QED BY <1>3, <2>2, <2>4, Zenon DEF TypeInv, Srem, copies
<1>4. ASSUME NEW k \in Keys, Tombstone(i, k) PROVE TypeInv'
  <2>1. /\ \E d : d \in CallType /\ Shape(d) /\ call' = [call EXCEPT ![i] = d]
        /\ Kill(k, TRUE) \/ Kill(k, FALSE) \/ UNCHANGED <<hash, l1, hand, tagged, due>>
    BY <1>4, TombstoneFields, Zenon
  <2>2. call' \in [Callers -> CallType] /\ \A j \in Callers : Shape(call'[j])
    BY <2>1, CallStep, Zenon
  <2>4. /\ hash' \in [Keys -> {"gone"} \cup Writers] /\ tagged' \subseteq Keys
        /\ l1' \in [Instances -> [Keys -> {"none"} \cup CopyState]]
        /\ hand' \in [Instances -> SUBSET (Keys \X CopyState)]
        /\ due' \in [Callers -> SUBSET Keys]
    BY <2>1, KillTypes, Zenon DEF TypeInv
  <2> QED BY <1>4, <2>2, <2>4, Zenon DEF TypeInv, Tombstone
<1>5. ASSUME NEW k \in Keys, EvictL1(i, k) PROVE TypeInv'
  <2>1. call' \in [Callers -> CallType] /\ \A j \in Callers : Shape(call'[j])
    BY <1>5, EvictL1Fields, CallStep, Zenon
  <2>2. /\ l1' \in [Instances -> [Keys -> {"none"} \cup CopyState]]
        /\ hand' \in [Instances -> SUBSET (Keys \X CopyState)]
    BY <1>5, EvictTypes, Zenon DEF EvictL1
  <2> QED BY <1>5, <2>1, <2>2, Zenon DEF TypeInv, EvictL1, store
<1>6. ASSUME Publish(i) PROVE TypeInv'
  <2>1. PICK d, ks : /\ d \in CallType /\ Shape(d) /\ call' = [call EXCEPT ![i] = d]
                     /\ ks \subseteq call[i].processed /\ ks # {} /\ Cardinality(ks) <= Chunk
                     /\ Send(i, [id |-> <<i, call[i].calls, call[i].chunks>>, keys |-> ks])
    BY <1>6, PublishFields, Zenon
  <2>2. call' \in [Callers -> CallType] /\ \A j \in Callers : Shape(call'[j])
    BY <2>1, CallStep, Zenon
  <2>3. PICK ev : ev = [id |-> <<i, call[i].calls, call[i].chunks>>, keys |-> ks]
    BY Zenon
  <2>4. ev \in [id : IDType, keys : SUBSET Keys] /\ ev.keys = ks
    BY <2>1, <2>3 DEF TypeInv, CallType, IDType
  <2>5. bus' = [j \in Instances |-> IF j = Home[i] THEN bus[j] ELSE bus[j] \cup {ev}]
    BY <2>1, <2>3, Zenon DEF Send
  <2>6. bus' \in [Instances -> SUBSET [id : IDType, keys : SUBSET Keys]]
    BY <2>4, <2>5 DEF TypeInv
  <2>7. \A j \in Instances : \A f \in bus'[j] : f.keys # {} /\ Cardinality(f.keys) <= Chunk
    BY <2>1, <2>4, <2>5, Zenon DEF TypeInv
  <2> QED BY <1>6, <2>2, <2>6, <2>7, Zenon DEF TypeInv, Publish, store
<1>7. ASSUME Return(i) PROVE TypeInv'
  <2>1. call' \in [Callers -> CallType] /\ \A j \in Callers : Shape(call'[j])
    BY <1>7, ReturnFields, CallStep, Zenon
  <2>2. due' \in [Callers -> SUBSET Keys]
    BY <1>7 DEF TypeInv, Return
  <2> QED BY <1>7, <2>1, <2>2, Zenon DEF TypeInv, Return, copies
<1> QED BY <1>1, <1>2, <1>3, <1>4, <1>5, <1>6, <1>7, Zenon DEF InvalidateTag

LEMMA InitTypes == Init => TypeInv /\ IDInv /\ SweepInv /\ DeadInv
<1> SUFFICES ASSUME Init PROVE TypeInv /\ IDInv /\ SweepInv /\ DeadInv
  OBVIOUS
<1>0. IsFiniteSet({}) /\ Cardinality({}) = 0
  BY FS_EmptySet, Zenon
<1>1. /\ NoCall \in CallType /\ NoCall.pc = "idle" /\ NoCall.owed = {} /\ NoCall.page = {}
      /\ NoCall.todo = {} /\ NoCall.done = {} /\ NoCall.processed = {} /\ ~NoCall.failed /\ ~NoCall.last
  BY DEF NoCall, CallType
<1>2. Cardinality(NoCall.todo) + Cardinality(NoCall.done) <= Batch
  BY <1>0, <1>1, SizeAssumption
<1>3. Shape(NoCall)
  BY <1>0, <1>1, <1>2, Zenon DEF Shape
<1>4. call \in [Callers -> CallType] /\ \A i \in Callers : Shape(call[i]) /\ call[i].done = {}
  BY <1>1, <1>3, Zenon DEF Init
<1>5. TypeInv
  <2>1. /\ hash \in [Keys -> {"gone"} \cup Writers]
        /\ l1 \in [Instances -> [Keys -> {"none"} \cup CopyState]]
        /\ hand \in [Instances -> SUBSET (Keys \X CopyState)]
        /\ due \in [Callers -> SUBSET Keys] /\ members \subseteq Keys /\ tagged \subseteq Keys
    BY DEF Init
  <2>2. /\ adding \in [Writers -> SUBSET Keys]
        /\ \A w \in Writers : IsFiniteSet(adding[w]) /\ Cardinality(adding[w]) <= 1
    BY <1>0 DEF Init
  <2>3. /\ bus \in [Instances -> SUBSET [id : IDType, keys : SUBSET Keys]]
        /\ \A i \in Instances : bus[i] = {}
        /\ seen \in [Instances -> SUBSET IDType]
    BY DEF Init
  <2> QED BY <1>0, <1>4, <2>1, <2>2, <2>3, Zenon DEF TypeInv, Init
<1>6. IDInv
  BY Zenon DEF Init, IDInv
<1>7. SweepInv
  BY Zenon DEF Init, SweepInv
<1>8. DeadInv
  BY DEF Init, DeadInv, Dead
<1> QED BY <1>5, <1>6, <1>7, <1>8, Zenon

LEMMA TypeStep ==
    ASSUME TypeInv, [Next]_vars
    PROVE  TypeInv'
<1>1. CASE UNCHANGED vars
  BY <1>1, Zenon DEF vars, TypeInv
<1>2. CASE Next
  BY <1>2, OthersTypeStep, CallTypeStep, Zenon DEF Next
<1> QED BY <1>1, <1>2, Zenon

-----------------------------------------------------------------------------
(* Event IDs *)

\* What the counters of a call do in a step.
Onward(j) ==
    \/ call'[j].calls > call[j].calls
    \/ /\ call'[j].calls = call[j].calls
       /\ call'[j].pc = "idle" \/ (call[j].pc # "idle" /\ call'[j].chunks >= call[j].chunks)

\* An ID that was used stays so.
LEMMA UsedStays ==
    ASSUME TypeInv, TypeInv', NEW id \in IDType, Used(id),
           \A j \in Callers : Onward(j) \/ call'[j] = call[j]
    PROVE  Used(id)'
<1>1. PICK j \in Callers, m \in Nat, n \in Nat : id = <<j, m, n>>
  BY DEF IDType
<1>2. id[1] = j /\ id[2] = m /\ id[3] = n
  BY <1>1
<1>3. call[j].calls \in Nat /\ call'[j].calls \in Nat /\ call[j].chunks \in Nat /\ call'[j].chunks \in Nat
  BY Zenon DEF TypeInv, CallType
<1>4. m < call[j].calls \/ (m = call[j].calls /\ (call[j].pc = "idle" \/ n < call[j].chunks))
  BY <1>2, Zenon DEF Used
<1>5. m < call'[j].calls \/ (m = call'[j].calls /\ (call'[j].pc = "idle" \/ n < call'[j].chunks))
  <2>1. CASE call'[j] = call[j]
    BY <1>4, <2>1, Zenon
  <2>2. CASE Onward(j)
    BY <1>3, <1>4, <2>2 DEF Onward
  <2> QED BY <2>1, <2>2, Zenon
<1> QED BY <1>2, <1>5, Zenon DEF Used

\* The counters of the calls only go up.
LEMMA CountersStep ==
    ASSUME TypeInv, NEW i \in Callers, InvalidateTag(i)
    PROVE  \A j \in Callers : Onward(j) \/ call'[j] = call[j]
<1>0. call[i].calls \in Nat /\ call[i].chunks \in Nat /\ call[i].calls + 1 > call[i].calls
      /\ call[i].chunks + 1 >= call[i].chunks /\ call[i].chunks >= call[i].chunks
  BY DEF TypeInv, CallType
<1>1. ASSUME NEW d \in CallType, Shape(d), call' = [call EXCEPT ![i] = d],
             \/ d.calls = call[i].calls + 1
             \/ /\ d.calls = call[i].calls
                /\ d.pc = "idle" \/ (call[i].pc # "idle" /\ d.chunks \in {call[i].chunks, call[i].chunks + 1})
      PROVE  \A j \in Callers : Onward(j) \/ call'[j] = call[j]
  <2>1. call'[i] = d /\ \A j \in Callers \ {i} : call'[j] = call[j]
    BY <1>1, CallStep, Zenon
  <2>2. Onward(i)
    BY <1>0, <1>1, <2>1, Zenon DEF Onward
  <2> QED BY <2>1, <2>2, Zenon
<1>2. CASE Begin(i)
  BY <1>1, <1>2, BeginFields, Zenon
<1>3. CASE Sscan(i)
  <2>1. PICK c, d : /\ Sound(c, d) /\ call' = [call EXCEPT ![i] = d]
                    /\ c.calls = call[i].calls /\ c.chunks = call[i].chunks
    BY <1>3, SscanFields, Zenon
  <2>2. d \in CallType /\ Shape(d) /\ d.calls = call[i].calls /\ d.chunks = call[i].chunks
    BY <2>1, Zenon DEF Sound
  <2>3. call[i].pc # "idle"
    BY <1>3 DEF Sscan
  <2> QED BY <1>1, <2>1, <2>2, <2>3, Zenon
<1>4. CASE Srem(i)
  <2>1. PICK c, d, ks : /\ Sound(c, d) /\ Leave(ks, i, d)
                        /\ c.calls = call[i].calls /\ c.chunks = call[i].chunks
    BY <1>4, SremFields, Zenon
  <2>2. d \in CallType /\ Shape(d) /\ d.calls = call[i].calls /\ d.chunks = call[i].chunks
    BY <2>1, Zenon DEF Sound
  <2>3. call[i].pc # "idle" /\ call[i] \in CallType
    <3>1. call[i] \in CallType
      BY Zenon DEF TypeInv
    <3> QED BY <1>4, <3>1 DEF Srem, CallType
  <2>4. /\ call'[i] = d
        /\ \A j \in Callers \ {i} : /\ call'[j].pc = call[j].pc /\ call'[j].calls = call[j].calls
                                    /\ call'[j].chunks = call[j].chunks
    BY <2>1, LeaveFields
  <2>5. Onward(i)
    BY <1>0, <2>2, <2>3, <2>4, Zenon DEF Onward
  <2>6. ASSUME NEW j \in Callers \ {i} PROVE Onward(j)
    <3>1. call[j].chunks >= call[j].chunks
      BY DEF TypeInv, CallType
    <3> QED BY <2>4, <3>1 DEF Onward
  <2> QED BY <2>5, <2>6, Zenon
<1>5. ASSUME NEW k \in Keys, Tombstone(i, k)
      PROVE  \A j \in Callers : Onward(j) \/ call'[j] = call[j]
  <2>1. call[i].pc # "idle"
    BY <1>5 DEF Tombstone
  <2> QED BY <1>1, <1>5, <2>1, TombstoneFields, Zenon
<1>6. ASSUME NEW k \in Keys, EvictL1(i, k)
      PROVE  \A j \in Callers : Onward(j) \/ call'[j] = call[j]
  <2>1. call[i].pc # "idle"
    BY <1>6 DEF EvictL1
  <2> QED BY <1>1, <1>6, <2>1, EvictL1Fields, Zenon
<1>7. CASE Publish(i)
  <2>1. call[i].pc # "idle"
    BY <1>7 DEF Publish
  <2> QED BY <1>1, <1>7, <2>1, PublishFields, Zenon
<1>8. CASE Return(i)
  BY <1>1, <1>8, ReturnFields, Zenon
<1> QED BY <1>2, <1>3, <1>4, <1>5, <1>6, <1>7, <1>8, Zenon DEF InvalidateTag

\* IDs stay unique.
LEMMA IDStep ==
    ASSUME TypeInv, TypeInv', IDInv, [Next]_vars
    PROVE  IDInv'
<1>1. ASSUME \A j \in Callers : Onward(j) \/ call'[j] = call[j], NEW id \in IDType, Used(id)
      PROVE  Used(id)'
  BY <1>1, UsedStays, Zenon
<1>2. \A j \in Instances : seen[j] \subseteq IDType /\ \A ev \in bus[j] : ev.id \in IDType
  BY DEF TypeInv
<1>3. ASSUME UNCHANGED <<bus, seen>>, \A j \in Callers : Onward(j) \/ call'[j] = call[j]
      PROVE  IDInv'
  <2>1. ASSUME NEW j \in Instances
        PROVE  /\ \A id \in seen'[j] : Used(id)'
               /\ \A ev \in bus'[j] : Used(ev.id)' /\ ev.id \notin seen'[j]
               /\ \A e, f \in bus'[j] : e.id = f.id => e = f
    <3>1. \A id \in seen[j] : Used(id)'
      BY <1>1, <1>2, <1>3, Zenon DEF IDInv
    <3>2. ASSUME NEW ev \in bus[j] PROVE Used(ev.id)'
      BY <1>1, <1>2, <1>3, Zenon DEF IDInv
    <3> QED BY <1>3, <3>1, <3>2, Zenon DEF IDInv
  <2> QED BY <2>1, Zenon DEF IDInv
<1>4. ASSUME UNCHANGED <<bus, seen, call>> PROVE IDInv'
  BY <1>3, <1>4, Zenon
<1>5. ASSUME NEW i \in Callers, Publish(i) PROVE IDInv'
  <2>0. \A j \in Callers : Onward(j) \/ call'[j] = call[j]
    BY <1>5, CountersStep, Zenon DEF InvalidateTag
  <2>1. PICK d, ks : /\ d \in CallType /\ Shape(d) /\ call' = [call EXCEPT ![i] = d]
                     /\ call[i].pc = "evict" /\ d.calls = call[i].calls /\ d.chunks = call[i].chunks + 1
                     /\ Send(i, [id |-> <<i, call[i].calls, call[i].chunks>>, keys |-> ks])
    BY <1>5, PublishFields, Zenon
  <2>2. call'[i] = d
    BY <2>1, CallStep, Zenon
  <2>3. PICK new, nev : new = <<i, call[i].calls, call[i].chunks>> /\ nev = [id |-> new, keys |-> ks]
    BY Zenon
  <2>4. new[1] = i /\ new[2] = call[i].calls /\ new[3] = call[i].chunks /\ nev.id = new
    BY <2>3
  <2>5. call[i].calls \in Nat /\ call[i].chunks \in Nat
    BY Zenon DEF TypeInv, CallType
  <2>6. ~Used(new)
    BY <2>1, <2>4, <2>5 DEF Used
  <2>7. Used(new)'
    BY <2>1, <2>2, <2>4, <2>5 DEF Used
  <2>8. bus' = [j \in Instances |-> IF j = Home[i] THEN bus[j] ELSE bus[j] \cup {nev}] /\ seen' = seen
    BY <1>5, <2>1, <2>3, Zenon DEF Send, Publish
  <2>9. ASSUME NEW j \in Instances
        PROVE  /\ \A id \in seen'[j] : Used(id)'
               /\ \A ev \in bus'[j] : Used(ev.id)' /\ ev.id \notin seen'[j]
               /\ \A e, f \in bus'[j] : e.id = f.id => e = f
    <3>1. \A id \in seen[j] : Used(id)' /\ id # new
      BY <1>1, <1>2, <2>0, <2>6, Zenon DEF IDInv
    <3>2. ASSUME NEW ev \in bus[j] PROVE Used(ev.id)' /\ ev.id \notin seen[j] /\ ev.id # new
      BY <1>1, <1>2, <2>0, <2>6, Zenon DEF IDInv
    <3>3. \A e, f \in bus[j] : e.id = f.id => e = f
      BY Zenon DEF IDInv
    <3>4. \A ev \in bus'[j] : ev \in bus[j] \/ ev = nev
      BY <2>8, Zenon
    <3>5. \A ev \in bus'[j] : Used(ev.id)' /\ ev.id \notin seen'[j]
      BY <2>4, <2>7, <2>8, <3>1, <3>2, <3>4, Zenon
    <3>6. \A e, f \in bus'[j] : e.id = f.id => e = f
      BY <2>4, <3>2, <3>3, <3>4, Zenon
    <3> QED BY <2>8, <3>1, <3>5, <3>6, Zenon
  <2> QED BY <2>9, Zenon DEF IDInv
<1>6. ASSUME NEW i \in Instances, NEW nev \in bus[i], onEvent(i, nev) PROVE IDInv'
  <2>1. /\ bus' = [bus EXCEPT ![i] = @ \ {nev}] /\ seen' = [seen EXCEPT ![i] = @ \cup {nev.id}]
        /\ call' = call
    BY <1>6, Zenon DEF onEvent, IDInv
  <2>2. ASSUME NEW j \in Instances
        PROVE  /\ \A id \in seen'[j] : Used(id)'
               /\ \A ev \in bus'[j] : Used(ev.id)' /\ ev.id \notin seen'[j]
               /\ \A e, f \in bus'[j] : e.id = f.id => e = f
    <3>1. /\ \A id \in seen[j] : Used(id)
          /\ \A ev \in bus[j] : Used(ev.id) /\ ev.id \notin seen[j]
          /\ \A e, f \in bus[j] : e.id = f.id => e = f
      BY Zenon DEF IDInv
    <3>2. /\ bus'[j] = IF j = i THEN bus[j] \ {nev} ELSE bus[j]
          /\ seen'[j] = IF j = i THEN seen[j] \cup {nev.id} ELSE seen[j]
      BY <2>1 DEF TypeInv
    <3>3. \A id \in seen'[j] : Used(id)
      BY <3>1, <3>2
    <3>4. \A ev \in bus'[j] : Used(ev.id) /\ ev.id \notin seen'[j]
      BY <3>1, <3>2
    <3>5. \A id : Used(id) => Used(id)'
      BY <2>1 DEF Used
    <3>6. \A e, f \in bus'[j] : e.id = f.id => e = f
      BY <3>1, <3>2
    <3> QED BY <3>3, <3>4, <3>5, <3>6, Zenon
  <2> QED BY <2>2, Zenon DEF IDInv
<1>7. CASE UNCHANGED vars
  BY <1>4, <1>7, Zenon DEF vars
<1>8. ASSUME NEW w \in Writers, addTags(w) \/ \E k \in Keys : SetCAS(w, k) PROVE IDInv'
  BY <1>4, <1>8, Zenon DEF addTags, SetCAS, copies
<1>9. ASSUME NEW k \in Keys,
             CompareAndDelete(k) \/ \E i \in Instances : Load(i, k) \/ installL1(i, k)
      PROVE  IDInv'
  BY <1>4, <1>9, Zenon DEF CompareAndDelete, Load, installL1, copies
<1>10. ASSUME NEW i \in Callers, InvalidateTag(i), ~Publish(i) PROVE IDInv'
  <2>1. UNCHANGED <<bus, seen>>
    BY <1>10, Zenon DEF InvalidateTag, Begin, Sscan, Srem, Tombstone, EvictL1, Return, copies
  <2> QED BY <1>3, <1>10, <2>1, CountersStep, Zenon
<1> QED BY <1>5, <1>6, <1>7, <1>8, <1>9, <1>10, Zenon DEF Next

-----------------------------------------------------------------------------
(* The sweep *)

\* The call of i becomes d, and no more is due.
LEMMA SweepUpdate ==
    ASSUME TypeInv, SweepInv, NEW i \in Callers, NEW d \in CallType, Shape(d),
           call' = [call EXCEPT ![i] = d], members' = members,
           \A j \in Callers : due'[j] \subseteq due[j] /\ due'[j] \cap d.done = {},
           ~d.failed => due'[i] \subseteq Ahead(d)
    PROVE  SweepInv'
<1>1. call'[i] = d /\ \A j \in Callers \ {i} : call'[j] = call[j]
  BY CallStep, Zenon
<1>2. ASSUME NEW j \in Callers
      PROVE  /\ due'[j] \subseteq members'
             /\ \A m \in Callers : due'[j] \cap call'[m].done = {}
             /\ ~call'[j].failed => due'[j] \subseteq Ahead(call'[j])
  <2>1. /\ due[j] \subseteq members /\ \A m \in Callers : due[j] \cap call[m].done = {}
        /\ ~call[j].failed => due[j] \subseteq Ahead(call[j])
    BY Zenon DEF SweepInv
  <2>2. ASSUME NEW m \in Callers PROVE due'[j] \cap call'[m].done = {}
    <3>1. CASE m = i
      BY <1>1, <3>1, Zenon
    <3>2. CASE m # i
      <4>1. call'[m] = call[m] /\ due[j] \cap call[m].done = {} /\ due'[j] \subseteq due[j]
        BY <1>1, <2>1, <3>2, Zenon
      <4> QED BY <4>1, Zenon
    <3> QED BY <3>1, <3>2, Zenon
  <2>3. ~call'[j].failed => due'[j] \subseteq Ahead(call'[j])
    <3>1. CASE j = i
      BY <1>1, <3>1, Zenon
    <3>2. CASE j # i
      <4>1. call'[j] = call[j] /\ due'[j] \subseteq due[j]
        BY <1>1, <3>2, Zenon
      <4> QED BY <2>1, <4>1, Zenon
    <3> QED BY <3>1, <3>2, Zenon
  <2>4. due'[j] \subseteq members'
    BY <2>1, Zenon
  <2> QED BY <2>2, <2>3, <2>4, Zenon
<1> QED BY <1>2, Zenon DEF SweepInv, Ahead

\* The calls go on with what is due.
LEMMA CallSweepStep ==
    ASSUME TypeInv, SweepInv, NEW i \in Callers, InvalidateTag(i)
    PROVE  SweepInv'
<1>0. /\ due[i] \subseteq members /\ \A j \in Callers : due[j] \cap call[i].done = {}
      /\ ~call[i].failed => due[i] \subseteq Ahead(call[i])
  BY Zenon DEF SweepInv
<1>1. CASE Begin(i)
  <2>1. PICK d : /\ d \in CallType /\ Shape(d) /\ call' = [call EXCEPT ![i] = d]
                 /\ d.owed = members /\ d.done = {}
    BY <1>1, BeginFields, Zenon
  <2>2. call'[i] = d /\ \A j \in Callers \ {i} : call'[j] = call[j]
    BY <2>1, CallStep, Zenon
  <2>3. /\ due'[i] \subseteq members /\ \A j \in Callers : due'[i] \cap call[j].done = {}
        /\ \A j \in Callers \ {i} : due'[j] = due[j]
    BY <1>1 DEF Begin, TypeInv
  <2>4. members' = members
    BY <1>1, Zenon DEF Begin
  <2>5. ASSUME NEW j \in Callers
        PROVE  /\ due'[j] \subseteq members'
               /\ \A m \in Callers : due'[j] \cap call'[m].done = {}
               /\ ~call'[j].failed => due'[j] \subseteq Ahead(call'[j])
    <3>1. due'[j] \subseteq members /\ \A m \in Callers : due'[j] \cap call[m].done = {}
      BY <2>3, Zenon DEF SweepInv
    <3>2. ASSUME NEW m \in Callers PROVE due'[j] \cap call'[m].done = {}
      <4>1. call'[m].done = {} \/ call'[m] = call[m]
        BY <2>1, <2>2, Zenon
      <4> QED BY <3>1, <4>1, Zenon
    <3>3. ~call'[j].failed => due'[j] \subseteq Ahead(call'[j])
      <4>1. CASE j = i
        BY <2>1, <2>2, <3>1, <4>1, Zenon DEF Ahead
      <4>2. CASE j # i
        <5>1. call'[j] = call[j] /\ due'[j] = due[j]
          BY <2>2, <2>3, <4>2, Zenon
        <5> QED BY <5>1, Zenon DEF SweepInv
      <4> QED BY <4>1, <4>2, Zenon
    <3> QED BY <2>4, <3>1, <3>2, <3>3, Zenon
  <2> QED BY <2>5, Zenon DEF SweepInv, Ahead
<1>2. CASE Sscan(i)
  <2>1. PICK c, d : /\ Sound(c, d) /\ call' = [call EXCEPT ![i] = d] /\ c.failed = call[i].failed
                    /\ call[i].owed \subseteq c.owed \cup c.page
    BY <1>2, SscanFields, Zenon
  <2>2. /\ d \in CallType /\ Shape(d) /\ d.done = {}
        /\ ~d.failed => ~c.failed /\ c.owed \cup c.page \subseteq Ahead(d)
    BY <2>1, Zenon DEF Sound
  <2>3. UNCHANGED <<due, members>>
    BY <1>2, Zenon DEF Sscan, store
  <2>4. call[i].pc # "tombstone" /\ Shape(call[i])
    BY <1>2 DEF Sscan, TypeInv
  <2>5. Ahead(call[i]) = call[i].owed
    BY <2>4, Zenon DEF Shape, Ahead
  <2>6. ~d.failed => due'[i] \subseteq Ahead(d)
    BY <1>0, <2>1, <2>2, <2>3, <2>5, Zenon
  <2>7. \A j \in Callers : due'[j] \subseteq due[j] /\ due'[j] \cap d.done = {}
    BY <2>2, <2>3, Zenon
  <2> QED BY <2>1, <2>2, <2>3, <2>6, <2>7, SweepUpdate, Zenon
<1>3. CASE Srem(i)
  <2>1. PICK c, d, ks : /\ Sound(c, d) /\ Leave(ks, i, d) /\ ks \subseteq call[i].done
                        /\ c.failed = call[i].failed /\ Ahead(call[i]) = c.owed \cup c.page
    BY <1>3, SremFields, Zenon
  <2>2. d.done = {} /\ (~d.failed => ~c.failed /\ c.owed \cup c.page \subseteq Ahead(d))
    BY <2>1, Zenon DEF Sound
  <2>3. /\ call'[i] = d
        /\ \A j \in Callers \ {i} : /\ call'[j].owed = call[j].owed \ ks
                                    /\ call'[j].page = call[j].page /\ call'[j].todo = call[j].todo
                                    /\ call'[j].done = call[j].done /\ call'[j].failed = call[j].failed
    BY <2>1, LeaveFields
  <2>4. due' = due /\ members' = members \ ks
    BY <1>3, <2>1, Zenon DEF Srem, Leave
  <2>5. ASSUME NEW j \in Callers
        PROVE  /\ due'[j] \subseteq members'
               /\ \A m \in Callers : due'[j] \cap call'[m].done = {}
               /\ ~call'[j].failed => due'[j] \subseteq Ahead(call'[j])
    <3>1. /\ due[j] \subseteq members /\ \A m \in Callers : due[j] \cap call[m].done = {}
          /\ ~call[j].failed => due[j] \subseteq Ahead(call[j])
      BY Zenon DEF SweepInv
    <3>2. due[j] \cap ks = {}
      BY <2>1, <3>1, Zenon
    <3>3. due'[j] \subseteq members'
      BY <2>4, <3>1, <3>2, Zenon
    <3>4. ASSUME NEW m \in Callers PROVE due'[j] \cap call'[m].done = {}
      <4>1. call'[m].done = {} \/ call'[m].done = call[m].done
        BY <2>2, <2>3, Zenon
      <4> QED BY <2>4, <3>1, <4>1, Zenon
    <3>5. ~call'[j].failed => due'[j] \subseteq Ahead(call'[j])
      <4>1. CASE j = i
        BY <2>1, <2>2, <2>3, <2>4, <3>1, <4>1, Zenon
      <4>2. CASE j # i
        <5>1. Ahead(call[j]) \ ks \subseteq Ahead(call'[j]) /\ call'[j].failed = call[j].failed
          BY <2>3, <4>2, Zenon DEF Ahead
        <5> QED BY <2>4, <3>1, <3>2, <5>1, Zenon
      <4> QED BY <4>1, <4>2, Zenon
    <3> QED BY <3>3, <3>4, <3>5, Zenon
  <2> QED BY <2>5, Zenon DEF SweepInv, Ahead
<1>4. ASSUME NEW k \in Keys, Tombstone(i, k) PROVE SweepInv'
  <2>1. PICK d : /\ d \in CallType /\ Shape(d) /\ call' = [call EXCEPT ![i] = d]
                 /\ d.page = call[i].page /\ d.owed = call[i].owed /\ d.todo = call[i].todo \ {k}
                 /\ \/ Kill(k, TRUE) /\ d.done = call[i].done \cup {k} /\ d.failed = call[i].failed
                    \/ /\ \/ k \in members /\ Kill(k, TRUE)
                          \/ k \notin members /\ Kill(k, FALSE)
                          \/ UNCHANGED <<hash, l1, hand, tagged, due>>
                       /\ d.done = call[i].done /\ d.failed = TRUE
    BY <1>4, TombstoneFields, Zenon
  <2>2. members' = members
    BY <1>4, Zenon DEF Tombstone
  <2>3. Kill(k, TRUE) \/ Kill(k, FALSE) => \A j \in Callers : due'[j] = due[j] \ {k}
    BY Zenon DEF Kill, Forget
  <2>4. \A j \in Callers : due'[j] \subseteq due[j] /\ due'[j] \cap d.done = {}
    BY <1>0, <2>1, <2>3, Zenon
  <2>5. ~d.failed => due'[i] = due[i] \ {k} /\ ~call[i].failed
    BY <2>1, <2>3, Zenon
  <2>6. Ahead(call[i]) \ {k} \subseteq Ahead(d)
    BY <2>1, Zenon DEF Ahead
  <2>7. ~d.failed => due'[i] \subseteq Ahead(d)
    BY <1>0, <2>5, <2>6, Zenon
  <2> QED BY <2>1, <2>2, <2>4, <2>7, SweepUpdate, Zenon
<1>5. ASSUME NEW d \in CallType, Shape(d), call' = [call EXCEPT ![i] = d],
             d.owed = call[i].owed, d.page = call[i].page, d.todo = call[i].todo,
             d.failed = call[i].failed, d.done = call[i].done, UNCHANGED <<due, members>>
      PROVE  SweepInv'
  <2>1. Ahead(d) = Ahead(call[i])
    BY <1>5, Zenon DEF Ahead
  <2>2. ~d.failed => due'[i] \subseteq Ahead(d)
    BY <1>0, <1>5, <2>1, Zenon
  <2>3. \A j \in Callers : due'[j] \subseteq due[j] /\ due'[j] \cap d.done = {}
    BY <1>0, <1>5, Zenon
  <2> QED BY <1>5, <2>2, <2>3, SweepUpdate, Zenon
<1>6. ASSUME NEW k \in Keys, EvictL1(i, k) PROVE SweepInv'
  <2>1. UNCHANGED <<due, members>>
    BY <1>6, Zenon DEF EvictL1, store
  <2> QED BY <1>5, <1>6, <2>1, EvictL1Fields, Zenon
<1>7. CASE Publish(i)
  <2>1. UNCHANGED <<due, members>>
    BY <1>7, Zenon DEF Publish, store
  <2>2. PICK d : /\ d \in CallType /\ Shape(d) /\ call' = [call EXCEPT ![i] = d]
                 /\ d.owed = call[i].owed /\ d.page = call[i].page /\ d.todo = call[i].todo
                 /\ d.failed = call[i].failed /\ d.done = call[i].done
    BY <1>7, PublishFields, Zenon
  <2> QED BY <1>5, <2>1, <2>2, Zenon
<1>8. CASE Return(i)
  <2>1. PICK d : d \in CallType /\ Shape(d) /\ call' = [call EXCEPT ![i] = d] /\ d.done = {}
    BY <1>8, ReturnFields, Zenon
  <2>2. members' = members /\ due' = [due EXCEPT ![i] = {}]
    BY <1>8, Zenon DEF Return
  <2>3. due'[i] = {} /\ \A j \in Callers : due'[j] \subseteq due[j]
    BY <2>2 DEF TypeInv
  <2>4. ~d.failed => due'[i] \subseteq Ahead(d)
    BY <2>3, Zenon
  <2>5. \A j \in Callers : due'[j] \subseteq due[j] /\ due'[j] \cap d.done = {}
    BY <2>1, <2>3, Zenon
  <2> QED BY <2>1, <2>2, <2>4, <2>5, SweepUpdate, Zenon
<1> QED BY <1>1, <1>2, <1>3, <1>4, <1>6, <1>7, <1>8, Zenon DEF InvalidateTag

\* A value that goes is no longer due, and addTags only adds to the set.
LEMMA SweepStep ==
    ASSUME TypeInv, SweepInv, [Next]_vars
    PROVE  SweepInv'
<1>1. ASSUME call' = call, members \subseteq members', \A j \in Callers : due'[j] \subseteq due[j]
      PROVE  SweepInv'
  <2>1. ASSUME NEW j \in Callers
        PROVE  /\ due'[j] \subseteq members'
               /\ \A m \in Callers : due'[j] \cap call'[m].done = {}
               /\ ~call'[j].failed => due'[j] \subseteq Ahead(call'[j])
    <3>1. /\ due[j] \subseteq members /\ \A m \in Callers : due[j] \cap call[m].done = {}
          /\ ~call[j].failed => due[j] \subseteq Ahead(call[j])
      BY Zenon DEF SweepInv
    <3>2. due'[j] \subseteq due[j] /\ members \subseteq members' /\ call' = call
      BY <1>1, Zenon
    <3>3. due'[j] \subseteq members' /\ \A m \in Callers : due'[j] \cap call'[m].done = {}
      BY <3>1, <3>2, Zenon
    <3>4. ~call'[j].failed => due'[j] \subseteq Ahead(call'[j])
      BY <3>1, <3>2, Zenon
    <3> QED BY <3>3, <3>4, Zenon
  <2> QED BY <2>1, Zenon DEF SweepInv, Ahead
<1>2. CASE UNCHANGED vars
  BY <1>1, <1>2, Zenon DEF vars
<1>3. ASSUME NEW w \in Writers, addTags(w) PROVE SweepInv'
  <2>1. members \subseteq members' /\ due' = due /\ call' = call
    BY <1>3, Zenon DEF addTags
  <2> QED BY <1>1, <2>1, Zenon
<1>4. ASSUME NEW k \in Keys, Forget(k), UNCHANGED <<call, members>> PROVE SweepInv'
  <2>1. \A j \in Callers : due'[j] \subseteq due[j]
    BY <1>4, Zenon DEF Forget
  <2> QED BY <1>1, <1>4, <2>1, Zenon
<1>5. ASSUME NEW k \in Keys, CompareAndDelete(k) \/ \E w \in Writers : SetCAS(w, k) PROVE SweepInv'
  BY <1>4, <1>5, Zenon DEF CompareAndDelete, SetCAS
<1>6. ASSUME NEW k \in Keys, NEW i \in Instances, Load(i, k) \/ installL1(i, k) PROVE SweepInv'
  BY <1>1, <1>6, Zenon DEF Load, installL1, store
<1>7. ASSUME NEW i \in Instances, NEW ev \in bus[i], onEvent(i, ev) PROVE SweepInv'
  BY <1>1, <1>7, Zenon DEF onEvent, store
<1> QED BY <1>2, <1>3, <1>5, <1>6, <1>7, CallSweepStep, Zenon DEF Next

-----------------------------------------------------------------------------
(* The copies *)

\* What an eviction and a tombstone do to copies.
LEMMA EvictDead ==
    ASSUME TypeInv, NEW i, NEW ks, Evict(i, ks), NEW j \in Instances, NEW k \in Keys, Dead(j, k)'
    PROVE  Dead(j, k) /\ ~(j = i /\ k \in ks)
<1>1. CASE l1'[j][k] = "dead"
  BY <1>1 DEF Evict, Dead
<1>2. CASE <<k, "dead">> \in hand'[j]
  <2>1. PICK y \in hand[j] : <<k, "dead">> = <<y[1], IF j = i /\ y[1] \in ks THEN "held" ELSE y[2]>>
    BY <1>2, Zenon DEF Evict
  <2>2. y \in Keys \X CopyState
    BY DEF TypeInv
  <2>3. y = <<y[1], y[2]>>
    BY <2>2
  <2>4. y[1] = k /\ ~(j = i /\ k \in ks) /\ y[2] = "dead"
    BY <2>1
  <2>5. <<k, "dead">> \in hand[j]
    BY <2>3, <2>4, Zenon
  <2> QED BY <2>4, <2>5, Zenon DEF Dead
<1> QED BY <1>1, <1>2, Zenon DEF Dead

LEMMA KillDead ==
    ASSUME TypeInv, NEW q \in Keys, NEW told \in BOOLEAN, Kill(q, told),
           NEW j \in Instances, NEW k \in Keys, Dead(j, k)'
    PROVE  Dead(j, k) \/ (told /\ k = q)
<1>1. CASE l1'[j][k] = "dead"
  BY <1>1 DEF Kill, Dead, TypeInv
<1>2. CASE <<k, "dead">> \in hand'[j]
  <2>1. PICK y \in hand[j] : <<k, "dead">> = <<y[1], IF told /\ y[1] = q THEN "dead" ELSE y[2]>>
    BY <1>2, Zenon DEF Kill
  <2>2. y \in Keys \X CopyState
    BY DEF TypeInv
  <2>3. y = <<y[1], y[2]>>
    BY <2>2
  <2>4. y[1] = k /\ ((told /\ k = q) \/ y[2] = "dead")
    BY <2>1
  <2>5. (told /\ k = q) \/ <<k, "dead">> \in hand[j]
    BY <2>3, <2>4, Zenon
  <2> QED BY <2>5, Zenon DEF Dead
<1> QED BY <1>1, <1>2, Zenon DEF Dead

\* What the other calls are to evict stays so.
LEMMA OthersHandle ==
    ASSUME TypeInv, NEW i \in Callers, InvalidateTag(i),
           NEW m \in Callers \ {i}, NEW j \in Instances, NEW k \in Keys, Handles(m, j, k)
    PROVE  Handles(m, j, k)'
<1>1. ASSUME NEW d \in CallType, Shape(d), call' = [call EXCEPT ![i] = d]
      PROVE  Handles(m, j, k)'
  <2>1. call'[m] = call[m]
    BY <1>1, CallStep, Zenon
  <2> QED BY <2>1, Zenon DEF Handles
<1>2. CASE Srem(i)
  <2>1. PICK d, ks : Leave(ks, i, d)
    BY <1>2, SremFields, Zenon
  <2>2. /\ call'[m].pc = call[m].pc /\ call'[m].done = call[m].done
        /\ call'[m].processed = call[m].processed /\ call'[m].evict = call[m].evict
    BY <2>1, LeaveFields
  <2> QED BY <2>2, Zenon DEF Handles
<1>3. CASE Sscan(i)
  BY <1>1, <1>3, SscanFields, Zenon DEF Sound
<1>4. CASE Begin(i)
  BY <1>1, <1>4, BeginFields, Zenon
<1>5. CASE Return(i)
  BY <1>1, <1>5, ReturnFields, Zenon
<1>6. CASE Publish(i)
  BY <1>1, <1>6, PublishFields, Zenon
<1>7. CASE \E q \in Keys : Tombstone(i, q) \/ EvictL1(i, q)
  BY <1>1, <1>7, TombstoneFields, EvictL1Fields, Zenon
<1> QED BY <1>2, <1>3, <1>4, <1>5, <1>6, <1>7, Zenon DEF InvalidateTag

\* A step of a call: a copy is dead for a reason that lasts.
LEMMA CallDeadStep ==
    ASSUME TypeInv, DeadInv, NEW i \in Callers, InvalidateTag(i),
           NEW j \in Instances, NEW k \in Keys, Dead(j, k)'
    PROVE  Awaited(j, k)'
<1>0. call[i] \in CallType /\ Shape(call[i])
  BY Zenon DEF TypeInv
<1>1. ASSUME Dead(j, k), members \subseteq members', \A ev \in bus[j] : ev \in bus'[j],
             Handles(i, j, k) => Awaited(j, k)'
      PROVE  Awaited(j, k)'
  <2>1. Awaited(j, k)
    BY <1>1, Zenon DEF DeadInv
  <2>2. CASE k \in members
    BY <1>1, <2>2, Zenon DEF Awaited
  <2>3. CASE \E m \in Callers : Handles(m, j, k)
    <3>1. PICK m \in Callers : Handles(m, j, k)
      BY <2>3, Zenon
    <3>2. CASE m = i
      BY <1>1, <3>1, <3>2, Zenon
    <3>3. CASE m # i
      <4>1. Handles(m, j, k)'
        BY <3>1, <3>3, OthersHandle, Zenon
      <4> QED BY <4>1, Zenon DEF Awaited
    <3> QED BY <3>2, <3>3, Zenon
  <2>4. CASE \E ev \in bus[j] : k \in ev.keys
    BY <1>1, <2>4, Zenon DEF Awaited
  <2> QED BY <2>1, <2>2, <2>3, <2>4, Zenon DEF Awaited
<1>2. ASSUME UNCHANGED <<l1, hand, bus>>
      PROVE  Dead(j, k) /\ \A ev \in bus[j] : ev \in bus'[j]
  BY <1>2, Zenon DEF Dead
<1>3. CASE Begin(i)
  <2>1. UNCHANGED <<l1, hand, bus, members>> /\ call[i].pc = "idle"
    BY <1>3, Zenon DEF Begin, copies
  <2>2. ~Handles(i, j, k)
    BY <1>0, <2>1 DEF Handles, Shape
  <2> QED BY <1>1, <1>2, <2>1, <2>2, Zenon
<1>4. CASE Sscan(i)
  <2>1. UNCHANGED <<l1, hand, bus, members>> /\ call[i].pc = "scan"
    BY <1>4, Zenon DEF Sscan, store, copies
  <2>2. PICK c, d : Sound(c, d) /\ call' = [call EXCEPT ![i] = d] /\ c.processed = call[i].processed
    BY <1>4, SscanFields, Zenon
  <2>3. /\ d \in CallType /\ Shape(d) /\ d.processed = call[i].processed
        /\ d.pc = "evict" => d.evict = call[i].processed
    BY <2>2, Zenon DEF Sound
  <2>4. call'[i] = d
    BY <2>2, <2>3, CallStep, Zenon
  <2>5. Handles(i, j, k) => k \in call[i].processed
    BY <1>0, <2>1 DEF Handles, Shape
  <2>6. k \in call[i].processed => Handles(i, j, k)'
    BY <2>3, <2>4, Zenon DEF Handles
  <2>7. Handles(i, j, k) => Awaited(j, k)'
    BY <2>5, <2>6, Zenon DEF Awaited
  <2> QED BY <1>1, <1>2, <2>1, <2>7, Zenon
<1>5. CASE Srem(i)
  <2>1. UNCHANGED <<l1, hand, bus>> /\ call[i].pc = "tombstone"
    <3>1. UNCHANGED <<l1, hand, bus>>
      BY <1>5, Zenon DEF Srem, copies
    <3>2. call[i].pc = "tombstone"
      BY <1>0, <1>5 DEF Srem, CallType
    <3> QED BY <3>1, <3>2, Zenon
  <2>2. PICK c, d, ks : /\ Sound(c, d) /\ Leave(ks, i, d) /\ ks \subseteq call[i].done
                        /\ c.processed = call[i].processed \cup call[i].done
    BY <1>5, SremFields, Zenon
  <2>3. /\ d.processed = call[i].processed \cup call[i].done
        /\ d.pc = "evict" => d.evict = call[i].processed \cup call[i].done
    BY <2>2, Zenon DEF Sound
  <2>4. call'[i] = d /\ members' = members \ ks
    BY <2>2, Zenon DEF Leave
  <2>5. k \in call[i].processed \cup call[i].done => Handles(i, j, k)'
    BY <2>3, <2>4, Zenon DEF Handles
  <2>6. k \in call[i].processed \cup call[i].done => Awaited(j, k)'
    BY <2>5, Zenon DEF Awaited
  <2>7. CASE k \in call[i].processed \cup call[i].done
    BY <2>6, <2>7, Zenon
  <2>8. CASE k \notin call[i].processed \cup call[i].done
    <3>1. ~Handles(i, j, k)
      BY <2>1, <2>8 DEF Handles
    <3>2. Dead(j, k) /\ Awaited(j, k)
      BY <1>2, <2>1, Zenon DEF DeadInv
    <3>3. CASE k \in members
      BY <2>2, <2>4, <2>8, <3>3, Zenon DEF Awaited
    <3>4. CASE \E m \in Callers : Handles(m, j, k)
      <4>1. PICK m \in Callers \ {i} : Handles(m, j, k)
        BY <3>1, <3>4, Zenon
      <4>2. Handles(m, j, k)'
        BY <4>1, OthersHandle, Zenon
      <4> QED BY <4>1, <4>2, Zenon DEF Awaited
    <3>5. CASE \E ev \in bus[j] : k \in ev.keys
      BY <2>1, <3>5, Zenon DEF Awaited
    <3> QED BY <3>2, <3>3, <3>4, <3>5, Zenon DEF Awaited
  <2> QED BY <2>7, <2>8, Zenon
<1>6. ASSUME NEW q \in Keys, Tombstone(i, q) PROVE Awaited(j, k)'
  <2>1. PICK d : /\ d \in CallType /\ Shape(d) /\ call' = [call EXCEPT ![i] = d]
                 /\ call[i].pc = "tombstone" /\ d.pc = "tombstone" /\ d.processed = call[i].processed
                 /\ \/ Kill(q, TRUE) /\ d.done = call[i].done \cup {q} /\ d.failed = call[i].failed
                    \/ /\ \/ q \in members /\ Kill(q, TRUE)
                          \/ q \notin members /\ Kill(q, FALSE)
                          \/ UNCHANGED <<hash, l1, hand, tagged, due>>
                       /\ d.done = call[i].done /\ d.failed = TRUE
    BY <1>6, TombstoneFields, Zenon
  <2>2. call'[i] = d /\ members' = members /\ bus' = bus
    BY <1>6, <2>1, CallStep, Zenon DEF Tombstone
  <2>3. k \in d.done \cup d.processed => Handles(i, j, k)'
    BY <2>1, <2>2 DEF Handles
  <2>4. k \in d.done \cup d.processed => Awaited(j, k)'
    BY <2>3, Zenon DEF Awaited
  <2>5. Handles(i, j, k) => k \in call[i].done \cup call[i].processed
    BY <2>1 DEF Handles
  <2>6. Handles(i, j, k) => Awaited(j, k)'
    BY <2>1, <2>4, <2>5, Zenon
  <2>7. Dead(j, k) \/ (k = q /\ (q \in d.done \/ q \in members))
    <3>1. Kill(q, TRUE) => Dead(j, k) \/ k = q
      BY KillDead, Zenon
    <3>2. Kill(q, FALSE) => Dead(j, k)
      BY KillDead, Zenon
    <3>3. UNCHANGED <<hash, l1, hand, tagged, due>> => Dead(j, k)
      BY Zenon DEF Dead
    <3> QED BY <2>1, <3>1, <3>2, <3>3, Zenon
  <2>8. CASE Dead(j, k)
    BY <1>1, <2>2, <2>6, <2>8, Zenon
  <2>9. CASE k = q /\ (q \in d.done \/ q \in members)
    BY <2>2, <2>4, <2>9, Zenon DEF Awaited
  <2> QED BY <2>7, <2>8, <2>9, Zenon
<1>7. ASSUME NEW q \in Keys, EvictL1(i, q) PROVE Awaited(j, k)'
  <2>1. PICK d : /\ d \in CallType /\ Shape(d) /\ call' = [call EXCEPT ![i] = d]
                 /\ call[i].pc = "evict" /\ d.pc = "evict" /\ d.evict = call[i].evict \ {q}
                 /\ d.done = call[i].done /\ d.processed = call[i].processed
    BY <1>7, EvictL1Fields
  <2>2. call'[i] = d /\ members' = members /\ bus' = bus
    BY <1>7, <2>1, CallStep, Zenon DEF EvictL1, store
  <2>3. Evict(Home[i], {q})
    BY <1>7, Zenon DEF EvictL1
  <2>4. Dead(j, k) /\ ~(j = Home[i] /\ k \in {q})
    BY <2>3, EvictDead, Zenon
  <2>5. Handles(i, j, k) => Handles(i, j, k)'
    BY <2>1, <2>2, <2>4, Zenon DEF Handles
  <2>6. Handles(i, j, k) => Awaited(j, k)'
    BY <2>5, Zenon DEF Awaited
  <2> QED BY <1>1, <2>2, <2>4, <2>6, Zenon
<1>8. CASE Publish(i)
  <2>1. PICK d, ks : /\ d \in CallType /\ Shape(d) /\ call' = [call EXCEPT ![i] = d]
                     /\ call[i].pc = "evict" /\ d.pc = "evict" /\ call[i].evict = {}
                     /\ d.done = call[i].done /\ d.processed = call[i].processed \ ks
                     /\ Send(i, [id |-> <<i, call[i].calls, call[i].chunks>>, keys |-> ks])
    BY <1>8, PublishFields, Zenon
  <2>2. call'[i] = d /\ UNCHANGED <<members, l1, hand>>
    BY <1>8, <2>1, CallStep, Zenon DEF Publish, store
  <2>3. PICK nev : nev = [id |-> <<i, call[i].calls, call[i].chunks>>, keys |-> ks]
    BY Zenon
  <2>4. nev.keys = ks /\ bus'[j] = IF j = Home[i] THEN bus[j] ELSE bus[j] \cup {nev}
    BY <2>1, <2>3, Zenon DEF Send
  <2>5. Handles(i, j, k) => Home[i] # j /\ k \in call[i].processed
    BY <1>0, <2>1 DEF Handles, Shape
  <2>6. ASSUME Home[i] # j, k \in call[i].processed PROVE Awaited(j, k)'
    <3>1. CASE k \in ks
      <4>1. nev \in bus'[j] /\ k \in nev.keys
        BY <2>4, <2>6, <3>1, Zenon
      <4> QED BY <4>1, Zenon DEF Awaited
    <3>2. CASE k \notin ks
      <4>1. Handles(i, j, k)'
        BY <2>1, <2>2, <2>6, <3>2, Zenon DEF Handles
      <4> QED BY <4>1, Zenon DEF Awaited
    <3> QED BY <3>1, <3>2, Zenon
  <2>7. Dead(j, k) /\ \A ev \in bus[j] : ev \in bus'[j]
    BY <2>2, <2>4, Zenon DEF Dead
  <2> QED BY <1>1, <2>2, <2>5, <2>6, <2>7, Zenon
<1>9. CASE Return(i)
  <2>1. /\ UNCHANGED <<l1, hand, bus, members>> /\ call[i].pc = "evict" /\ call[i].evict = {}
        /\ call[i].processed = {}
    BY <1>9, Zenon DEF Return, copies
  <2>2. ~Handles(i, j, k)
    BY <1>0, <2>1 DEF Handles, Shape
  <2> QED BY <1>1, <1>2, <2>1, <2>2, Zenon
<1> QED BY <1>3, <1>4, <1>5, <1>6, <1>7, <1>8, <1>9, Zenon DEF InvalidateTag

\* So do writes, reads and events.
LEMMA DeadStep ==
    ASSUME TypeInv, IDInv, DeadInv, [Next]_vars
    PROVE  DeadInv'
<1> SUFFICES ASSUME NEW j \in Instances, NEW k \in Keys, Dead(j, k)' PROVE Awaited(j, k)'
  BY Zenon DEF DeadInv
<1>1. ASSUME Dead(j, k), members \subseteq members', call' = call, bus' = bus
      PROVE  Awaited(j, k)'
  <2>1. Awaited(j, k)
    BY <1>1, Zenon DEF DeadInv
  <2>2. \A i \in Callers : Handles(i, j, k) => Handles(i, j, k)'
    BY <1>1, Zenon DEF Handles
  <2> QED BY <1>1, <2>1, <2>2, Zenon DEF Awaited
<1>2. l1' = l1 /\ hand' = hand => Dead(j, k)
  BY Zenon DEF Dead
<1>3. CASE UNCHANGED vars
  BY <1>1, <1>2, <1>3, Zenon DEF vars
<1>4. ASSUME NEW w \in Writers, addTags(w) \/ \E q \in Keys : SetCAS(w, q) PROVE Awaited(j, k)'
  <2>1. members \subseteq members' /\ UNCHANGED <<call, bus, l1, hand>>
    BY <1>4, Zenon DEF addTags, SetCAS, copies
  <2> QED BY <1>1, <1>2, <2>1, Zenon
<1>5. ASSUME NEW q \in Keys, CompareAndDelete(q) PROVE Awaited(j, k)'
  BY <1>1, <1>2, <1>5, Zenon DEF CompareAndDelete, copies
<1>6. ASSUME NEW q \in Keys, NEW i \in Instances, Load(i, q) PROVE Awaited(j, k)'
  <2>1. <<k, "dead">> # <<q, "held">>
    OBVIOUS
  <2>2. l1' = l1 /\ hand'[j] \subseteq hand[j] \cup {<<q, "held">>}
    BY <1>6 DEF Load, TypeInv
  <2>3. Dead(j, k)
    BY <2>1, <2>2, Zenon DEF Dead
  <2> QED BY <1>1, <1>6, <2>3, Zenon DEF Load, store
<1>7. ASSUME NEW q \in Keys, NEW i \in Instances, installL1(i, q) PROVE Awaited(j, k)'
  <2>1. PICK x \in CopyState : /\ <<q, x>> \in hand[i] /\ hand' = [hand EXCEPT ![i] = @ \ {<<q, x>>}]
                               /\ l1' = [l1 EXCEPT ![i][q] = x] \/ l1' = l1
    BY <1>7, Zenon DEF installL1
  <2>2. hand'[j] \subseteq hand[j]
    BY <2>1 DEF TypeInv
  <2>3. l1'[j][k] = l1[j][k] \/ (j = i /\ k = q /\ l1'[j][k] = x)
    BY <2>1 DEF TypeInv
  <2>4. Dead(j, k)
    BY <2>1, <2>2, <2>3, Zenon DEF Dead
  <2> QED BY <1>1, <1>7, <2>4, Zenon DEF installL1, store
<1>8. ASSUME NEW i \in Instances, NEW ev \in bus[i], onEvent(i, ev) PROVE Awaited(j, k)'
  <2>1. Evict(i, ev.keys) /\ bus' = [bus EXCEPT ![i] = @ \ {ev}] /\ call' = call /\ members' = members
    BY <1>8, Zenon DEF onEvent, IDInv, store
  <2>2. Dead(j, k) /\ ~(j = i /\ k \in ev.keys)
    BY <2>1, EvictDead, Zenon
  <2>3. \A f \in bus[j] : k \in f.keys => f \in bus'[j]
    BY <2>1, <2>2 DEF TypeInv
  <2>4. Awaited(j, k)
    BY <2>2, Zenon DEF DeadInv
  <2>5. \A m \in Callers : Handles(m, j, k) => Handles(m, j, k)'
    BY <2>1, Zenon DEF Handles
  <2> QED BY <2>1, <2>3, <2>4, <2>5, Zenon DEF Awaited
<1> QED BY <1>3, <1>4, <1>5, <1>6, <1>7, <1>8, CallDeadStep, Zenon DEF Next

-----------------------------------------------------------------------------
(* The theorems *)

LEMMA Invariance == Spec => [](TypeInv /\ IDInv /\ SweepInv /\ DeadInv)
<1>1. ASSUME TypeInv /\ IDInv /\ SweepInv /\ DeadInv, [Next]_vars
      PROVE  (TypeInv /\ IDInv /\ SweepInv /\ DeadInv)'
  BY <1>1, TypeStep, IDStep, SweepStep, DeadStep, Zenon
<1> QED BY InitTypes, <1>1, PTL DEF Spec

\* The types, with the bounds on the keys of a pipeline (tagPipelineBatch) and of
\* an event (broadcastChunk).
THEOREM TagTypeCorrect == Spec => []TypeOK
<1>1. TypeInv => TypeOK
  <2> SUFFICES ASSUME TypeInv PROVE TypeOK
    OBVIOUS
  <2>1. \A w \in Writers : adding[w] \subseteq Keys
    BY Zenon DEF TypeInv
  <2>2. ASSUME NEW i \in Callers
        PROVE  /\ call[i].pc \in {"idle", "scan", "tombstone", "evict"}
               /\ Cardinality(call[i].todo) + Cardinality(call[i].done) <= Batch
               /\ call[i].processed \subseteq Keys
    BY Zenon DEF TypeInv, Shape, CallType
  <2> QED BY <2>1, <2>2, Zenon DEF TypeInv, TypeOK
<1> QED BY Invariance, <1>1, PTL

\* DeleteByTag: a sweep that reports no error is complete, however calls, writes
\* and the pages of the scan overlap.
THEOREM SweepIsComplete == Spec => []TagIsSwept
<1>1. TypeInv /\ SweepInv => TagIsSwept
  <2> SUFFICES ASSUME TypeInv, SweepInv, NEW i \in Callers, call[i].pc = "evict", ~call[i].failed
               PROVE  due[i] = {}
    BY Zenon DEF TagIsSwept
  <2>1. due[i] \subseteq Ahead(call[i]) /\ Shape(call[i])
    BY Zenon DEF SweepInv, TypeInv
  <2>2. call[i].owed = {} /\ call[i].page = {} /\ call[i].todo = {}
    BY <2>1 DEF Shape
  <2> QED BY <2>1, <2>2, Zenon DEF Ahead
<1> QED BY Invariance, <1>1, PTL

\* InvalidateTag: no copy of what a call killed outlives the calls and their
\* events, unless the key is still a member for a retry to reach.
THEOREM TaggedCopiesAreGone == Spec => []TaggedCopiesGone
<1>1. TypeInv /\ DeadInv => TaggedCopiesGone
  <2> SUFFICES ASSUME TypeInv, DeadInv, \A i \in Callers : call[i].pc = "idle",
                      \A i \in Instances : bus[i] = {},
                      NEW j \in Instances, NEW k \in Keys, l1[j][k] = "dead"
               PROVE  k \in members
    BY Zenon DEF TaggedCopiesGone
  <2>1. Awaited(j, k)
    BY Zenon DEF DeadInv, Dead
  <2>2. ASSUME NEW i \in Callers PROVE ~Handles(i, j, k)
    <3>1. call[i].pc = "idle" /\ Shape(call[i])
      BY Zenon DEF TypeInv
    <3> QED BY <3>1 DEF Handles, Shape
  <2> QED BY <2>1, <2>2, Zenon DEF Awaited
<1> QED BY Invariance, <1>1, PTL
=============================================================================
