------------------------------ MODULE TagIndex ------------------------------
(***************************************************************************)
(* One tag: the Redis set of its members, the writes that add to it, and    *)
(* InvalidateTag, which sweeps it (DeleteByTag), evicts what it tombstoned   *)
(* from the caller's L1 and broadcasts it to the others in chunks.  Every   *)
(* Redis command is a step, and calls overlap with writes, with readers that *)
(* have loaded a value and not yet installed it, and with one another.  The  *)
(* sets of different tags are independent.  Versions and deadlines are      *)
(* Nimbus's.                                                                *)
(***************************************************************************)
EXTENDS Naturals, FiniteSets

CONSTANTS Keys, Writers,
          Instances,
          Callers,     \* the threads that call InvalidateTag
          Home,        \* Home[c]: the instance caller c calls it on, in Instances or not
          Batch,       \* tagPipelineBatch
          Chunk,       \* broadcastChunk
          Faulty,      \* the writers and callers whose Redis commands may fail
          MaxCalls,    \* bound: calls of InvalidateTag by a caller
          Read,        \* bound: the instances and keys that are read, and so cached
          MaxHand      \* bound: copies in the hands of the readers of an instance

ASSUME SizeAssumption == /\ Batch \in Nat \ {0} /\ Chunk \in Nat \ {0}
                         /\ Faulty \subseteq Writers \cup Callers /\ Read \subseteq Instances \X Keys
                         /\ "gone" \notin Writers

VARIABLES hash,      \* hash[k]: "gone" (absent or a tombstone), or live: its writer
          members,   \* the Redis set of the tag
          adding,    \* adding[w]: the keys writer w has stored and not yet tagged
          call,      \* call[c]: the call of InvalidateTag by c
          l1,        \* l1[i][k]: "none", or the state of the copy in the L1 of i
          hand,      \* hand[i]: copies <<k, state>> i has read and not yet installed
          bus,       \* bus[i]: events on their way to i
          seen,      \* seen[i]: event IDs known to the Dedupe of i
          tagged,    \* history: live keys whose tagged write has returned
          due        \* due[c]: history: members the call of c is to reach, and has not

vars == <<hash, members, adding, call, l1, hand, bus, seen, tagged, due>>
store == <<hash, members, adding, tagged, due>>
copies == <<l1, hand, bus, seen>>

\* The states of a copy: "dead" when a sweep has tombstoned its key and its
\* eviction is to come, else "held".  No eviction is to come for a copy that is
\* still in hand when the eviction arrives, nor for one that only a command that
\* failed has tombstoned, on a key an overlapping call had taken off the set.
CopyState == {"held", "dead"}

Live(k) == hash[k] \in Writers

\* A call at rest.  owed: what the scan must still return; page: what it returned;
\* todo: keys of the batch to tombstone; last: the cursor came back as 0.
NoCall == [pc |-> "idle", owed |-> {}, page |-> {}, todo |-> {}, done |-> {},
           last |-> FALSE, failed |-> FALSE, processed |-> {}, evict |-> {},
           calls |-> 0, chunks |-> 0]

\* What is true of a key's value until it is replaced.
Forget(k) == /\ tagged' = tagged \ {k}
             /\ due' = [c \in Callers |-> due[c] \ {k}]

-----------------------------------------------------------------------------
(* Writers *)

\* The write of SetCAS with the tag; addTags is still to come.
SetCAS(w, k) ==
    /\ adding[w] = {}
    /\ hash' = [hash EXCEPT ![k] = w]
    /\ adding' = [adding EXCEPT ![w] = {k}]
    /\ Forget(k)
    /\ UNCHANGED <<members, call, copies>>

\* addTags.  A failed command may have been executed or not.
addTags(w) ==
    \E k \in adding[w] :
        /\ adding' = [adding EXCEPT ![w] = {}]
        /\ \/ /\ members' = members \cup {k}
              /\ tagged' = IF hash[k] = w THEN tagged \cup {k} ELSE tagged
           \/ /\ w \in Faulty /\ members' \in {members, members \cup {k}}
              /\ UNCHANGED tagged
        /\ UNCHANGED <<hash, due, call, copies>>

\* Invalidate of one key, or its expiry, leaves the tag set alone.
CompareAndDelete(k) ==
    /\ Live(k) /\ hash' = [hash EXCEPT ![k] = "gone"]
    /\ Forget(k)
    /\ UNCHANGED <<members, adding, call, copies>>

\* fill: an instance loads a live key, or has just stored it itself.
Load(i, k) ==
    /\ Live(k) /\ <<i, k>> \in Read /\ Cardinality(hand[i]) < MaxHand
    /\ hand' = [hand EXCEPT ![i] = @ \cup {<<k, "held">>}]
    /\ UNCHANGED <<store, call, l1, bus, seen>>

\* installL1 of a copy in hand; the version gate may refuse it for one that is there.
installL1(i, k) ==
    /\ \E x \in CopyState :
          /\ <<k, x>> \in hand[i]
          /\ hand' = [hand EXCEPT ![i] = @ \ {<<k, x>>}]
          /\ l1' = [l1 EXCEPT ![i][k] = x] \/ (l1[i][k] # "none" /\ l1' = l1)
    /\ UNCHANGED <<store, call, bus, seen>>

-----------------------------------------------------------------------------
(* DeleteByTag *)

\* A key that was written again after an overlapping sweep had tombstoned it,
\* and before that sweep's SREM, is about to leave the set: it is not due.
Begin(i) ==
    /\ call[i].pc = "idle" /\ call[i].calls < MaxCalls
    /\ call' = [call EXCEPT ![i] = [NoCall EXCEPT !.pc = "scan", !.owed = members,
                                                  !.calls = call[i].calls + 1]]
    /\ due' = [due EXCEPT ![i] = {k \in members : Live(k) /\ \A j \in Callers : k \notin call[j].done}]
    /\ UNCHANGED <<hash, members, adding, tagged, copies>>

\* The keys go on to be evicted and broadcast, whether or not the sweep failed.
Finish(c) == [c EXCEPT !.pc = "evict", !.evict = c.processed, !.todo = {}, !.done = {},
                       !.page = {}, !.owed = {}, !.last = FALSE]

\* The whole page in one pipeline.
WholePage(page) == {page}

Batches(page) == {s \in SUBSET page : /\ Cardinality(s) \in 1..Batch
                                      /\ Cardinality(s) = Batch \/ s = page}

\* After a page or a batch: the next batch of the page, the next page, or the end.
Proceed(c) ==
    IF c.failed THEN {Finish(c)}
    ELSE IF c.page # {} THEN {[c EXCEPT !.pc = "tombstone", !.page = @ \ s, !.todo = s, !.done = {}] :
                                 s \in Batches(c.page)}
    ELSE IF ~c.last THEN {[c EXCEPT !.pc = "scan", !.done = {}]}
    ELSE {Finish(c)}

\* A scan that ends with its first page.
SscanOnce(i) ==
    LET c == call[i]
    IN  /\ c.pc = "scan"
        /\ \/ \E page \in SUBSET members : \E d \in Proceed([c EXCEPT !.page = page, !.last = TRUE]) :
                 call' = [call EXCEPT ![i] = d]
           \/ i \in Faulty /\ call' = [call EXCEPT ![i] = Finish([c EXCEPT !.failed = TRUE])]
        /\ UNCHANGED <<store, copies>>

\* SSCAN returns any members; the cursor is 0 only when all that have been in the
\* set since the first call have been returned.
Sscan(i) ==
    LET c == call[i]
    IN  /\ c.pc = "scan"
        /\ \/ \E page \in SUBSET members, last \in BOOLEAN :
                 /\ last => c.owed \subseteq page
                 /\ \E d \in Proceed([c EXCEPT !.page = page, !.last = last,
                                               !.owed = IF last THEN {} ELSE @ \ page]) :
                       call' = [call EXCEPT ![i] = d]
           \/ i \in Faulty /\ call' = [call EXCEPT ![i] = Finish([c EXCEPT !.failed = TRUE])]
        /\ UNCHANGED <<store, copies>>

\* The tombstone of a member; told: its copies are to be evicted.
Kill(k, told) ==
    /\ hash' = [hash EXCEPT ![k] = "gone"]
    /\ l1' = [i \in Instances |-> [l1[i] EXCEPT ![k] = IF told /\ @ = "held" THEN "dead" ELSE @]]
    /\ hand' = [i \in Instances |->
                  {<<y[1], IF told /\ y[1] = k THEN "dead" ELSE y[2]>> : y \in hand[i]}]
    /\ Forget(k)

\* One command of the pipeline: it succeeds, or fails, executed or not.
Tombstone(i, k) ==
    /\ call[i].pc = "tombstone" /\ k \in call[i].todo
    /\ \/ Kill(k, TRUE) /\ call' = [call EXCEPT ![i].todo = @ \ {k}, ![i].done = @ \cup {k}]
       \/ /\ i \in Faulty
          /\ \/ Kill(k, k \in members)
             \/ UNCHANGED <<hash, l1, hand, tagged, due>>
          /\ call' = [call EXCEPT ![i].todo = @ \ {k}, ![i].failed = TRUE]
    /\ UNCHANGED <<members, adding, bus, seen>>

\* The members ks leave the set, and no scan owes them any more; i goes on as d.
Leave(ks, i, d) ==
    /\ members' = members \ ks
    /\ call' = [j \in Callers |-> IF j = i THEN d ELSE [call[j] EXCEPT !.owed = @ \ ks]]

\* The members that were tombstoned leave the set and are reported, even if SREM
\* fails; the others stay for a retry.
Srem(i) ==
    LET c == [call[i] EXCEPT !.processed = @ \cup call[i].done]
    IN  /\ c.pc = "tombstone" /\ c.todo = {}
        /\ \/ \E d \in Proceed(c) : Leave(c.done, i, d)
           \/ /\ i \in Faulty /\ c.done # {}
              /\ \E ks \in {{}, c.done} : Leave(ks, i, Finish([c EXCEPT !.failed = TRUE]))
        /\ UNCHANGED <<hash, adding, tagged, due, copies>>

-----------------------------------------------------------------------------
(* InvalidateTag, after the sweep *)

\* The keys leave the L1 of i; what i has in hand of them is not in it yet.
Evict(i, ks) ==
    /\ l1' = [j \in Instances |-> [k \in Keys |-> IF j = i /\ k \in ks THEN "none" ELSE l1[j][k]]]
    /\ hand' = [j \in Instances |->
          {<<y[1], IF j = i /\ y[1] \in ks THEN "held" ELSE y[2]>> : y \in hand[j]}]

EvictL1(i, k) ==
    /\ call[i].pc = "evict" /\ k \in call[i].evict
    /\ Evict(Home[i], {k})
    /\ call' = [call EXCEPT ![i].evict = @ \ {k}]
    /\ UNCHANGED <<store, bus, seen>>

\* The bus takes an event to the other instances; onEvent ignores its own.
Send(i, ev) == bus' = [j \in Instances |-> IF j = Home[i] THEN bus[j] ELSE bus[j] \cup {ev}]

\* The chunks of one call share an ID.
PublishSameID(i) ==
    /\ call[i].pc = "evict" /\ call[i].evict = {} /\ call[i].processed # {}
    /\ \E ks \in SUBSET call[i].processed :
          /\ ks # {} /\ Cardinality(ks) <= Chunk
          /\ Cardinality(ks) = Chunk \/ ks = call[i].processed
          /\ Send(i, [id |-> <<i, call[i].calls, 0>>, keys |-> ks])
          /\ call' = [call EXCEPT ![i].processed = @ \ ks, ![i].chunks = @ + 1]
    /\ UNCHANGED <<store, l1, hand, seen>>

\* One chunk of the broadcast, with an ID of its own.
Publish(i) ==
    /\ call[i].pc = "evict" /\ call[i].evict = {} /\ call[i].processed # {}
    /\ \E ks \in SUBSET call[i].processed :
          /\ ks # {} /\ Cardinality(ks) <= Chunk
          /\ Cardinality(ks) = Chunk \/ ks = call[i].processed
          /\ Send(i, [id |-> <<i, call[i].calls, call[i].chunks>>, keys |-> ks])
          /\ call' = [call EXCEPT ![i].processed = @ \ ks, ![i].chunks = @ + 1]
    /\ UNCHANGED <<store, l1, hand, seen>>

Return(i) ==
    /\ call[i].pc = "evict" /\ call[i].evict = {} /\ call[i].processed = {}
    /\ call' = [call EXCEPT ![i] = [NoCall EXCEPT !.calls = call[i].calls]]
    /\ due' = [due EXCEPT ![i] = {}]
    /\ UNCHANGED <<hash, members, adding, tagged, copies>>

\* The bus delivers an event, in any order.
onEvent(i, ev) ==
    /\ ev \in bus[i] /\ bus' = [bus EXCEPT ![i] = @ \ {ev}]
    /\ IF ev.id \in seen[i] THEN UNCHANGED <<l1, hand, seen>>
       ELSE seen' = [seen EXCEPT ![i] = @ \cup {ev.id}] /\ Evict(i, ev.keys)
    /\ UNCHANGED <<store, call>>

Init ==
    /\ hash = [k \in Keys |-> "gone"] /\ members = {} /\ tagged = {}
    /\ adding = [w \in Writers |-> {}]
    /\ call = [i \in Callers |-> NoCall]
    /\ l1 = [i \in Instances |-> [k \in Keys |-> "none"]]
    /\ hand = [i \in Instances |-> {}]
    /\ bus = [i \in Instances |-> {}] /\ seen = [i \in Instances |-> {}]
    /\ due = [c \in Callers |-> {}]

InvalidateTag(i) ==
    \/ Begin(i) \/ Sscan(i) \/ Srem(i) \/ Publish(i) \/ Return(i)
    \/ \E k \in Keys : Tombstone(i, k) \/ EvictL1(i, k)

Next ==
    \/ \E w \in Writers : addTags(w) \/ \E k \in Keys : SetCAS(w, k)
    \/ \E k \in Keys : \/ CompareAndDelete(k)
                       \/ \E i \in Instances : Load(i, k) \/ installL1(i, k)
    \/ \E i \in Callers : InvalidateTag(i)
    \/ \E i \in Instances : \E ev \in bus[i] : onEvent(i, ev)

Spec == Init /\ [][Next]_vars

-----------------------------------------------------------------------------
\* The types of the Redis data, the calls and the copies.
TypeOK ==
    /\ hash \in [Keys -> {"gone"} \cup Writers]
    /\ members \subseteq Keys /\ tagged \subseteq Keys
    /\ \A w \in Writers : adding[w] \subseteq Keys /\ Cardinality(adding[w]) <= 1
    /\ \A i \in Callers :
          /\ call[i].pc \in {"idle", "scan", "tombstone", "evict"}
          /\ Cardinality(call[i].todo) + Cardinality(call[i].done) <= Batch
          /\ call[i].processed \subseteq Keys
    /\ l1 \in [Instances -> [Keys -> {"none"} \cup CopyState]]
    /\ hand \in [Instances -> SUBSET (Keys \X CopyState)]
    /\ \A i \in Instances : \A ev \in bus[i] : ev.keys # {} /\ Cardinality(ev.keys) <= Chunk

\* A sweep that reports no error is complete (DeleteByTag), whatever overlaps
\* with it: every member that was live when it began has been tombstoned since,
\* or its value has gone, unless another sweep was about to take it off the set.
TagIsSwept ==
    \A i \in Callers : call[i].pc = "evict" /\ ~call[i].failed => due[i] = {}

\* No L1 keeps a copy of what a tag invalidation killed (InvalidateTag): once no
\* call is under way and the bus is empty, a dead copy is only left for a key that
\* is still a member, so that a retry of the failed call reaches it.
TaggedCopiesGone ==
    (\A i \in Callers : call[i].pc = "idle") /\ (\A i \in Instances : bus[i] = {}) =>
        \A i \in Instances, k \in Keys : l1[i][k] = "dead" => k \in members

\* "A member SADDed concurrently ... survives for the next InvalidateTag"
\* (redis.go): a key whose tagged write has returned, and whose value is still
\* the one written, is in the tag set.
TaggedIsMember == tagged \subseteq members
=============================================================================
