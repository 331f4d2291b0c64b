----------------------------- MODULE MemoryLRU -----------------------------
(***************************************************************************)
(* store/memory: shards of a hash map and an intrusive doubly linked list,  *)
(* head first used last.  Every operation holds its shard's mutex, so that   *)
(* it is one step.  A key has at most one node, which bears its name; a node *)
(* that is not in the list has no links.                                    *)
(***************************************************************************)
EXTENDS Integers, FiniteSets

CONSTANTS Keys,
          Nil,            \* the nil node
          Capacity,       \* WithCapacity
          Requested,      \* WithShards
          HashOf,         \* HashOf[k]: the hash of k
          Versions, Deadlines,   \* of the entries stored
          NoEntry,
          MaxTime, MaxEvictions  \* bounds: clock, evictions counted

ASSUME StoreAssumption == /\ Capacity \in Int /\ Requested \in Int
                          /\ HashOf \in [Keys -> Nat] /\ Nil \notin Keys
                          /\ NoEntry \notin [ver : Versions, su : Deadlines]
                          /\ MaxTime \in Nat /\ MaxEvictions \in Nat

VARIABLES now,
          items,      \* items[k]: the entry of the node of k, NoEntry if none
          head, tail, \* head[s], tail[s]: the ends of the list of shard s
          prev, next, \* prev[k], next[k]: the links of the node of k
          evictions,  \* the counter of LRU evictions
          older       \* older[k]: history: the keys of the shard of k used before k was

vars == <<now, items, head, tail, prev, next, evictions, older>>

-----------------------------------------------------------------------------
\* A power of two has no odd divisor but 1.
IsPow2(p) == \A d \in 2..p : p % d = 0 => d % 2 = 0

\* roundUpPow2: the first power of two that is not less than n, the only one
\* below twice n.
roundUpPow2(n) == IF n <= 1 THEN 1 ELSE CHOOSE p \in n..(2 * n - 1) : IsPow2(p)

ShardCount == roundUpPow2(Requested)

Shards == 0..(ShardCount - 1)

\* shardFor masks the hash with the shard count less one.
ShardOf == [k \in Keys |-> HashOf[k] % ShardCount]

\* A New that gives every shard the whole capacity.
PerShardWhole == IF Capacity <= 0 THEN 0 ELSE Capacity

\* New splits the capacity, rounding up, with at least one entry per shard.
PerShard ==
    IF Capacity <= 0 THEN 0
    ELSE LET q == (Capacity + ShardCount - 1) \div ShardCount
         IN  IF q < 1 THEN 1 ELSE q

Entry == [ver : Versions, su : Deadlines]

Expired(e) == ~(now < e.su)

-----------------------------------------------------------------------------
(* The list of a shard: its ends and the links of its nodes *)

List(s) == [head |-> head[s], tail |-> tail[s], prev |-> prev, next |-> next]

\* An unlink that leaves the tail to a node that is gone.
unlinkKeepsTail(l, k) ==
    LET p == l.prev[k]
        n == l.next[k]
    IN  [head |-> IF p = Nil THEN n ELSE l.head,
         tail |-> l.tail,
         next |-> [j \in Keys |-> IF j = p THEN n ELSE IF j = k THEN Nil ELSE l.next[j]],
         prev |-> [j \in Keys |-> IF j = n THEN p ELSE IF j = k THEN Nil ELSE l.prev[j]]]

unlinkLocked(l, k) ==
    LET p == l.prev[k]
        n == l.next[k]
    IN  [head |-> IF p = Nil THEN n ELSE l.head,
         tail |-> IF n = Nil THEN p ELSE l.tail,
         next |-> [j \in Keys |-> IF j = p THEN n ELSE IF j = k THEN Nil ELSE l.next[j]],
         prev |-> [j \in Keys |-> IF j = n THEN p ELSE IF j = k THEN Nil ELSE l.prev[j]]]

pushFrontLocked(l, k) ==
    [head |-> k,
     tail |-> IF l.tail = Nil THEN k ELSE l.tail,
     next |-> [l.next EXCEPT ![k] = l.head],
     prev |-> [j \in Keys |-> IF j = k THEN Nil ELSE IF j = l.head THEN k ELSE l.prev[j]]]

\* A lookup that does not count as a use.
moveToFrontNever(l, k) == l

moveToFrontLocked(l, k) ==
    IF l.head = k THEN l ELSE pushFrontLocked(unlinkLocked(l, k), k)

Relink(s, l) ==
    /\ head' = [head EXCEPT ![s] = l.head]
    /\ tail' = [tail EXCEPT ![s] = l.tail]
    /\ prev' = l.prev /\ next' = l.next

-----------------------------------------------------------------------------
(* Operations *)

Has(k) == items[k] # NoEntry

Stored(s) == {k \in Keys : Has(k) /\ ShardOf[k] = s}

Size(s) == Cardinality(Stored(s))

\* The order of use o after a use of k, with the keys S in its shard; after its
\* removal if S is empty.
Use(o, S, k) == [j \in Keys |-> IF j = k THEN S \ {k} ELSE o[j] \ {k}]

removeLocked(k) ==
    /\ items' = [items EXCEPT ![k] = NoEntry]
    /\ Relink(ShardOf[k], unlinkLocked(List(ShardOf[k]), k))
    /\ older' = Use(older, {}, k)

\* The entry of the node of k is replaced, and the node moves to the front.
Replace(k, e) ==
    /\ items' = [items EXCEPT ![k] = e]
    /\ Relink(ShardOf[k], moveToFrontLocked(List(ShardOf[k]), k))
    /\ older' = Use(older, Stored(ShardOf[k]), k)
    /\ UNCHANGED evictions

\* An insert that makes room only when the shard is already over its share.
insertLate(k, e) ==
    LET s == ShardOf[k]
        l == pushFrontLocked(List(s), k)
        full == PerShard > 0 /\ Size(s) > PerShard /\ l.tail # Nil
    IN  /\ full => evictions < MaxEvictions
        /\ evictions' = IF full THEN evictions + 1 ELSE evictions
        /\ items' = IF full THEN [items EXCEPT ![k] = e, ![l.tail] = NoEntry]
                    ELSE [items EXCEPT ![k] = e]
        /\ Relink(s, IF full THEN unlinkLocked(l, l.tail) ELSE l)
        /\ older' = IF full THEN Use(Use(older, Stored(s), k), {}, l.tail)
                    ELSE Use(older, Stored(s), k)

insertLocked(k, e) ==
    LET s == ShardOf[k]
        l == pushFrontLocked(List(s), k)
        full == PerShard > 0 /\ Size(s) + 1 > PerShard /\ l.tail # Nil
    IN  /\ full => evictions < MaxEvictions
        /\ evictions' = IF full THEN evictions + 1 ELSE evictions
        /\ items' = IF full THEN [items EXCEPT ![k] = e, ![l.tail] = NoEntry]
                    ELSE [items EXCEPT ![k] = e]
        /\ Relink(s, IF full THEN unlinkLocked(l, l.tail) ELSE l)
        /\ older' = IF full THEN Use(Use(older, Stored(s), k), {}, l.tail)
                    ELSE Use(older, Stored(s), k)

\* A lookup of an absent key changes nothing.
get(k) ==
    /\ Has(k)
    /\ \/ Expired(items[k]) /\ removeLocked(k) /\ UNCHANGED evictions
       \/ ~Expired(items[k]) /\ Replace(k, items[k])
    /\ UNCHANGED now

set(k, e) ==
    /\ \/ Has(k) /\ Replace(k, e)
       \/ ~Has(k) /\ insertLocked(k, e)
    /\ UNCHANGED now

setIfNewer(k, e) ==
    /\ \/ Has(k) /\ (Expired(items[k]) \/ e.ver > items[k].ver) /\ Replace(k, e)
       \/ ~Has(k) /\ insertLocked(k, e)
    /\ UNCHANGED now

delete(k) == Has(k) /\ removeLocked(k) /\ UNCHANGED <<now, evictions>>

Tick ==
    /\ now < MaxTime /\ now' = now + 1
    /\ UNCHANGED <<items, head, tail, prev, next, evictions, older>>

Init ==
    /\ now = 0 /\ evictions = 0
    /\ items = [k \in Keys |-> NoEntry]
    /\ head = [s \in Shards |-> Nil] /\ tail = [s \in Shards |-> Nil]
    /\ prev = [k \in Keys |-> Nil] /\ next = [k \in Keys |-> Nil]
    /\ older = [k \in Keys |-> {}]

Next ==
    \/ \E k \in Keys : \/ get(k) \/ delete(k)
                       \/ \E e \in Entry : set(k, e) \/ setIfNewer(k, e)
    \/ Tick

Spec == Init /\ [][Next]_vars

-----------------------------------------------------------------------------
\* The types of the fields of shard and node.
TypeOK ==
    /\ now \in 0..MaxTime /\ evictions \in 0..MaxEvictions
    /\ items \in [Keys -> Entry \cup {NoEntry}]
    /\ head \in [Shards -> Keys \cup {Nil}] /\ tail \in [Shards -> Keys \cup {Nil}]
    /\ prev \in [Keys -> Keys \cup {Nil}] /\ next \in [Keys -> Keys \cup {Nil}]
    /\ older \in [Keys -> SUBSET Keys]

\* The list l has the keys S, from the one used last to the one used longest ago
\* in the order o: both ends are right, and the links of neighbours agree.
Lists(l, S, o) ==
    /\ IF S = {} THEN l.head = Nil /\ l.tail = Nil
       ELSE /\ l.head \in S /\ o[l.head] = S \ {l.head} /\ l.prev[l.head] = Nil
            /\ l.tail \in S /\ o[l.tail] = {}
    /\ \A k \in S :
          IF o[k] = {} THEN l.next[k] = Nil
          ELSE /\ l.next[k] \in S /\ l.prev[l.next[k]] = k
               /\ o[k] = o[l.next[k]] \cup {l.next[k]}
    /\ \A k \in S \ {l.head} : l.prev[k] \in S /\ l.next[l.prev[k]] = k

\* Map, list and history agree (unlinkLocked, pushFrontLocked): the list of a
\* shard has the nodes of the map, each once, in the order of their last use, in
\* both directions; a node out of the map has no links.
ListMatchesMap ==
    /\ \A s \in Shards : Lists(List(s), Stored(s), older)
    /\ \A k \in Keys : ~Has(k) => prev[k] = Nil /\ next[k] = Nil

\* No shard outgrows its share of the capacity (insertLocked), so that the
\* store holds at most a share per shard.
WithinShare == PerShard > 0 => \A s \in Shards : Size(s) <= PerShard

Len == Cardinality({k \in Keys : Has(k)})

\* The shares that New rounds up keep the store near the capacity asked for: it
\* never holds a whole entry a shard more.
NearCapacity == Capacity > 0 => Len < Capacity + ShardCount

Abstract == INSTANCE LRU WITH entry <- items
\* Lookup, installs, expiry and eviction are those of an LRU: what goes is what
\* was used longest ago, and nothing else (insertLocked, moveToFrontLocked).
ImplementsLRU == Abstract!Spec

-----------------------------------------------------------------------------
(* What the documentation says and the code does not do *)

\* "WithCapacity sets the maximum number of entries kept across all shards"
\* (options.go).
WithinCapacity == Capacity > 0 => Len <= Capacity

\* "Len is the current number of live entries held by the tier" (store.go).
LenIsLive == Len = Cardinality({k \in Keys : Has(k) /\ ~Expired(items[k])})
=============================================================================
