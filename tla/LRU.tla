-------------------------------- MODULE LRU --------------------------------
(***************************************************************************)
(* What the in-process L1 promises: a map with deadlines whose shards each  *)
(* keep at most PerShard entries and drop the one that was used longest ago. *)
(* A lookup that finds an expired entry removes it.                         *)
(***************************************************************************)
EXTENDS Naturals, FiniteSets

CONSTANTS Keys,
          ShardOf,     \* ShardOf[k]: the shard of k
          PerShard,    \* entries per shard; 0: no bound
          NoEntry

VARIABLES now, entry,   \* entry[k]: what is stored under k
          older         \* older[k]: the keys of the shard of k used before k was

vars == <<now, entry, older>>

Has(k) == entry[k] # NoEntry

Dead(e) == ~(now < e.su)

\* The keys beside k in its shard.
Beside(k) == {j \in Keys \ {k} : Has(j) /\ ShardOf[j] = ShardOf[k]}

\* The order once k is the last key used, and once it is gone.
Used(k) == [j \in Keys |-> IF j = k THEN Beside(k) ELSE older[j] \ {k}]
Without(o, k) == [j \in Keys |-> IF j = k THEN {} ELSE o[j] \ {k}]

Drop(k) == /\ entry' = [entry EXCEPT ![k] = NoEntry]
           /\ older' = Without(older, k)

\* k is the last key used; a shard without room for it drops the key that no
\* other was used before.
Put(k, e) ==
    IF PerShard > 0 /\ Cardinality(Beside(k)) >= PerShard
    THEN \E v \in Beside(k) : /\ older[v] \ {k} = {}
                              /\ older' = Without(Used(k), v)
                              /\ entry' = [entry EXCEPT ![k] = e, ![v] = NoEntry]
    ELSE /\ older' = Used(k)
         /\ entry' = [entry EXCEPT ![k] = e]

Get(k) == /\ Has(k)
          /\ IF Dead(entry[k]) THEN Drop(k) ELSE Put(k, entry[k])
          /\ UNCHANGED now

\* Set, and SetIfNewer where it stores.
Set(k, e) == Put(k, e) /\ UNCHANGED now

Delete(k) == Has(k) /\ Drop(k) /\ UNCHANGED now

Tick == now' = now + 1 /\ UNCHANGED <<entry, older>>

Init == /\ now = 0
        /\ entry = [k \in Keys |-> NoEntry]
        /\ older = [k \in Keys |-> {}]

Next ==
    \/ Tick
    \/ \E k \in Keys : \/ Get(k) \/ Delete(k)
                       \/ entry'[k] # NoEntry /\ Set(k, entry'[k])

Spec == Init /\ [][Next]_vars
=============================================================================
