----------------------------- MODULE RedisStore -----------------------------
(***************************************************************************)
(* redisstore: the L2 tier over Redis.  One hash per key, written only by   *)
(* the two Lua scripts setCAS and compareAndDelete, each of which runs      *)
(* atomically on the server and mints the key's next version.               *)
(*                                                                          *)
(* Time is the server clock in milliseconds.  A hash with a PEXPIRE is gone *)
(* once the clock has passed it; Redis hides an expired key from every      *)
(* command, so expiry needs no action of its own.                           *)
(***************************************************************************)
EXTENDS Integers, Sequences

CONSTANTS Keys,
          Clients,        \* callers that read a version and later compare with it
          Values,
          NoVal,          \* the value field of a hash that has none
          ForceVersion,   \* store.ForceVersion
          Span,           \* versions per millisecond in the seed (1024)
          TTLFloor,       \* least PEXPIRE of a live entry, in ms (1000)
          TombstoneTTL,   \* WithTombstoneTTL in ms; 0: no PEXPIRE
          Lifetimes,      \* StaleUntil - now of the entries written, in ms
          MaxClock,       \* bound: the last millisecond explored
          MaxWrites       \* bound: writes per key explored

ASSUME SpanAssumption == Span \in Nat /\ Span > 1
ASSUME TTLAssumption == /\ TTLFloor \in Nat \ {0}
                        /\ TombstoneTTL \in Nat
                        /\ Lifetimes \subseteq Int
ASSUME ForceAssumption == ForceVersion \notin Nat

VARIABLES clock,   \* the Redis server's TIME, in ms
          hash,    \* hash[k]: the fields stored under k
          mints,   \* mints[k]: versions minted for k in this millisecond
          log,     \* history: every accepted write, as in VersionedStore
          held     \* held[c][k]: what c's last Load of k reported

vars == <<clock, hash, mints, log, held>>

-----------------------------------------------------------------------------
\* The hash of a key.  ver = 0: no such key; val: one value stands for the
\* fields val, sa, fu and su; a tombstone has ver and del only.
Hash == [ver : Nat, val : Values \cup {NoVal}, del : BOOLEAN, exp : Nat]

NoHash == [ver |-> 0, val |-> NoVal, del |-> FALSE, exp |-> 0]

\* What a command sees under k: nothing once the PEXPIRE has passed.
Stored(k) == IF hash[k].exp # 0 /\ clock > hash[k].exp THEN NoHash ELSE hash[k]

\* tonumber(HGET ver), as "cur or 0".
Cur(k) == Stored(k).ver

\* A seed from a clock too coarse for the expiry gap.
MintFromCoarseClock(k) == IF Cur(k) # 0 THEN Cur(k) + 1 ELSE (clock \div 4) * Span + 1

mint(k) == IF Cur(k) # 0 THEN Cur(k) + 1 ELSE clock * Span + 1

\* A retention without the floor: nothing left of the window, no PEXPIRE.
redisTTLNoFloor(life) == life

\* redisTTL: retain the entry until it is past StaleUntil, with a floor.
redisTTL(life) == IF life < TTLFloor THEN TTLFloor ELSE life

PExpire(ttl) == IF ttl > 0 THEN clock + ttl ELSE 0

\* The headroom the seed leaves: fewer than Span mints of a key per ms.
Headroom(k) == mints[k] + 1 < Span

\* The tail both scripts share: mint, replace the hash, set its expiry.
Store(k, val, del, expect, ttl) ==
    /\ Headroom(k) /\ Len(log[k]) < MaxWrites
    /\ hash' = [hash EXCEPT ![k] =
                  [ver |-> mint(k), val |-> val, del |-> del, exp |-> PExpire(ttl)]]
    /\ mints' = [mints EXCEPT ![k] = @ + 1]
    /\ log' = [log EXCEPT ![k] = Append(@,
                 [ver |-> mint(k), pay |-> val, del |-> del, expect |-> expect,
                  at |-> clock, exp |-> PExpire(ttl)])]
    /\ UNCHANGED <<clock, held>>

-----------------------------------------------------------------------------
\* A compare that treats an expected version of 0 as "don't care".
SetCASZeroWins(k, val, expect, life) ==
    /\ expect \notin {ForceVersion, 0} => Cur(k) = expect
    /\ Store(k, val, FALSE, expect, redisTTL(life))

SetCAS(k, val, expect, life) ==
    /\ expect # ForceVersion => Cur(k) = expect
    /\ Store(k, val, FALSE, expect, redisTTL(life))

\* A script that deletes the hash where it should leave a tombstone.
CompareAndErase(k, expect) ==
    /\ expect # ForceVersion => expect >= Cur(k)
    /\ Headroom(k) /\ Len(log[k]) < MaxWrites
    /\ hash' = [hash EXCEPT ![k] = NoHash]
    /\ log' = [log EXCEPT ![k] = Append(@,
                 [ver |-> mint(k), pay |-> NoVal, del |-> TRUE, expect |-> expect,
                  at |-> clock, exp |-> PExpire(TombstoneTTL)])]
    /\ UNCHANGED <<clock, mints, held>>

CompareAndDelete(k, expect) ==
    /\ expect # ForceVersion => expect >= Cur(k)
    /\ Store(k, NoVal, TRUE, expect, TombstoneTTL)

\* The version is reported for tombstones and absent keys (0) too.  nth is
\* history: which write of the key it was.
Load(c, k) ==
    /\ held' = [held EXCEPT ![c][k] = [ver |-> Cur(k), nth |-> Len(log[k])]]
    /\ UNCHANGED <<clock, hash, mints, log>>

Tick ==
    /\ clock < MaxClock
    /\ clock' = clock + 1
    /\ mints' = [k \in Keys |-> 0]
    /\ UNCHANGED <<hash, log, held>>

-----------------------------------------------------------------------------
Init ==
    /\ clock = 0
    /\ hash = [k \in Keys |-> NoHash]
    /\ mints = [k \in Keys |-> 0]
    /\ log = [k \in Keys |-> << >>]
    /\ held = [c \in Clients |-> [k \in Keys |-> [ver |-> 0, nth |-> 0]]]

Next ==
    \/ Tick
    \/ \E c \in Clients, k \in Keys :
          \/ Load(c, k)
          \/ \E expect \in {held[c][k].ver, ForceVersion} :
                \/ \E val \in Values, life \in Lifetimes : SetCAS(k, val, expect, life)
                \/ CompareAndDelete(k, expect)

Spec == Init /\ [][Next]_vars

-----------------------------------------------------------------------------
Write == [ver : Nat, pay : Values \cup {NoVal}, del : BOOLEAN,
          expect : Nat \cup {ForceVersion}, at : Nat, exp : Nat]

\* The types of the hashes, the log and what clients hold.
TypeOK ==
    /\ clock \in Nat
    /\ hash \in [Keys -> Hash]
    /\ mints \in [Keys -> 0..(Span - 1)]
    /\ log \in [Keys -> Seq(Write)]
    /\ held \in [Clients -> [Keys -> [ver : Nat, nth : Nat]]]

\* The versions of a key strictly increase over its whole history, the mints
\* after an expiry included: a fill that holds a pre-expiry version can never
\* meet that version again (versionSeedLua).
VersionsIncrease ==
    \A k \in Keys : \A m, n \in 1..Len(log[k]) :
        m < n => log[k][m].ver < log[k][n].ver

\* The key's last write has been retained as long as the script asked for: a
\* live entry for TTLFloor at least, a tombstone for TombstoneTTL (0: for good).
Outlived(k) ==
    LET w == log[k][Len(log[k])]
    IN  IF w.del
        THEN TombstoneTTL > 0 /\ clock > w.at + TombstoneTTL
        ELSE clock > w.at + TTLFloor

\* A version a caller read is refused once the key has been written since.
\* setCAS: a version other than 0 is never accepted again, not even after the
\* key expired and was seeded anew; the 0 of a miss is accepted again only when
\* the writes since then came and went, the last one after its full retention.
\* compareAndDelete, which accepts any version not below the stored one, has
\* that exception for every version.
NoABA ==
    \A c \in Clients, k \in Keys :
        LET h == held[c][k]
        IN  h.nth < Len(log[k]) =>
              /\ h.ver = Cur(k) => h.ver = 0 /\ Outlived(k)
              /\ h.ver >= Cur(k) => Outlived(k)

\* A live entry always carries a PEXPIRE, also when its window was over before
\* the write reached Redis: no entry outlives its deadlines for good (redisTTL).
LiveEntriesExpire ==
    \A k \in Keys : hash[k].ver # 0 /\ ~hash[k].del => hash[k].exp # 0

\* Redis implements the store contract the cache is written against.
VS == INSTANCE VersionedStore WITH now <- clock
ImplementsVersionedStore == VS!Spec
=============================================================================
