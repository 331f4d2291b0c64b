-------------------------- MODULE MemoryLRUProofs --------------------------
(***************************************************************************)
(* Proofs about MemoryLRU, for every set of keys, every hash, every capacity *)
(* and every number of shards asked for.                                    *)
(***************************************************************************)
EXTENDS MemoryLRU, FiniteSetTheorems, WellFoundedInduction, TLAPS

-----------------------------------------------------------------------------
(* The number of shards *)

\* A set of natural numbers has a least element.
LEMMA LeastNumber ==
    ASSUME NEW T, T \subseteq Nat, T # {}
    PROVE  \E m \in T : \A n \in T : m <= n
<1>1. IsWellFoundedOn(OpToRel(<, Nat), Nat)
  BY NatLessThanWellFounded, Zenon
<1>2. \E x \in T : \A y \in T : ~(<<y, x>> \in OpToRel(<, Nat))
  BY <1>1, WFMin, Zenon
<1>3. \E x \in T : \A y \in T : ~(y < x)
  BY <1>2, Zenon DEF OpToRel
<1> QED BY <1>3

\* An odd divisor of twice p divides p.
LEMMA OddDivisor ==
    ASSUME NEW p \in Nat, NEW d \in Nat \ {0}, (2 * p) % d = 0, d % 2 = 1
    PROVE  p % d = 0
<1> DEFINE q == (2 * p) \div d
           a == d \div 2
<1>1. q \in Nat /\ a \in Nat /\ 2 * p = d * q /\ d = 2 * a + 1
  OBVIOUS
<1> HIDE DEF q, a
<1>2. d * q = 2 * (a * q) + q /\ a * q \in Nat
  BY <1>1
<1>3. q = 2 * (p - a * q)
  BY <1>1, <1>2
<1> DEFINE r == p - a * q
<1>4. r \in Int /\ q = 2 * r
  BY <1>1, <1>2, <1>3
<1> HIDE DEF r
<1>5. r \in Nat /\ 2 * p = 2 * (d * r)
  BY <1>1, <1>4
<1>6. p = d * r
  BY <1>5
<1> QED BY <1>5, <1>6

\* Doubling a power of two.
LEMMA DoublePow2 ==
    ASSUME NEW p \in Nat \ {0}, IsPow2(p)
    PROVE  IsPow2(2 * p)
<1> SUFFICES ASSUME NEW d \in 2..(2 * p), (2 * p) % d = 0, d % 2 # 0 PROVE FALSE
  BY Zenon DEF IsPow2
<1>1. d % 2 = 1
  OBVIOUS
<1>2. p % d = 0
  <2>1. d \in Nat \ {0}
    OBVIOUS
  <2> QED BY <1>1, <2>1, OddDivisor, Zenon
<1>3. d <= p
  BY <1>2
<1>4. d \in 2..p
  BY <1>3
<1>5. d % 2 = 0
  BY <1>2, <1>4, Zenon DEF IsPow2
<1> QED BY <1>1, <1>5

\* From every n on there is a power of two below twice n.
LEMMA NextPow2 == \A n \in Nat \ {0} : \E p \in n..(2 * n - 1) : IsPow2(p)
<1> DEFINE Fails == {n \in Nat \ {0} : ~\E p \in n..(2 * n - 1) : IsPow2(p)}
<1> SUFFICES ASSUME Fails # {} PROVE FALSE
  BY Zenon
<1>1. PICK n \in Fails : \A m \in Fails : n <= m
  BY LeastNumber, Zenon
<1>2. n # 1
  <2>1. IsPow2(1)
    BY DEF IsPow2
  <2> QED BY <2>1
<1>3. PICK p \in (n - 1)..(2 * (n - 1) - 1) : IsPow2(p)
  <2>1. n - 1 \in Nat \ {0} /\ n - 1 \notin Fails
    BY <1>1, <1>2
  <2> QED BY <2>1, Zenon
<1>4. CASE p >= n
  BY <1>3, <1>4
<1>5. CASE p < n
  <2>1. p \in Nat \ {0} /\ 2 * p \in n..(2 * n - 1)
    BY <1>2, <1>3, <1>5
  <2> QED BY <1>3, <2>1, DoublePow2, Zenon
<1> QED BY <1>3, <1>4, <1>5

\* roundUpPow2 finds it.
LEMMA ShardCountType ==
    /\ ShardCount \in Nat \ {0} /\ IsPow2(ShardCount)
    /\ Requested >= 1 => Requested <= ShardCount /\ ShardCount < 2 * Requested
<1>0. Requested \in Int
  BY StoreAssumption, Zenon
<1>1. CASE Requested <= 1
  BY <1>0, <1>1 DEF ShardCount, roundUpPow2, IsPow2
<1>2. CASE Requested > 1
  <2>1. \E p \in Requested..(2 * Requested - 1) : IsPow2(p)
    BY <1>0, <1>2, NextPow2
  <2>2. ShardCount \in Requested..(2 * Requested - 1) /\ IsPow2(ShardCount)
    BY <1>0, <1>2, <2>1 DEF ShardCount, roundUpPow2
  <2> QED BY <1>0, <1>2, <2>2
<1> QED BY <1>0, <1>1, <1>2

\* The shares cover the capacity and exceed it by less than an entry per shard.
LEMMA PerShardType ==
    /\ PerShard \in Nat
    /\ Capacity > 0 => /\ PerShard > 0 /\ Capacity <= PerShard * ShardCount
                       /\ PerShard * ShardCount < Capacity + ShardCount
<1>0. Capacity \in Int /\ ShardCount \in Nat \ {0}
  BY StoreAssumption, ShardCountType, Zenon
<1>1. CASE Capacity <= 0
  BY <1>0, <1>1 DEF PerShard
<1>2. CASE Capacity > 0
  <2> DEFINE q == (Capacity + ShardCount - 1) \div ShardCount
  <2>1. /\ q \in Nat /\ ShardCount * q <= Capacity + ShardCount - 1
        /\ Capacity + ShardCount - 1 < ShardCount * q + ShardCount
    BY <1>0, <1>2
  <2>2. PerShard = IF q < 1 THEN 1 ELSE q
    BY <1>0, <1>2 DEF PerShard
  <2> HIDE DEF q
  <2>3. q >= 1
    <3> SUFFICES ASSUME q = 0 PROVE FALSE
      BY <2>1
    <3>1. ShardCount * q = 0
      BY <1>0
    <3> QED BY <1>0, <1>2, <2>1, <3>1
  <2>4. ShardCount * q = q * ShardCount
    BY <1>0, <2>1
  <2> QED BY <1>0, <1>2, <2>1, <2>2, <2>3, <2>4
<1> QED BY <1>0, <1>1, <1>2

\* Every key has a shard (shardFor).
LEMMA ShardOfType == ShardOf \in [Keys -> Shards]
<1>1. \A k \in Keys : HashOf[k] % ShardCount \in 0..(ShardCount - 1)
  BY StoreAssumption, ShardCountType
<1> QED BY <1>1, Zenon DEF ShardOf, Shards

-----------------------------------------------------------------------------
(* Lists *)

\* The ends of a list and the links of all nodes.
ListType == [head : Keys \cup {Nil}, tail : Keys \cup {Nil},
             prev : [Keys -> Keys \cup {Nil}], next : [Keys -> Keys \cup {Nil}]]

\* o is a strict order on S in which any two differ.
Order(S, o) ==
    \A k \in S : /\ o[k] \subseteq S \ {k}
                 /\ \A j \in o[k] : o[j] \subseteq o[k]
                 /\ \A j \in S \ {k} : j \in o[k] \/ k \in o[j]

\* The links of nodes out of S are the same.
SameLinks(l, m, S) ==
    \A j \in Keys \ S : l.prev[j] = m.prev[j] /\ l.next[j] = m.next[j]

\* An order without one of its keys is an order ...
LEMMA RemoveOrder ==
    ASSUME NEW S \in SUBSET Keys, NEW o \in [Keys -> SUBSET Keys], Order(S, o), NEW k \in S
    PROVE  Order(S \ {k}, Use(o, {}, k))
<1>1. \A j \in S \ {k} : Use(o, {}, k)[j] = o[j] \ {k}
  BY Zenon DEF Use
<1> QED BY <1>1 DEF Order

\* ... and with one more key, which is used last.
LEMMA InsertOrder ==
    ASSUME NEW S \in SUBSET Keys, NEW o \in [Keys -> SUBSET Keys], Order(S, o), NEW k \in Keys \ S
    PROVE  Order(S \cup {k}, Use(o, S, k))
<1>0. \A j \in S : k \notin o[j]
  BY Zenon DEF Order
<1>1. (\A j \in S : Use(o, S, k)[j] = o[j]) /\ Use(o, S, k)[k] = S
  BY <1>0, Zenon DEF Use
<1> QED BY <1>1, Zenon DEF Order

\* A use of a key is its removal and its insertion.
LEMMA UseTwice ==
    ASSUME NEW S \in SUBSET Keys, NEW o \in [Keys -> SUBSET Keys], NEW k \in Keys
    PROVE  Use(Use(o, {}, k), S \ {k}, k) = Use(o, S, k) /\ Use(o, S, k) \in [Keys -> SUBSET Keys]
BY Zenon DEF Use

\* What unlinkLocked makes of the ends and the links.
LEMMA UnlinkType ==
    ASSUME NEW l \in ListType, NEW k \in Keys
    PROVE  LET m == unlinkLocked(l, k)
               p == l.prev[k]
               n == l.next[k]
           IN  /\ m \in ListType
               /\ m.head = IF p = Nil THEN n ELSE l.head
               /\ m.tail = IF n = Nil THEN p ELSE l.tail
               /\ \A j \in Keys : /\ m.next[j] = IF j = p THEN n ELSE IF j = k THEN Nil ELSE l.next[j]
                                  /\ m.prev[j] = IF j = n THEN p ELSE IF j = k THEN Nil ELSE l.prev[j]
<1>1. /\ l.prev[k] \in Keys \cup {Nil} /\ l.next[k] \in Keys \cup {Nil}
      /\ l.head \in Keys \cup {Nil} /\ l.tail \in Keys \cup {Nil}
      /\ l.prev \in [Keys -> Keys \cup {Nil}] /\ l.next \in [Keys -> Keys \cup {Nil}]
  BY Zenon DEF ListType
<1> QED BY <1>1, Zenon DEF unlinkLocked, ListType

\* The neighbours of a node are p and n.
Between(l, S, o, k, p, n) ==
    /\ p # k /\ n # k
    /\ p = Nil => k = l.head
    /\ p # Nil => p \in S /\ k # l.head /\ l.next[p] = k /\ o[p] = o[k] \cup {k}
    /\ n = Nil => o[k] = {}
    /\ n # Nil => n \in S /\ n # l.head /\ l.prev[n] = k /\ o[k] = o[n] \cup {n}

\* Every node of a list has its place: first, last or between two others.
LEMMA Neighbours ==
    ASSUME NEW S \in SUBSET Keys, NEW o \in [Keys -> SUBSET Keys], Order(S, o),
           NEW l \in ListType, Lists(l, S, o), NEW k \in S
    PROVE  Between(l, S, o, k, l.prev[k], l.next[k])
<1> DEFINE p == l.prev[k]
           n == l.next[k]
<1>0. Nil \notin S
  BY StoreAssumption, Zenon
<1>1. (n = Nil <=> o[k] = {}) /\ (n # Nil => n \in S /\ l.prev[n] = k /\ o[k] = o[n] \cup {n})
  BY <1>0 DEF Lists
<1>2. n # k
  BY <1>0, <1>1, Zenon DEF Order
<1>3. S # {} /\ l.prev[l.head] = Nil /\ l.head \in S
  BY Zenon DEF Lists
<1>4. (p = Nil <=> k = l.head) /\ (p # Nil => p \in S /\ l.next[p] = k)
  BY <1>0, <1>3, Zenon DEF Lists
<1>5. p # Nil => o[p] = o[k] \cup {k}
  BY <1>0, <1>4, Zenon DEF Lists
<1>6. p # k
  BY <1>0, <1>2, <1>4, Zenon
<1>7. n # Nil => n # l.head
  BY <1>0, <1>1, <1>3, Zenon
<1> QED BY <1>1, <1>2, <1>4, <1>5, <1>6, <1>7, Zenon DEF Between

\* unlinkLocked takes the node out, at either end or between two others.
LEMMA UnlinkLists ==
    ASSUME NEW S \in SUBSET Keys, NEW o \in [Keys -> SUBSET Keys], Order(S, o),
           NEW l \in ListType, Lists(l, S, o), NEW k \in S
    PROVE  LET m == unlinkLocked(l, k)
           IN  /\ Lists(m, S \ {k}, Use(o, {}, k)) /\ m.prev[k] = Nil /\ m.next[k] = Nil
               /\ SameLinks(l, m, S)
<1> DEFINE m == unlinkLocked(l, k)
           p == l.prev[k]
           n == l.next[k]
           R == S \ {k}
           u == Use(o, {}, k)
<1>0. /\ m.head = IF p = Nil THEN n ELSE l.head
      /\ m.tail = IF n = Nil THEN p ELSE l.tail
      /\ \A j \in Keys : /\ m.next[j] = IF j = p THEN n ELSE IF j = k THEN Nil ELSE l.next[j]
                         /\ m.prev[j] = IF j = n THEN p ELSE IF j = k THEN Nil ELSE l.prev[j]
  BY UnlinkType
<1>1. /\ p # k /\ n # k
      /\ p = Nil => k = l.head
      /\ p # Nil => p \in S /\ k # l.head /\ l.next[p] = k /\ o[p] = o[k] \cup {k}
      /\ n = Nil => o[k] = {}
      /\ n # Nil => n \in S /\ n # l.head /\ l.prev[n] = k /\ o[k] = o[n] \cup {n}
  <2>1. Between(l, S, o, k, p, n)
    BY Neighbours, Zenon
  <2> QED BY <2>1, Zenon DEF Between
<1>2. \A j \in R : u[j] = o[j] \ {k}
  BY Zenon DEF Use
<1>3. /\ l.head \in S /\ o[l.head] = S \ {l.head} /\ l.prev[l.head] = Nil
      /\ l.tail \in S /\ o[l.tail] = {} /\ Nil \notin Keys
  BY StoreAssumption, Zenon DEF Lists
<1> HIDE DEF m, p, n, u
<1>4. IF R = {} THEN m.head = Nil /\ m.tail = Nil
      ELSE /\ m.head \in R /\ u[m.head] = R \ {m.head} /\ m.prev[m.head] = Nil
           /\ m.tail \in R /\ u[m.tail] = {}
  <2>1. CASE p = Nil /\ n = Nil
    <3>1. R = {}
      BY <1>1, <1>3, <2>1, Zenon
    <3> QED BY <1>0, <2>1, <3>1, Zenon
  <2>2. CASE p = Nil /\ n # Nil
    <3>1. R # {} /\ m.head = n /\ n \in R /\ m.tail = l.tail /\ l.tail # k
      BY <1>0, <1>1, <1>3, <2>2, Zenon
    <3>2. m.prev[n] = Nil
      BY <1>0, <2>2, <3>1, Zenon
    <3>3. o[n] = S \ {k, n}
      BY <1>1, <1>3, <2>2, Zenon DEF Order
    <3> QED BY <1>2, <1>3, <3>1, <3>2, <3>3
  <2>3. CASE p # Nil /\ n = Nil
    <3>1. R # {} /\ m.head = l.head /\ l.head \in R /\ m.tail = p /\ p \in R
      BY <1>0, <1>1, <1>3, <2>3, Zenon
    <3>2. m.prev[l.head] = Nil
      BY <1>0, <1>3, <2>3, <3>1, Zenon
    <3> QED BY <1>1, <1>2, <1>3, <2>3, <3>1, <3>2
  <2>4. CASE p # Nil /\ n # Nil
    <3>1. R # {} /\ m.head = l.head /\ l.head \in R /\ m.tail = l.tail /\ l.tail \in R
      BY <1>0, <1>1, <1>3, <2>4, Zenon
    <3>2. m.prev[l.head] = Nil
      BY <1>0, <1>1, <1>3, <2>4, <3>1, Zenon
    <3> QED BY <1>2, <1>3, <3>1, <3>2
  <2> QED BY <2>1, <2>2, <2>3, <2>4, Zenon
<1>5. ASSUME NEW j \in R
      PROVE  IF u[j] = {} THEN m.next[j] = Nil
             ELSE m.next[j] \in R /\ m.prev[m.next[j]] = j /\ u[j] = u[m.next[j]] \cup {m.next[j]}
  <2> DEFINE x == l.next[j]
  <2>0. /\ x # j
        /\ x = Nil => o[j] = {}
        /\ x # Nil => x \in S /\ l.prev[x] = j /\ o[j] = o[x] \cup {x}
    <3>1. Between(l, S, o, j, l.prev[j], x)
      BY Neighbours, Zenon
    <3> QED BY <3>1, Zenon DEF Between
  <2> HIDE DEF x
  <2>1. CASE j = p
    <3>1. m.next[j] = n /\ u[j] = o[k] /\ j # Nil
      <4>1. j # Nil /\ o[j] = o[k] \cup {k} /\ k \notin o[k]
        BY <1>1, <1>3, <2>1 DEF Order
      <4>2. m.next[j] = n
        BY <1>0, <2>1, Zenon
      <4>3. o[j] \ {k} = o[k]
        BY <4>1, Zenon
      <4> QED BY <1>2, <4>1, <4>2, <4>3, Zenon
    <3>2. n # Nil => n \in R /\ m.prev[n] = j /\ u[n] = o[n]
      <4> SUFFICES ASSUME n # Nil PROVE n \in R /\ m.prev[n] = j /\ u[n] = o[n]
        BY Zenon
      <4>1. n \in R /\ k \notin o[n]
        BY <1>1, Zenon DEF Order
      <4>2. m.prev[n] = j
        BY <1>0, <2>1, <4>1, Zenon
      <4>3. o[n] \ {k} = o[n]
        BY <4>1, Zenon
      <4> QED BY <1>2, <4>1, <4>2, <4>3, Zenon
    <3> QED BY <1>1, <3>1, <3>2, Zenon
  <2>2. CASE j # p
    <3>1. m.next[j] = x /\ x # k
      <4>1. m.next[j] = x
        BY <1>0, <2>2, Zenon DEF x
      <4>2. x = k => j = p
        BY <1>3, <2>0, Zenon DEF p
      <4> QED BY <2>2, <4>1, <4>2, Zenon
    <3>2. CASE x = Nil
      BY <1>2, <2>0, <3>1, <3>2, Zenon
    <3>3. CASE x # Nil
      <4>1. x \in R /\ x # n
        BY <1>1, <1>3, <2>0, <3>1, <3>3, Zenon
      <4>2. m.prev[x] = j
        BY <1>0, <2>0, <3>3, <4>1, Zenon
      <4>3. u[j] = u[x] \cup {x}
        BY <1>2, <2>0, <3>1, <3>3, <4>1, Zenon
      <4> QED BY <3>1, <4>1, <4>2, <4>3, Zenon
    <3> QED BY <3>2, <3>3, Zenon
  <2> QED BY <2>1, <2>2, Zenon
<1>6. ASSUME NEW j \in R \ {m.head} PROVE m.prev[j] \in R /\ m.next[m.prev[j]] = j
  <2> DEFINE y == l.prev[j]
  <2>0. (y = Nil => j = l.head) /\ (y # Nil => y \in S /\ l.next[y] = j)
    <3>1. Between(l, S, o, j, y, l.next[j])
      BY Neighbours, Zenon
    <3> QED BY <3>1, Zenon DEF Between
  <2> HIDE DEF y
  <2>1. CASE j = n
    <3>1. p # Nil
      BY <1>0, <1>6, <2>1, Zenon
    <3> QED BY <1>0, <1>1, <2>1, <3>1, Zenon
  <2>2. CASE j # n
    <3>1. m.prev[j] = y
      BY <1>0, <2>2, Zenon DEF y
    <3>2. y # Nil
      BY <1>0, <1>1, <1>6, <2>0, <2>2, Zenon
    <3>3. y # k
      BY <2>0, <2>2, <3>2, Zenon DEF n
    <3>4. y \in R /\ m.next[y] = j
      <4>1. y # p
        BY <1>1, <2>0, <3>2, Zenon
      <4> QED BY <1>0, <2>0, <3>2, <3>3, <4>1, Zenon
    <3> QED BY <3>1, <3>4, Zenon
  <2> QED BY <2>1, <2>2, Zenon
<1>7. m.prev[k] = Nil /\ m.next[k] = Nil
  BY <1>0, <1>1, Zenon
<1>8. SameLinks(l, m, S)
  BY <1>0, <1>1, <1>3 DEF SameLinks
<1>9. Lists(m, R, u)
  BY <1>4, <1>5, <1>6, Zenon DEF Lists
<1> QED BY <1>7, <1>8, <1>9, Zenon DEF m, u

\* What pushFrontLocked makes of the ends and the links.
LEMMA PushType ==
    ASSUME NEW l \in ListType, NEW k \in Keys
    PROVE  LET m == pushFrontLocked(l, k)
           IN  /\ m \in ListType /\ m.head = k
               /\ m.tail = IF l.tail = Nil THEN k ELSE l.tail
               /\ \A j \in Keys : /\ m.next[j] = IF j = k THEN l.head ELSE l.next[j]
                                  /\ m.prev[j] = IF j = k THEN Nil ELSE IF j = l.head THEN k ELSE l.prev[j]
<1>1. /\ l.head \in Keys \cup {Nil} /\ l.tail \in Keys \cup {Nil}
      /\ l.prev \in [Keys -> Keys \cup {Nil}] /\ l.next \in [Keys -> Keys \cup {Nil}]
  BY Zenon DEF ListType
<1> QED BY <1>1, Zenon DEF pushFrontLocked, ListType

\* pushFrontLocked puts a new node before the others.
LEMMA PushLists ==
    ASSUME NEW S \in SUBSET Keys, NEW o \in [Keys -> SUBSET Keys], Order(S, o),
           NEW l \in ListType, Lists(l, S, o), NEW k \in Keys \ S
    PROVE  LET m == pushFrontLocked(l, k)
           IN  Lists(m, S \cup {k}, Use(o, S, k)) /\ SameLinks(l, m, S \cup {k})
<1> DEFINE m == pushFrontLocked(l, k)
           R == S \cup {k}
           u == Use(o, S, k)
<1>0. /\ m.head = k
      /\ m.tail = IF l.tail = Nil THEN k ELSE l.tail
      /\ \A j \in Keys : /\ m.next[j] = IF j = k THEN l.head ELSE l.next[j]
                         /\ m.prev[j] = IF j = k THEN Nil ELSE IF j = l.head THEN k ELSE l.prev[j]
  BY PushType
<1>1. (\A j \in S : u[j] = o[j]) /\ u[k] = S
  <2>1. \A j \in S : k \notin o[j]
    BY Zenon DEF Order
  <2> QED BY <2>1, Zenon DEF Use
<1> HIDE DEF m, u
<1>2. Nil \notin Keys
  BY StoreAssumption, Zenon
<1>3. CASE S = {}
  <2>1. l.head = Nil /\ l.tail = Nil
    BY <1>3, Zenon DEF Lists
  <2>2. Lists(m, R, u)
    BY <1>0, <1>1, <1>3, <2>1 DEF Lists
  <2>3. SameLinks(l, m, R)
    BY <1>0, <1>2, <2>1 DEF SameLinks
  <2> QED BY <2>2, <2>3, Zenon DEF m, u
<1>4. CASE S # {}
  <2>0. /\ l.head \in S /\ o[l.head] = S \ {l.head} /\ l.prev[l.head] = Nil
        /\ l.tail \in S /\ o[l.tail] = {}
    BY <1>4, Zenon DEF Lists
  <2>1. /\ m.head \in R /\ u[m.head] = R \ {m.head} /\ m.prev[m.head] = Nil
        /\ m.tail \in R /\ u[m.tail] = {}
    BY <1>0, <1>1, <1>2, <2>0
  <2>2. ASSUME NEW j \in S
        PROVE  IF u[j] = {} THEN m.next[j] = Nil
               ELSE m.next[j] \in R /\ m.prev[m.next[j]] = j /\ u[j] = u[m.next[j]] \cup {m.next[j]}
    <3> DEFINE x == l.next[j]
    <3>0. /\ x = Nil => o[j] = {}
          /\ x # Nil => x \in S /\ x # l.head /\ l.prev[x] = j /\ o[j] = o[x] \cup {x}
      <4>1. Between(l, S, o, j, l.prev[j], x)
        BY Neighbours, Zenon
      <4> QED BY <4>1, Zenon DEF Between
    <3>1. m.next[j] = x
      BY <1>0, Zenon
    <3> HIDE DEF x
    <3>2. CASE x = Nil
      BY <1>1, <3>0, <3>1, <3>2, Zenon
    <3>3. CASE x # Nil
      <4>1. m.prev[x] = j
        BY <1>0, <3>0, <3>3, Zenon
      <4>2. u[j] = u[x] \cup {x}
        BY <1>1, <3>0, <3>3, Zenon
      <4> QED BY <3>0, <3>1, <3>3, <4>1, <4>2, Zenon
    <3> QED BY <3>2, <3>3, Zenon
  <2>3. m.next[k] \in R /\ m.prev[m.next[k]] = k /\ u[k] = u[m.next[k]] \cup {m.next[k]} /\ u[k] # {}
    BY <1>0, <1>1, <1>4, <2>0
  <2>4. ASSUME NEW j \in S PROVE m.prev[j] \in R /\ m.next[m.prev[j]] = j
    <3>1. CASE j = l.head
      BY <1>0, <3>1, Zenon
    <3>2. CASE j # l.head
      <4>1. l.prev[j] \in S /\ l.next[l.prev[j]] = j
        BY <3>2, Zenon DEF Lists
      <4>2. m.prev[j] = l.prev[j]
        BY <1>0, <3>2, Zenon
      <4>3. m.next[l.prev[j]] = j
        BY <1>0, <4>1, Zenon
      <4> QED BY <4>1, <4>2, <4>3, Zenon
    <3> QED BY <3>1, <3>2, Zenon
  <2>5. Lists(m, R, u)
    BY <1>0, <2>1, <2>2, <2>3, <2>4 DEF Lists
  <2>6. SameLinks(l, m, R)
    BY <1>0, <2>0, Zenon DEF SameLinks
  <2> QED BY <2>5, <2>6 DEF m, u
<1> QED BY <1>3, <1>4, Zenon

\* A list depends on the order of its own nodes only.
LEMMA SameOrder ==
    ASSUME NEW S \in SUBSET Keys, NEW o \in [Keys -> SUBSET Keys], NEW u \in [Keys -> SUBSET Keys],
           \A j \in S : u[j] = o[j],
           NEW l, Lists(l, S, o), Order(S, o)
    PROVE  Lists(l, S, u) /\ Order(S, u)
<1>1. Order(S, u)
  BY Zenon DEF Order
<1>2. Lists(l, S, u)
  BY DEF Lists
<1> QED BY <1>1, <1>2, Zenon

\* moveToFrontLocked makes the node the last one used.
LEMMA MoveToFront ==
    ASSUME NEW S \in SUBSET Keys, NEW o \in [Keys -> SUBSET Keys], Order(S, o),
           NEW l \in ListType, Lists(l, S, o), NEW k \in S
    PROVE  LET m == moveToFrontLocked(l, k)
           IN  /\ m \in ListType /\ Lists(m, S, Use(o, S, k)) /\ Order(S, Use(o, S, k))
               /\ SameLinks(l, m, S)
<1> DEFINE u == Use(o, S, k)
<1>0. u \in [Keys -> SUBSET Keys]
  BY UseTwice, Zenon
<1>1. CASE l.head = k
  <2>1. \A j \in S : u[j] = o[j]
    <3>1. o[k] = S \ {k}
      BY <1>1, Zenon DEF Lists
    <3>2. \A j \in S \ {k} : k \notin o[j]
      BY <3>1, Zenon DEF Order
    <3>3. u[k] = o[k]
      BY <3>1, Zenon DEF Use
    <3>4. \A j \in S \ {k} : u[j] = o[j] \ {k}
      BY Zenon DEF Use
    <3>5. \A j \in S \ {k} : o[j] \ {k} = o[j]
      BY <3>2, Zenon
    <3> QED BY <3>3, <3>4, <3>5, Zenon
  <2>2. Lists(l, S, u) /\ Order(S, u)
    BY <1>0, <2>1, SameOrder, Zenon
  <2>3. moveToFrontLocked(l, k) = l
    BY <1>1, Zenon DEF moveToFrontLocked
  <2> QED BY <2>2, <2>3, Zenon DEF SameLinks
<1>2. CASE l.head # k
  <2> DEFINE m == unlinkLocked(l, k)
             v == Use(o, {}, k)
             r == pushFrontLocked(m, k)
  <2>1. m \in ListType /\ Lists(m, S \ {k}, v) /\ SameLinks(l, m, S)
    BY UnlinkType, UnlinkLists, Zenon
  <2>2. v \in [Keys -> SUBSET Keys] /\ Order(S \ {k}, v) /\ Use(v, S \ {k}, k) = u
    BY RemoveOrder, UseTwice
  <2>3. (S \ {k}) \cup {k} = S /\ k \in Keys \ (S \ {k})
    BY Zenon
  <2>4. moveToFrontLocked(l, k) = r
    BY <1>2, Zenon DEF moveToFrontLocked
  <2> HIDE DEF m, v, u
  <2>5. r \in ListType
    BY <2>1, PushType, Zenon
  <2>6. Lists(r, S, u) /\ SameLinks(m, r, S)
    <3> DEFINE T == S \ {k}
    <3>1. /\ T \in SUBSET Keys /\ k \in Keys \ T /\ T \cup {k} = S
          /\ Lists(m, T, v) /\ Order(T, v) /\ Use(v, T, k) = u
      BY <2>1, <2>2, <2>3, Zenon
    <3> HIDE DEF T
    <3>2. Lists(r, T \cup {k}, Use(v, T, k)) /\ SameLinks(m, r, T \cup {k})
      BY <2>1, <2>2, <3>1, PushLists, Zenon
    <3> QED BY <3>1, <3>2, Zenon
  <2>7. Order(S, u)
    BY <2>2, <2>3, InsertOrder
  <2>8. SameLinks(l, r, S)
    BY <2>1, <2>6, Zenon DEF SameLinks
  <2> QED BY <2>4, <2>5, <2>6, <2>7, <2>8, Zenon DEF u
<1> QED BY <1>1, <1>2, Zenon

-----------------------------------------------------------------------------
(* The invariant *)

\* The uses of the keys of a shard are ordered, and they are finitely many.
Shelved(s) == Order(Stored(s), older) /\ IsFiniteSet(Stored(s))

\* The inductive invariant: types, lists and shares, and that the history orders
\* the keys of every shard.
LRUInv == TypeOK /\ ListMatchesMap /\ WithinShare /\ \A s \in Shards : Shelved(s)

\* The empty store satisfies the invariant.
LEMMA LRUInit == Init => LRUInv
<1> SUFFICES ASSUME Init PROVE LRUInv
  BY Zenon
<1>1. \A s \in Shards : Stored(s) = {} /\ head[s] = Nil /\ tail[s] = Nil
  BY Zenon DEF Init, Stored, Has
<1>2. TypeOK
  BY StoreAssumption DEF Init, TypeOK
<1>3. ListMatchesMap
  BY <1>1, Zenon DEF Init, ListMatchesMap, Lists, List
<1>4. IsFiniteSet({}) /\ Cardinality({}) = 0
  BY FS_EmptySet, Zenon
<1>5. WithinShare
  BY <1>1, <1>4, PerShardType DEF WithinShare, Size
<1>6. \A s \in Shards : Shelved(s)
  BY <1>1, <1>4, Zenon DEF Shelved, Order
<1> QED BY <1>2, <1>3, <1>5, <1>6, Zenon DEF LRUInv

\* Lists with the same ends and links.
LEMMA SameLists ==
    ASSUME NEW S \in SUBSET Keys, NEW o, NEW l, NEW m, Lists(l, S, o),
           l.head = m.head, l.tail = m.tail,
           \A j \in S : l.prev[j] = m.prev[j] /\ l.next[j] = m.next[j]
    PROVE  Lists(m, S, o)
<1>1. IF S = {} THEN m.head = Nil /\ m.tail = Nil
      ELSE /\ m.head \in S /\ o[m.head] = S \ {m.head} /\ m.prev[m.head] = Nil
           /\ m.tail \in S /\ o[m.tail] = {}
  BY DEF Lists
<1>2. \A k \in S : IF o[k] = {} THEN m.next[k] = Nil
                   ELSE m.next[k] \in S /\ m.prev[m.next[k]] = k /\ o[k] = o[m.next[k]] \cup {m.next[k]}
  BY DEF Lists
<1>3. \A k \in S \ {m.head} : m.prev[k] \in S /\ m.next[m.prev[k]] = k
  BY DEF Lists
<1> QED BY <1>1, <1>2, <1>3, Zenon DEF Lists

\* The list of a shard has the type of a list.
LEMMA ListOfType ==
    ASSUME TypeOK, NEW s \in Shards
    PROVE  List(s) \in ListType
BY Zenon DEF TypeOK, List, ListType

\* A step that gives shard s the keys R, the list m and the order u, and leaves
\* the other shards alone.
ShardTakes(s, R, m, u) ==
    /\ R \subseteq {k \in Keys : ShardOf[k] = s} /\ m \in ListType /\ u \in [Keys -> SUBSET Keys]
    /\ items' \in [Keys -> Entry \cup {NoEntry}]
    /\ \A j \in Keys : IF ShardOf[j] = s THEN items'[j] # NoEntry <=> j \in R ELSE items'[j] = items[j]
    /\ Relink(s, m) /\ older' = u
    /\ Lists(m, R, u) /\ Order(R, u)
    /\ \A j \in Keys : ShardOf[j] # s => /\ m.prev[j] = prev[j] /\ m.next[j] = next[j]
                                         /\ \E k \in Keys, v \in Keys :
                                               /\ ShardOf[k] = s /\ ShardOf[v] = s
                                               /\ u[j] = older[j] \ {k, v}
    /\ \A j \in Keys \ R : ShardOf[j] = s => m.prev[j] = Nil /\ m.next[j] = Nil
    /\ IsFiniteSet(R) /\ (PerShard > 0 => Cardinality(R) <= PerShard)

\* Such a step keeps the invariant, in that shard and in the others.
LEMMA ShardStep ==
    ASSUME LRUInv, NEW s \in Shards, NEW R, NEW m, NEW u, ShardTakes(s, R, m, u),
           now' \in 0..MaxTime, evictions' \in 0..MaxEvictions
    PROVE  LRUInv'
<1>0. /\ R \subseteq {k \in Keys : ShardOf[k] = s} /\ m \in ListType /\ u \in [Keys -> SUBSET Keys]
      /\ items' \in [Keys -> Entry \cup {NoEntry}]
      /\ \A j \in Keys : IF ShardOf[j] = s THEN items'[j] # NoEntry <=> j \in R ELSE items'[j] = items[j]
      /\ head' = [head EXCEPT ![s] = m.head] /\ tail' = [tail EXCEPT ![s] = m.tail]
      /\ prev' = m.prev /\ next' = m.next /\ older' = u
      /\ Lists(m, R, u) /\ Order(R, u)
  BY Zenon DEF ShardTakes, Relink
<1>1. TypeOK'
  <2>1. /\ m.head \in Keys \cup {Nil} /\ m.tail \in Keys \cup {Nil}
        /\ m.prev \in [Keys -> Keys \cup {Nil}] /\ m.next \in [Keys -> Keys \cup {Nil}]
    BY <1>0, Zenon DEF ListType
  <2> QED BY <1>0, <2>1, Zenon DEF LRUInv, TypeOK
<1>2. Stored(s)' = R /\ \A t \in Shards \ {s} : Stored(t)' = Stored(t)
  BY <1>0, Zenon DEF Stored, Has
<1>3. List(s)' = [head |-> m.head, tail |-> m.tail, prev |-> m.prev, next |-> m.next]
  BY <1>0, Zenon DEF List, LRUInv, TypeOK
<1>4. Lists(List(s)', R, u)
  BY <1>0, <1>3, SameLists, Zenon
<1>5. ASSUME NEW t \in Shards \ {s}
      PROVE  Lists(List(t)', Stored(t), u) /\ Order(Stored(t), u)
  <2>1. /\ Stored(t) \subseteq Keys /\ Lists(List(t), Stored(t), older) /\ Order(Stored(t), older)
        /\ \A j \in Stored(t) : j \in Keys /\ ShardOf[j] = t
    BY Zenon DEF LRUInv, ListMatchesMap, Shelved, Stored
  <2>2. ASSUME NEW j \in Stored(t) PROVE u[j] = older[j] /\ m.prev[j] = prev[j] /\ m.next[j] = next[j]
    <3>1. /\ m.prev[j] = prev[j] /\ m.next[j] = next[j]
          /\ \E k \in Keys, v \in Keys : /\ ShardOf[k] = s /\ ShardOf[v] = s
                                         /\ u[j] = older[j] \ {k, v}
      BY <2>1, Zenon DEF ShardTakes
    <3>2. older[j] \subseteq Stored(t)
      BY <2>1, Zenon DEF Order
    <3> QED BY <2>1, <3>1, <3>2, Zenon
  <2>3. /\ List(t).head = List(t)'.head /\ List(t).tail = List(t)'.tail
        /\ List(t).prev = prev /\ List(t).next = next /\ List(t)'.prev = m.prev /\ List(t)'.next = m.next
    BY <1>0, Zenon DEF List, LRUInv, TypeOK
  <2>4. Lists(List(t), Stored(t), u) /\ Order(Stored(t), u)
    <3>1. older \in [Keys -> SUBSET Keys]
      BY Zenon DEF LRUInv, TypeOK
    <3> QED BY <1>0, <2>1, <2>2, <3>1, SameOrder, Zenon
  <2>5. \A j \in Stored(t) : List(t).prev[j] = List(t)'.prev[j] /\ List(t).next[j] = List(t)'.next[j]
    BY <2>2, <2>3, Zenon
  <2>6. Lists(List(t)', Stored(t), u)
    BY <2>1, <2>3, <2>4, <2>5, SameLists, Zenon
  <2> QED BY <2>4, <2>6, Zenon
<1>6. ListMatchesMap'
  <2>1. \A t \in Shards : Lists(List(t)', Stored(t)', older')
    BY <1>0, <1>2, <1>4, <1>5, Zenon
  <2>2. ASSUME NEW j \in Keys, items'[j] = NoEntry PROVE prev'[j] = Nil /\ next'[j] = Nil
    <3>1. CASE ShardOf[j] = s
      BY <1>0, <2>2, <3>1, Zenon DEF ShardTakes
    <3>2. CASE ShardOf[j] # s
      <4>1. items[j] = NoEntry
        BY <1>0, <2>2, <3>2, Zenon
      <4>2. prev[j] = Nil /\ next[j] = Nil
        BY <4>1, Zenon DEF LRUInv, ListMatchesMap, Has
      <4> QED BY <1>0, <3>2, <4>2, Zenon DEF ShardTakes
    <3> QED BY <3>1, <3>2, Zenon
  <2> QED BY <2>1, <2>2, Zenon DEF ListMatchesMap, Has
<1>7. WithinShare'
  <2>1. PerShard > 0 => Cardinality(R) <= PerShard
    BY Zenon DEF ShardTakes
  <2> QED BY <1>2, <2>1, Zenon DEF LRUInv, WithinShare, Size
<1>8. \A t \in Shards : Shelved(t)'
  <2>1. IsFiniteSet(R)
    BY Zenon DEF ShardTakes
  <2>2. \A t \in Shards : IsFiniteSet(Stored(t)')
    BY <1>2, <2>1, Zenon DEF LRUInv, Shelved
  <2>3. \A t \in Shards : Order(Stored(t)', older')
    BY <1>0, <1>2, <1>5, Zenon
  <2> QED BY <2>2, <2>3, Zenon DEF Shelved
<1> QED BY <1>1, <1>6, <1>7, <1>8, Zenon DEF LRUInv

\* What is known of the shard of a key.
LEMMA ShardFacts ==
    ASSUME LRUInv, NEW k \in Keys
    PROVE  LET s == ShardOf[k]
               S == Stored(s)
           IN  /\ s \in Shards /\ S \in SUBSET Keys /\ (k \in S <=> Has(k))
               /\ S \subseteq {j \in Keys : ShardOf[j] = s}
               /\ older \in [Keys -> SUBSET Keys] /\ items \in [Keys -> Entry \cup {NoEntry}]
               /\ Order(S, older) /\ List(s) \in ListType /\ Lists(List(s), S, older)
               /\ List(s).prev = prev /\ List(s).next = next /\ List(s).tail = tail[s]
               /\ IsFiniteSet(S) /\ Size(s) = Cardinality(S) /\ Size(s) \in Nat
               /\ PerShard > 0 => Size(s) <= PerShard
               /\ \A j \in Keys \ S : ShardOf[j] = s => prev[j] = Nil /\ next[j] = Nil
               /\ \A j \in Keys : ShardOf[j] = s => (items[j] # NoEntry <=> j \in S)
<1> DEFINE s == ShardOf[k]
           S == Stored(s)
<1>1. s \in Shards
  BY ShardOfType, Zenon
<1>2. S \in SUBSET Keys /\ (k \in S <=> Has(k)) /\ S \subseteq {j \in Keys : ShardOf[j] = s}
  BY Zenon DEF Stored
<1>3. /\ older \in [Keys -> SUBSET Keys] /\ items \in [Keys -> Entry \cup {NoEntry}]
      /\ Order(S, older) /\ List(s) \in ListType /\ Lists(List(s), S, older)
      /\ List(s).prev = prev /\ List(s).next = next /\ List(s).tail = tail[s]
  <2>1. List(s) \in ListType
    BY <1>1, ListOfType, Zenon DEF LRUInv
  <2>2. List(s).prev = prev /\ List(s).next = next /\ List(s).tail = tail[s]
    BY Zenon DEF List
  <2> QED BY <1>1, <2>1, <2>2, Zenon DEF LRUInv, TypeOK, ListMatchesMap, Shelved
<1>4. IsFiniteSet(S) /\ Size(s) = Cardinality(S) /\ (PerShard > 0 => Size(s) <= PerShard)
  BY <1>1, Zenon DEF LRUInv, Shelved, WithinShare, Size
<1>5. Size(s) \in Nat
  BY <1>4, FS_CardinalityType, Zenon
<1>6. \A j \in Keys \ S : ShardOf[j] = s => prev[j] = Nil /\ next[j] = Nil
  BY Zenon DEF LRUInv, ListMatchesMap, Stored
<1>7. \A j \in Keys : ShardOf[j] = s => (items[j] # NoEntry <=> j \in S)
  BY Zenon DEF Stored, Has
<1> QED BY <1>1, <1>2, <1>3, <1>4, <1>5, <1>6, <1>7, Zenon

\* A key is removed from its shard.
LEMMA RemoveStep ==
    ASSUME LRUInv, NEW k \in Keys, Has(k), removeLocked(k)
    PROVE  ShardTakes(ShardOf[k], Stored(ShardOf[k]) \ {k},
                      unlinkLocked(List(ShardOf[k]), k), Use(older, {}, k))
<1> DEFINE s == ShardOf[k]
           S == Stored(s)
           m == unlinkLocked(List(s), k)
           u == Use(older, {}, k)
<1>0. /\ S \in SUBSET Keys /\ k \in S /\ S \subseteq {j \in Keys : ShardOf[j] = s}
      /\ older \in [Keys -> SUBSET Keys] /\ items \in [Keys -> Entry \cup {NoEntry}]
      /\ Order(S, older) /\ List(s) \in ListType /\ Lists(List(s), S, older)
      /\ List(s).prev = prev /\ List(s).next = next
      /\ IsFiniteSet(S) /\ Size(s) = Cardinality(S) /\ Size(s) \in Nat
      /\ PerShard > 0 => Size(s) <= PerShard
      /\ \A j \in Keys \ S : ShardOf[j] = s => prev[j] = Nil /\ next[j] = Nil
      /\ \A j \in Keys : ShardOf[j] = s => (items[j] # NoEntry <=> j \in S)
  BY ShardFacts, Zenon
<1>1. /\ items' = [items EXCEPT ![k] = NoEntry] /\ Relink(s, m) /\ older' = u
  BY Zenon DEF removeLocked
<1> HIDE DEF S
<1>2. m \in ListType /\ Lists(m, S \ {k}, u) /\ m.prev[k] = Nil /\ m.next[k] = Nil /\ SameLinks(List(s), m, S)
  <2>1. m \in ListType
    BY <1>0, UnlinkType, Zenon
  <2> QED BY <1>0, <2>1, UnlinkLists, Zenon
<1>3. u \in [Keys -> SUBSET Keys] /\ Order(S \ {k}, u) /\ \A j \in Keys \ {k} : u[j] = older[j] \ {k}
  <2>1. \A j \in Keys \ {k} : u[j] = older[j] \ {k}
    BY Zenon DEF Use
  <2> QED BY <1>0, <2>1, UseTwice, RemoveOrder, Zenon
<1>4. IsFiniteSet(S \ {k}) /\ Cardinality(S \ {k}) = Cardinality(S) - 1
  BY <1>0, FS_RemoveElement, Zenon
<1> HIDE DEF m, u
<1>5. \A j \in Keys \ S : m.prev[j] = prev[j] /\ m.next[j] = next[j]
  BY <1>0, <1>2, Zenon DEF SameLinks
<1>6. /\ items' \in [Keys -> Entry \cup {NoEntry}]
      /\ \A j \in Keys : IF ShardOf[j] = s THEN items'[j] # NoEntry <=> j \in S \ {k} ELSE items'[j] = items[j]
  BY <1>0, <1>1, Zenon
<1>7. \A j \in Keys : ShardOf[j] # s => /\ m.prev[j] = prev[j] /\ m.next[j] = next[j]
                                        /\ \E h \in Keys, v \in Keys :
                                              /\ ShardOf[h] = s /\ ShardOf[v] = s
                                              /\ u[j] = older[j] \ {h, v}
  <2> SUFFICES ASSUME NEW j \in Keys, ShardOf[j] # s
               PROVE  /\ m.prev[j] = prev[j] /\ m.next[j] = next[j]
                      /\ u[j] = older[j] \ {k, k}
    BY Zenon
  <2>1. j \notin S /\ j # k
    BY <1>0, Zenon
  <2> QED BY <1>3, <1>5, <2>1, Zenon
<1>8. \A j \in Keys \ (S \ {k}) : ShardOf[j] = s => m.prev[j] = Nil /\ m.next[j] = Nil
  BY <1>0, <1>2, <1>5, Zenon
<1>9. PerShard > 0 => Cardinality(S \ {k}) <= PerShard
  BY <1>0, <1>4, PerShardType
<1> QED BY <1>0, <1>1, <1>2, <1>3, <1>4, <1>6, <1>7, <1>8, <1>9, Zenon DEF ShardTakes, S, m, u

\* A key that is there is used.
LEMMA ReplaceStep ==
    ASSUME LRUInv, NEW k \in Keys, Has(k), NEW e \in Entry, Replace(k, e)
    PROVE  ShardTakes(ShardOf[k], Stored(ShardOf[k]),
                      moveToFrontLocked(List(ShardOf[k]), k), Use(older, Stored(ShardOf[k]), k))
<1> DEFINE s == ShardOf[k]
           S == Stored(s)
           m == moveToFrontLocked(List(s), k)
           u == Use(older, S, k)
<1>0. /\ S \in SUBSET Keys /\ k \in S /\ S \subseteq {j \in Keys : ShardOf[j] = s}
      /\ older \in [Keys -> SUBSET Keys] /\ items \in [Keys -> Entry \cup {NoEntry}]
      /\ Order(S, older) /\ List(s) \in ListType /\ Lists(List(s), S, older)
      /\ List(s).prev = prev /\ List(s).next = next
      /\ IsFiniteSet(S) /\ Size(s) = Cardinality(S)
      /\ PerShard > 0 => Size(s) <= PerShard
      /\ \A j \in Keys \ S : ShardOf[j] = s => prev[j] = Nil /\ next[j] = Nil
      /\ \A j \in Keys : ShardOf[j] = s => (items[j] # NoEntry <=> j \in S)
  BY ShardFacts, Zenon
<1>1. /\ items' = [items EXCEPT ![k] = e] /\ Relink(s, m) /\ older' = u
  BY Zenon DEF Replace
<1> HIDE DEF S
<1>2. m \in ListType /\ Lists(m, S, u) /\ Order(S, u) /\ SameLinks(List(s), m, S)
  BY <1>0, MoveToFront, Zenon
<1>3. u \in [Keys -> SUBSET Keys] /\ \A j \in Keys \ {k} : u[j] = older[j] \ {k}
  <2>1. \A j \in Keys \ {k} : u[j] = older[j] \ {k}
    BY Zenon DEF Use
  <2> QED BY <1>0, <2>1, UseTwice, Zenon
<1> HIDE DEF m, u
<1>5. \A j \in Keys \ S : m.prev[j] = prev[j] /\ m.next[j] = next[j]
  BY <1>0, <1>2, Zenon DEF SameLinks
<1>6. /\ items' \in [Keys -> Entry \cup {NoEntry}]
      /\ \A j \in Keys : IF ShardOf[j] = s THEN items'[j] # NoEntry <=> j \in S ELSE items'[j] = items[j]
  <2>1. e # NoEntry
    BY StoreAssumption, Zenon DEF Entry
  <2> QED BY <1>0, <1>1, <2>1, Zenon
<1>7. \A j \in Keys : ShardOf[j] # s => /\ m.prev[j] = prev[j] /\ m.next[j] = next[j]
                                        /\ \E h \in Keys, v \in Keys :
                                              /\ ShardOf[h] = s /\ ShardOf[v] = s
                                              /\ u[j] = older[j] \ {h, v}
  <2> SUFFICES ASSUME NEW j \in Keys, ShardOf[j] # s
               PROVE  /\ m.prev[j] = prev[j] /\ m.next[j] = next[j]
                      /\ u[j] = older[j] \ {k, k}
    BY Zenon
  <2>1. j \notin S /\ j # k
    BY <1>0, Zenon
  <2> QED BY <1>3, <1>5, <2>1, Zenon
<1>8. \A j \in Keys \ S : ShardOf[j] = s => m.prev[j] = Nil /\ m.next[j] = Nil
  BY <1>0, <1>5, Zenon
<1> QED BY <1>0, <1>1, <1>2, <1>3, <1>6, <1>7, <1>8, Zenon DEF ShardTakes, S, m, u

\* A new key is inserted, and the one used longest ago evicted if there is no room.
Evicts(k) == PerShard > 0 /\ Size(ShardOf[k]) + 1 > PerShard

\* Its shard is not empty then.
LEMMA TailFacts ==
    ASSUME LRUInv, NEW k \in Keys
    PROVE  /\ pushFrontLocked(List(ShardOf[k]), k).tail # Nil
           /\ Evicts(k) => /\ pushFrontLocked(List(ShardOf[k]), k).tail = tail[ShardOf[k]]
                           /\ tail[ShardOf[k]] \in Stored(ShardOf[k]) /\ older[tail[ShardOf[k]]] = {}
<1> DEFINE s == ShardOf[k]
           S == Stored(s)
           l == pushFrontLocked(List(s), k)
<1>0. /\ S \in SUBSET Keys /\ List(s) \in ListType /\ Lists(List(s), S, older)
      /\ List(s).tail = tail[s] /\ IsFiniteSet(S) /\ Size(s) = Cardinality(S) /\ Size(s) \in Nat
  BY ShardFacts, Zenon
<1>1. l.tail = IF tail[s] = Nil THEN k ELSE tail[s]
  BY <1>0, PushType
<1>2. l.tail # Nil
  BY <1>1, StoreAssumption, Zenon
<1>3. Evicts(k) => S # {}
  <2>1. Evicts(k) => Cardinality(S) # 0
    BY <1>0, PerShardType DEF Evicts
  <2>2. S = {} => Cardinality(S) = 0
    BY FS_EmptySet, Zenon
  <2> QED BY <2>1, <2>2, Zenon
<1>4. S # {} => tail[s] \in S /\ older[tail[s]] = {} /\ tail[s] # Nil
  BY <1>0, StoreAssumption, Zenon DEF Lists
<1> QED BY <1>1, <1>2, <1>3, <1>4, Zenon

\* What insertLocked does, with the eviction or without.
LEMMA InsertCases ==
    ASSUME LRUInv, NEW k \in Keys, NEW e, insertLocked(k, e)
    PROVE  LET s == ShardOf[k]
               l == pushFrontLocked(List(s), k)
               v == tail[s]
           IN  IF Evicts(k)
               THEN /\ evictions < MaxEvictions /\ evictions' = evictions + 1
                    /\ items' = [items EXCEPT ![k] = e, ![v] = NoEntry]
                    /\ Relink(s, unlinkLocked(l, v))
                    /\ older' = Use(Use(older, Stored(s), k), {}, v)
               ELSE /\ evictions' = evictions /\ items' = [items EXCEPT ![k] = e]
                    /\ Relink(s, l) /\ older' = Use(older, Stored(s), k)
BY TailFacts, Zenon DEF insertLocked, Evicts

\* A new key where there is room.
LEMMA InsertStep ==
    ASSUME LRUInv, NEW k \in Keys, ~Has(k), NEW e \in Entry, insertLocked(k, e), ~Evicts(k)
    PROVE  ShardTakes(ShardOf[k], Stored(ShardOf[k]) \cup {k},
                      pushFrontLocked(List(ShardOf[k]), k), Use(older, Stored(ShardOf[k]), k))
<1> DEFINE s == ShardOf[k]
           S == Stored(s)
           m == pushFrontLocked(List(s), k)
           u == Use(older, S, k)
<1>0. /\ S \in SUBSET Keys /\ k \notin S /\ S \subseteq {j \in Keys : ShardOf[j] = s}
      /\ older \in [Keys -> SUBSET Keys] /\ items \in [Keys -> Entry \cup {NoEntry}]
      /\ Order(S, older) /\ List(s) \in ListType /\ Lists(List(s), S, older)
      /\ List(s).prev = prev /\ List(s).next = next
      /\ IsFiniteSet(S) /\ Size(s) = Cardinality(S) /\ Size(s) \in Nat
      /\ \A j \in Keys \ S : ShardOf[j] = s => prev[j] = Nil /\ next[j] = Nil
      /\ \A j \in Keys : ShardOf[j] = s => (items[j] # NoEntry <=> j \in S)
  BY ShardFacts, Zenon
<1>1. items' = [items EXCEPT ![k] = e] /\ Relink(s, m) /\ older' = u
  BY InsertCases, Zenon
<1> HIDE DEF S
<1>2. m \in ListType /\ Lists(m, S \cup {k}, u) /\ SameLinks(List(s), m, S \cup {k})
  <2>1. m \in ListType
    BY <1>0, PushType, Zenon
  <2> QED BY <1>0, <2>1, PushLists, Zenon
<1>3. u \in [Keys -> SUBSET Keys] /\ Order(S \cup {k}, u) /\ \A j \in Keys \ {k} : u[j] = older[j] \ {k}
  <2>1. \A j \in Keys \ {k} : u[j] = older[j] \ {k}
    BY Zenon DEF Use
  <2> QED BY <1>0, <2>1, UseTwice, InsertOrder, Zenon
<1>4. IsFiniteSet(S \cup {k}) /\ Cardinality(S \cup {k}) = Cardinality(S) + 1
  BY <1>0, FS_AddElement, Zenon
<1> HIDE DEF m, u
<1>5. \A j \in Keys \ (S \cup {k}) : m.prev[j] = prev[j] /\ m.next[j] = next[j]
  BY <1>0, <1>2, Zenon DEF SameLinks
<1>6. /\ items' \in [Keys -> Entry \cup {NoEntry}]
      /\ \A j \in Keys : IF ShardOf[j] = s THEN items'[j] # NoEntry <=> j \in S \cup {k} ELSE items'[j] = items[j]
  <2>1. e # NoEntry
    BY StoreAssumption, Zenon DEF Entry
  <2> QED BY <1>0, <1>1, <2>1, Zenon
<1>7. \A j \in Keys : ShardOf[j] # s => /\ m.prev[j] = prev[j] /\ m.next[j] = next[j]
                                        /\ \E h \in Keys, v \in Keys :
                                              /\ ShardOf[h] = s /\ ShardOf[v] = s
                                              /\ u[j] = older[j] \ {h, v}
  <2> SUFFICES ASSUME NEW j \in Keys, ShardOf[j] # s
               PROVE  /\ m.prev[j] = prev[j] /\ m.next[j] = next[j]
                      /\ u[j] = older[j] \ {k, k}
    BY Zenon
  <2>1. j \notin S /\ j # k
    BY <1>0, Zenon
  <2> QED BY <1>3, <1>5, <2>1, Zenon
<1>8. \A j \in Keys \ (S \cup {k}) : ShardOf[j] = s => m.prev[j] = Nil /\ m.next[j] = Nil
  BY <1>0, <1>5, Zenon
<1>9. PerShard > 0 => Cardinality(S \cup {k}) <= PerShard
  BY <1>0, <1>4, PerShardType DEF Evicts
<1> QED BY <1>0, <1>1, <1>2, <1>3, <1>4, <1>6, <1>7, <1>8, <1>9, Zenon DEF ShardTakes, S, m, u

\* A new key where there is none: the last node of the list goes.
LEMMA EvictStep ==
    ASSUME LRUInv, NEW k \in Keys, ~Has(k), NEW e \in Entry, insertLocked(k, e), Evicts(k)
    PROVE  LET s == ShardOf[k]
               v == tail[s]
           IN  ShardTakes(s, (Stored(s) \cup {k}) \ {v},
                          unlinkLocked(pushFrontLocked(List(s), k), v),
                          Use(Use(older, Stored(s), k), {}, v))
<1> DEFINE s == ShardOf[k]
           S == Stored(s)
           v == tail[s]
           l == pushFrontLocked(List(s), k)
           o == Use(older, S, k)
           T == S \cup {k}
           m == unlinkLocked(l, v)
           u == Use(o, {}, v)
<1>0. /\ S \in SUBSET Keys /\ k \notin S /\ S \subseteq {j \in Keys : ShardOf[j] = s}
      /\ older \in [Keys -> SUBSET Keys] /\ items \in [Keys -> Entry \cup {NoEntry}]
      /\ Order(S, older) /\ List(s) \in ListType /\ Lists(List(s), S, older)
      /\ List(s).prev = prev /\ List(s).next = next
      /\ IsFiniteSet(S) /\ Size(s) = Cardinality(S) /\ Size(s) \in Nat
      /\ PerShard > 0 => Size(s) <= PerShard
      /\ \A j \in Keys \ S : ShardOf[j] = s => prev[j] = Nil /\ next[j] = Nil
      /\ \A j \in Keys : ShardOf[j] = s => (items[j] # NoEntry <=> j \in S)
  BY ShardFacts, Zenon
<1>1. items' = [items EXCEPT ![k] = e, ![v] = NoEntry] /\ Relink(s, m) /\ older' = u
  BY InsertCases, Zenon
<1>v. v \in S
  BY TailFacts, Zenon
<1> HIDE DEF S, v
<1>2. l \in ListType /\ Lists(l, T, o) /\ SameLinks(List(s), l, T)
  <2>1. l \in ListType
    BY <1>0, PushType, Zenon
  <2> QED BY <1>0, <2>1, PushLists, Zenon
<1>3. o \in [Keys -> SUBSET Keys] /\ Order(T, o) /\ \A j \in Keys \ {k} : o[j] = older[j] \ {k}
  <2>1. \A j \in Keys \ {k} : o[j] = older[j] \ {k}
    BY Zenon DEF Use
  <2> QED BY <1>0, <2>1, UseTwice, InsertOrder, Zenon
<1> HIDE DEF l, o
<1>4. T \in SUBSET Keys /\ v \in T /\ v \in Keys /\ v # k
  BY <1>0, <1>v, Zenon
<1>5. m \in ListType /\ Lists(m, T \ {v}, u) /\ m.prev[v] = Nil /\ m.next[v] = Nil /\ SameLinks(l, m, T)
  <2>1. m \in ListType
    BY <1>2, <1>4, UnlinkType, Zenon
  <2> HIDE DEF T
  <2>2. Lists(m, T \ {v}, u) /\ m.prev[v] = Nil /\ m.next[v] = Nil /\ SameLinks(l, m, T)
    BY <1>2, <1>3, <1>4, UnlinkLists, Zenon
  <2> QED BY <2>1, <2>2, Zenon
<1>6. u \in [Keys -> SUBSET Keys] /\ Order(T \ {v}, u) /\ \A j \in Keys \ {v} : u[j] = o[j] \ {v}
  <2>1. \A j \in Keys \ {v} : u[j] = o[j] \ {v}
    BY <1>3, Zenon DEF Use
  <2> QED BY <1>3, <1>4, <2>1, UseTwice, RemoveOrder, Zenon
<1>7. IsFiniteSet(T \ {v}) /\ Cardinality(T \ {v}) = Cardinality(S)
  <2>1. IsFiniteSet(T) /\ Cardinality(T) = Cardinality(S) + 1
    BY <1>0, FS_AddElement, Zenon
  <2>2. IsFiniteSet(T \ {v}) /\ Cardinality(T \ {v}) = Cardinality(T) - 1
    BY <1>4, <2>1, FS_RemoveElement, Zenon
  <2> QED BY <1>0, <2>1, <2>2
<1> HIDE DEF m, u
<1>8. \A j \in Keys \ T : m.prev[j] = prev[j] /\ m.next[j] = next[j]
  BY <1>0, <1>2, <1>5, Zenon DEF SameLinks
<1>9. /\ items' \in [Keys -> Entry \cup {NoEntry}]
      /\ \A j \in Keys : IF ShardOf[j] = s THEN items'[j] # NoEntry <=> j \in T \ {v} ELSE items'[j] = items[j]
  <2>1. e # NoEntry /\ ShardOf[v] = s
    BY <1>0, <1>v, StoreAssumption, Zenon DEF Entry
  <2>2. items' \in [Keys -> Entry \cup {NoEntry}]
    BY <1>0, <1>1, Zenon
  <2>3. \A j \in Keys : items'[j] = IF j = v THEN NoEntry ELSE IF j = k THEN e ELSE items[j]
    BY <1>0, <1>1, <1>4, Zenon
  <2> QED BY <1>0, <1>4, <2>1, <2>2, <2>3, Zenon
<1>10. \A j \in Keys : ShardOf[j] # s => /\ m.prev[j] = prev[j] /\ m.next[j] = next[j]
                                         /\ \E h \in Keys, x \in Keys :
                                               /\ ShardOf[h] = s /\ ShardOf[x] = s
                                               /\ u[j] = older[j] \ {h, x}
  <2>0. ShardOf[v] = s
    BY <1>0, <1>v, Zenon
  <2> SUFFICES ASSUME NEW j \in Keys, ShardOf[j] # s
               PROVE  /\ m.prev[j] = prev[j] /\ m.next[j] = next[j]
                      /\ u[j] = older[j] \ {k, v}
    BY <1>4, <2>0, Zenon
  <2>1. j \notin T /\ j # k /\ j # v
    BY <1>0, <2>0, Zenon
  <2> QED BY <1>3, <1>6, <1>8, <2>1
<1>11. \A j \in Keys \ (T \ {v}) : ShardOf[j] = s => m.prev[j] = Nil /\ m.next[j] = Nil
  BY <1>0, <1>5, <1>8, Zenon
<1>12. PerShard > 0 => Cardinality(T \ {v}) <= PerShard
  BY <1>0, <1>7, Zenon
<1>13. T \ {v} \subseteq {j \in Keys : ShardOf[j] = s}
  BY <1>0, Zenon
<1> QED BY <1>1, <1>5, <1>6, <1>7, <1>9, <1>10, <1>11, <1>12, <1>13, Zenon DEF ShardTakes, S, v, l, o, m, u

\* Every operation keeps the invariant.
LEMMA LRUStep == LRUInv /\ [Next]_vars => LRUInv'
<1> SUFFICES ASSUME LRUInv, [Next]_vars PROVE LRUInv'
  BY Zenon
<1>0. /\ now \in 0..MaxTime /\ evictions \in 0..MaxEvictions
      /\ MaxTime \in Nat /\ MaxEvictions \in Nat
      /\ items \in [Keys -> Entry \cup {NoEntry}]
  BY StoreAssumption, Zenon DEF LRUInv, TypeOK
<1>1. ASSUME NEW k \in Keys, Has(k), removeLocked(k), UNCHANGED <<now, evictions>>
      PROVE  LRUInv'
  <2>1. ShardOf[k] \in Shards
    BY ShardOfType, Zenon
  <2> QED BY <1>0, <1>1, <2>1, RemoveStep, ShardStep, Zenon
<1>2. ASSUME NEW k \in Keys, NEW e \in Entry, Has(k), Replace(k, e), UNCHANGED now
      PROVE  LRUInv'
  <2>1. ShardOf[k] \in Shards
    BY ShardOfType, Zenon
  <2>2. evictions' = evictions
    BY <1>2, Zenon DEF Replace
  <2> QED BY <1>0, <1>2, <2>1, <2>2, ReplaceStep, ShardStep, Zenon
<1>3. ASSUME NEW k \in Keys, NEW e \in Entry, ~Has(k), insertLocked(k, e), UNCHANGED now
      PROVE  LRUInv'
  <2>1. ShardOf[k] \in Shards
    BY ShardOfType
  <2>2. evictions' \in 0..MaxEvictions
    <3>1. (evictions < MaxEvictions /\ evictions' = evictions + 1) \/ evictions' = evictions
      BY <1>3, InsertCases, Zenon
    <3> QED BY <1>0, <3>1
  <2>3. CASE Evicts(k)
    BY <1>0, <1>3, <2>1, <2>2, <2>3, EvictStep, ShardStep, Zenon
  <2>4. CASE ~Evicts(k)
    BY <1>0, <1>3, <2>1, <2>2, <2>4, InsertStep, ShardStep, Zenon
  <2> QED BY <2>3, <2>4, Zenon
<1>4. CASE Tick
  <2>1. now' \in 0..MaxTime
    BY <1>0, <1>4 DEF Tick
  <2> QED BY <1>4, <2>1, Zenon DEF Tick, LRUInv, TypeOK, ListMatchesMap, WithinShare, Shelved, Stored, Size, Has, List
<1>5. CASE UNCHANGED vars
  BY <1>5, Zenon DEF vars, LRUInv, TypeOK, ListMatchesMap, WithinShare, Shelved, Stored, Size, Has, List
<1>6. ASSUME NEW k \in Keys, get(k) PROVE LRUInv'
  <2>1. Has(k) /\ items[k] \in Entry
    BY <1>0, <1>6, Zenon DEF get, Has
  <2> QED BY <1>1, <1>2, <1>6, <2>1, Zenon DEF get
<1>7. ASSUME NEW k \in Keys, delete(k) PROVE LRUInv'
  BY <1>1, <1>7, Zenon DEF delete
<1>8. ASSUME NEW k \in Keys, NEW e \in Entry, set(k, e) \/ setIfNewer(k, e) PROVE LRUInv'
  BY <1>2, <1>3, <1>8, Zenon DEF set, setIfNewer
<1> QED BY <1>4, <1>5, <1>6, <1>7, <1>8, Zenon DEF Next

\* The invariant of the store, for every number of shards and every capacity.
LEMMA LRUInvariance == Spec => []LRUInv
BY LRUInit, LRUStep, PTL DEF Spec

\* Map, lists and links of store/memory keep their types, for any keys, hashes,
\* capacity and number of shards.
THEOREM LRUTypeCorrect == Spec => []TypeOK
BY LRUInvariance, PTL DEF LRUInv

\* The list of a shard is its map in the order of use, both ways (unlinkLocked,
\* pushFrontLocked, moveToFrontLocked), for any keys, hashes, capacity and number
\* of shards.
THEOREM ListConsistency == Spec => []ListMatchesMap
BY LRUInvariance, PTL DEF LRUInv

\* No shard outgrows its share of the capacity (insertLocked), for any capacity
\* and number of shards.
THEOREM ShareIsKept == Spec => []WithinShare
BY LRUInvariance, PTL DEF LRUInv

-----------------------------------------------------------------------------
\* The order of use is that of the abstract LRU.
LEMMA AbstractOrder ==
    ASSUME NEW k \in Keys
    PROVE  /\ Abstract!Beside(k) = Stored(ShardOf[k]) \ {k}
           /\ Abstract!Used(k) = Use(older, Stored(ShardOf[k]), k)
           /\ \A o : Abstract!Without(o, k) = Use(o, {}, k)
<1>1. Abstract!Beside(k) = Stored(ShardOf[k]) \ {k}
  BY Zenon DEF Abstract!Beside, Abstract!Has, Stored, Has
<1>2. Abstract!Used(k) = Use(older, Stored(ShardOf[k]), k)
  BY <1>1, Zenon DEF Abstract!Used, Use
<1>3. \A o : Abstract!Without(o, k) = Use(o, {}, k)
  BY Zenon DEF Abstract!Without, Use
<1> QED BY <1>1, <1>2, <1>3, Zenon

\* The cardinality of the instance is the cardinality.
LEMMA SameCardinality == \A S : Abstract!Cardinality(S) = Cardinality(S)
BY Zenon DEF Abstract!Cardinality, Cardinality

\* Storing and using a key (set, setIfNewer, get) is a Put of the LRU.
LEMMA RefinePut ==
    ASSUME LRUInv, NEW k \in Keys, NEW e \in Entry,
           (Has(k) /\ Replace(k, e)) \/ (~Has(k) /\ insertLocked(k, e))
    PROVE  Abstract!Put(k, e) /\ items'[k] = e
<1> DEFINE S == Stored(ShardOf[k])
<1>0. /\ IsFiniteSet(S) /\ Size(ShardOf[k]) = Cardinality(S) /\ Size(ShardOf[k]) \in Nat
      /\ PerShard > 0 => Size(ShardOf[k]) <= PerShard
      /\ (k \in S <=> Has(k))
      /\ items \in [Keys -> Entry \cup {NoEntry}]
      /\ S \in SUBSET Keys
  BY ShardFacts, Zenon
<1>1. /\ Abstract!Beside(k) = S \ {k} /\ Abstract!Used(k) = Use(older, S, k)
      /\ \A j \in Keys : Abstract!Without(Use(older, S, k), j) = Use(Use(older, S, k), {}, j)
  BY AbstractOrder, Zenon
<1>2. CASE Has(k) /\ Replace(k, e)
  <2>1. Cardinality(S \ {k}) = Cardinality(S) - 1
    BY <1>0, <1>2, FS_RemoveElement, Zenon
  <2>2. ~(PerShard > 0 /\ Cardinality(S \ {k}) >= PerShard)
    BY <1>0, <2>1, PerShardType
  <2>3. items' = [items EXCEPT ![k] = e] /\ older' = Use(older, S, k)
    BY <1>2, Zenon DEF Replace
  <2>4. items'[k] = e
    BY <1>0, <2>3, Zenon
  <2> QED BY <1>1, <2>2, <2>3, <2>4, SameCardinality, Zenon DEF Abstract!Put
<1>3. CASE ~Has(k) /\ insertLocked(k, e)
  <2>1. S \ {k} = S
    BY <1>0, <1>3, Zenon
  <2>2. (PerShard > 0 /\ Cardinality(S \ {k}) >= PerShard) <=> Evicts(k)
    <3>1. Cardinality(S \ {k}) = Size(ShardOf[k])
      BY <1>0, <2>1, Zenon
    <3>2. Size(ShardOf[k]) \in Nat /\ PerShard \in Nat
      BY <1>0, PerShardType, Zenon
    <3> HIDE DEF S
    <3> QED BY <3>1, <3>2 DEF Evicts
  <2>3. CASE ~Evicts(k)
    <3>1. items' = [items EXCEPT ![k] = e] /\ older' = Use(older, S, k)
      BY <1>3, <2>3, InsertCases, Zenon
    <3>2. items'[k] = e
      BY <1>0, <3>1
    <3> QED BY <1>1, <2>2, <2>3, <3>1, <3>2, SameCardinality, Zenon DEF Abstract!Put
  <2>4. CASE Evicts(k)
    <3> DEFINE v == tail[ShardOf[k]]
    <3>1. v \in S /\ older[v] = {} /\ v # k
      BY <1>0, <1>3, <2>4, TailFacts, Zenon
    <3>2. items' = [items EXCEPT ![k] = e, ![v] = NoEntry] /\ older' = Use(Use(older, S, k), {}, v)
      BY <1>3, <2>4, InsertCases, Zenon
    <3>3. items'[k] = e
      BY <1>0, <3>1, <3>2, Zenon
    <3> HIDE DEF v
    <3>4. v \in Abstract!Beside(k) /\ older[v] \ {k} = {} /\ older' = Abstract!Without(Abstract!Used(k), v)
      BY <1>0, <1>1, <3>1, <3>2, Zenon
    <3> QED BY <1>1, <2>2, <2>4, <3>2, <3>3, <3>4, SameCardinality, Zenon DEF Abstract!Put
  <2> QED BY <2>3, <2>4, Zenon
<1> QED BY <1>2, <1>3, Zenon

\* Removing a key (delete, or get of an expired one) is a Drop of the LRU.
LEMMA RefineDrop ==
    ASSUME NEW k \in Keys, removeLocked(k)
    PROVE  Abstract!Drop(k)
<1>1. Abstract!Without(older, k) = Use(older, {}, k)
  BY AbstractOrder, Zenon
<1> QED BY <1>1, Zenon DEF removeLocked, Abstract!Drop

\* Every step of the store is a step of the LRU, or none.
LEMMA RefineStep == LRUInv /\ [Next]_vars => [Abstract!Next]_(Abstract!vars)
<1> SUFFICES ASSUME LRUInv, [Next]_vars PROVE Abstract!Next \/ UNCHANGED Abstract!vars
  BY Zenon
<1>0. /\ items \in [Keys -> Entry \cup {NoEntry}] /\ NoEntry \notin Entry
  BY StoreAssumption, Zenon DEF LRUInv, TypeOK, Entry
<1>1. ASSUME NEW k \in Keys, get(k) PROVE Abstract!Get(k)
  <2>1. Has(k) /\ items[k] \in Entry /\ Abstract!Has(k) /\ now' = now
    BY <1>0, <1>1, Zenon DEF get, Has, Abstract!Has
  <2>2. Expired(items[k]) <=> Abstract!Dead(items[k])
    BY Zenon DEF Expired, Abstract!Dead
  <2>3. CASE Expired(items[k]) /\ removeLocked(k)
    BY <2>1, <2>2, <2>3, RefineDrop, Zenon DEF Abstract!Get
  <2>4. CASE ~Expired(items[k]) /\ Replace(k, items[k])
    <3>1. Abstract!Put(k, items[k])
      BY <2>1, <2>4, RefinePut, Zenon
    <3> QED BY <2>1, <2>2, <2>4, <3>1, Zenon DEF Abstract!Get
  <2> QED BY <1>1, <2>3, <2>4, Zenon DEF get
<1>2. ASSUME NEW k \in Keys, delete(k) PROVE Abstract!Delete(k)
  BY <1>2, RefineDrop, Zenon DEF delete, Abstract!Delete, Has, Abstract!Has
<1>3. ASSUME NEW k \in Keys, NEW e \in Entry, set(k, e) \/ setIfNewer(k, e)
      PROVE  items'[k] # NoEntry /\ Abstract!Set(k, items'[k])
  <2>1. now' = now /\ ((Has(k) /\ Replace(k, e)) \/ (~Has(k) /\ insertLocked(k, e)))
    BY <1>3, Zenon DEF set, setIfNewer
  <2>2. Abstract!Put(k, e) /\ items'[k] = e
    BY <2>1, RefinePut, Zenon
  <2> QED BY <1>0, <2>1, <2>2, Zenon DEF Abstract!Set
<1>4. CASE Tick
  BY <1>4, Zenon DEF Tick, Abstract!Tick, Abstract!Next
<1>5. CASE UNCHANGED vars
  BY <1>5, Zenon DEF vars, Abstract!vars
<1> QED BY <1>1, <1>2, <1>3, <1>4, <1>5, Zenon DEF Next, Abstract!Next

\* store/memory implements an LRU with deadlines (Get, Set, SetIfNewer, Delete,
\* insertLocked): what it evicts is what was used longest ago, in a shard without
\* room; for any keys, hashes, capacity and number of shards.
THEOREM LRURefinement == Spec => ImplementsLRU
<1>1. Init => Abstract!Init
  BY Zenon DEF Init, Abstract!Init
<1> QED BY <1>1, LRUInvariance, RefineStep, PTL DEF Spec, ImplementsLRU, Abstract!Spec

\* The keys stored in the first n shards.
First(n) == {k \in Keys : Has(k) /\ ShardOf[k] < n}

\* n shards hold at most n shares.
LEMMA SharesAddUp ==
    ASSUME LRUInv, PerShard > 0
    PROVE  \A n \in 0..ShardCount : IsFiniteSet(First(n)) /\ Cardinality(First(n)) <= n * PerShard
<1> DEFINE P(n) == IsFiniteSet(First(n)) /\ Cardinality(First(n)) <= n * PerShard
           T == {n \in 0..ShardCount : ~P(n)}
<1>0. PerShard \in Nat /\ ShardCount \in Nat /\ \A k \in Keys : ShardOf[k] \in Nat
  BY PerShardType, ShardCountType, ShardOfType DEF Shards
<1>1. P(0)
  <2>1. First(0) = {}
    BY <1>0 DEF First
  <2>2. IsFiniteSet({}) /\ Cardinality({}) = 0
    BY FS_EmptySet, Zenon
  <2> QED BY <1>0, <2>1, <2>2
<1>2. ASSUME NEW n \in Nat, n < ShardCount, P(n) PROVE P(n + 1)
  <2>1. First(n + 1) = First(n) \cup Stored(n) /\ First(n) \cap Stored(n) = {}
    BY <1>0 DEF First, Stored
  <2>2. IsFiniteSet(Stored(n)) /\ Cardinality(Stored(n)) <= PerShard
    <3>1. n \in Shards
      BY <1>0, <1>2 DEF Shards
    <3> QED BY <3>1, Zenon DEF LRUInv, Shelved, WithinShare, Size
  <2>3. IsFiniteSet({}) /\ Cardinality({}) = 0
    BY FS_EmptySet, Zenon
  <2>4. /\ IsFiniteSet(First(n + 1))
        /\ Cardinality(First(n + 1)) = Cardinality(First(n)) + Cardinality(Stored(n)) - Cardinality(First(n) \cap Stored(n))
    BY <1>2, <2>1, <2>2, FS_Union, Zenon
  <2>5. Cardinality(First(n)) \in Nat /\ Cardinality(Stored(n)) \in Nat
    BY <1>2, <2>2, FS_CardinalityType, Zenon
  <2>6. (n + 1) * PerShard = n * PerShard + PerShard /\ n * PerShard \in Nat
    BY <1>0
  <2>7. Cardinality(First(n + 1)) <= n * PerShard + PerShard
    <3>1. Cardinality(First(n + 1)) = Cardinality(First(n)) + Cardinality(Stored(n)) - 0
      BY <2>1, <2>3, <2>4, Zenon
    <3>2. Cardinality(First(n)) <= n * PerShard
      BY <1>2, Zenon
    <3> QED BY <1>0, <2>2, <2>5, <2>6, <3>1, <3>2
  <2> QED BY <2>4, <2>6, <2>7, Zenon
<1> HIDE DEF P
<1>3. T = {}
  <2> SUFFICES ASSUME T # {} PROVE FALSE
    BY Zenon
  <2>1. PICK m \in T : \A n \in T : m <= n
    <3>1. T \subseteq Nat
      BY <1>0
    <3> HIDE DEF T
    <3> QED BY <3>1, LeastNumber, Zenon
  <2>2. m # 0 /\ m \in Nat /\ m <= ShardCount /\ ~P(m)
    BY <1>0, <1>1, <2>1
  <2>3. m - 1 \in Nat /\ m - 1 < ShardCount /\ m - 1 \notin T /\ m - 1 + 1 = m
    BY <1>0, <2>1, <2>2
  <2>4. P(m - 1)
    BY <1>0, <2>3
  <2> QED BY <1>2, <2>2, <2>3, <2>4, Zenon
<1> QED BY <1>3, Zenon DEF P

\* The rounding of the shares (New) lets the store hold less than one entry a
\* shard over its capacity, for any capacity and number of shards.
THEOREM CapacityIsKept == Spec => []NearCapacity
<1>1. LRUInv => NearCapacity
  <2> SUFFICES ASSUME LRUInv, Capacity > 0 PROVE Len < Capacity + ShardCount
    BY Zenon DEF NearCapacity
  <2>1. /\ PerShard \in Nat /\ PerShard > 0 /\ PerShard * ShardCount < Capacity + ShardCount
        /\ ShardCount \in Nat /\ Capacity \in Int
    BY PerShardType, ShardCountType, StoreAssumption, Zenon
  <2>2. First(ShardCount) = {k \in Keys : Has(k)}
    BY <2>1, ShardOfType DEF First, Shards
  <2>3. IsFiniteSet(First(ShardCount)) /\ Cardinality(First(ShardCount)) <= ShardCount * PerShard
    BY <2>1, SharesAddUp
  <2>4. Cardinality(First(ShardCount)) \in Nat
    BY <2>3, FS_CardinalityType, Zenon
  <2>5. ShardCount * PerShard = PerShard * ShardCount /\ PerShard * ShardCount \in Nat
    BY <2>1
  <2> QED BY <2>1, <2>2, <2>3, <2>4, <2>5 DEF Len
<1> QED BY <1>1, LRUInvariance, PTL
=============================================================================
