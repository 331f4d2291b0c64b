-------------------------- MODULE RedisStoreProofs --------------------------
(***************************************************************************)
(* Proofs about RedisStore, for every set of keys, clients and values,      *)
(* every seed span, every TTL and every bound.                              *)
(***************************************************************************)
EXTENDS RedisStore, TLAPS

\* The hash of a key is its last accepted write, and what was never written
\* has no hash.
HashIsLatest ==
    \A k \in Keys :
        IF Len(log[k]) = 0
        THEN hash[k] = NoHash /\ mints[k] = 0
        ELSE LET w == log[k][Len(log[k])]
             IN  hash[k].ver = w.ver /\ hash[k].exp = w.exp

\* A minted version stays below the seed of the next millisecond ...
VersionBelowNextSeed ==
    \A k \in Keys : hash[k].ver <= clock * Span + mints[k]

\* ... and a key written in this millisecond has not expired in it.
WrittenNowIsPresent ==
    \A k \in Keys : mints[k] > 0 => hash[k].exp = 0 \/ hash[k].exp > clock

VersionsPositive ==
    \A k \in Keys : \A n \in 1..Len(log[k]) : log[k][n].ver > 0

\* A version a client holds is that of the write it read.
HeldIsLogged ==
    \A c \in Clients, k \in Keys :
        held[c][k].ver # 0 =>
            /\ held[c][k].nth \in 1..Len(log[k])
            /\ log[k][held[c][k].nth].ver = held[c][k].ver

\* The retention the scripts gave a key's last write.
LastIsRetained ==
    \A k \in Keys :
        Len(log[k]) # 0 =>
            LET w == log[k][Len(log[k])]
            IN  IF w.del
                THEN w.exp = 0 \/ (TombstoneTTL > 0 /\ w.exp = w.at + TombstoneTTL)
                ELSE w.exp >= w.at + TTLFloor

IInv ==
    /\ TypeOK
    /\ HashIsLatest
    /\ VersionBelowNextSeed
    /\ WrittenNowIsPresent
    /\ VersionsPositive
    /\ VersionsIncrease
    /\ HeldIsLogged
    /\ LiveEntriesExpire
    /\ LastIsRetained
-----------------------------------------------------------------------------
\* Facts about sequences that the proofs below use.
LEMMA SeqElement ==
    ASSUME NEW S, NEW s \in Seq(S), NEW n \in 1..Len(s)
    PROVE  /\ Len(s) \in Nat /\ Len(s) # 0 /\ n \in Nat
           /\ s[n] \in S /\ s[Len(s)] \in S
OBVIOUS

\* What Append does to a typed sequence.
LEMMA AppendElement ==
    ASSUME NEW S, NEW s \in Seq(S), NEW e \in S
    PROVE  /\ Append(s, e) \in Seq(S)
           /\ Len(s) \in Nat
           /\ Len(Append(s, e)) = Len(s) + 1
           /\ Append(s, e)[Len(s) + 1] = e
           /\ \A n \in 1..Len(s) : Append(s, e)[n] = s[n]
OBVIOUS

\* The seed of the next millisecond is one Span above this one's.
LEMMA SeedStep ==
    ASSUME NEW t \in Nat PROVE (t + 1) * Span = t * Span + Span /\ t * Span \in Nat
BY SpanAssumption

\* mint returns a version above every version of the key's history, and keeps
\* the bound that makes the next seed safe.
LEMMA MintIsNew ==
    ASSUME IInv, NEW k \in Keys, Headroom(k)
    PROVE  /\ mint(k) \in Nat \ {0}
           /\ mint(k) > hash[k].ver
           /\ mint(k) <= clock * Span + mints[k] + 1
           /\ \A n \in 1..Len(log[k]) : log[k][n].ver < mint(k)
<1> USE DEF IInv
<1>1. clock \in Nat /\ hash[k] \in Hash /\ mints[k] \in Nat /\ Span \in Nat
  BY SpanAssumption DEF TypeOK
<1>2. clock * Span \in Nat
  BY <1>1, SeedStep, Zenon
<1>3. hash[k].ver <= clock * Span + mints[k]
  BY Zenon DEF VersionBelowNextSeed
<1>4. /\ mint(k) \in Nat \ {0}
      /\ mint(k) > hash[k].ver
      /\ mint(k) <= clock * Span + mints[k] + 1
  <2>1. CASE Cur(k) # 0
    BY <2>1, <1>1, <1>2, <1>3 DEF mint, Cur, Stored, NoHash, Hash
  <2>2. CASE Cur(k) = 0
    <3>1. mint(k) = clock * Span + 1
      BY <2>2, Zenon DEF mint
    <3>2. hash[k].ver <= clock * Span
      <4>1. CASE hash[k].exp # 0 /\ clock > hash[k].exp
        <5>1. mints[k] = 0
          BY <4>1, <1>1 DEF WrittenNowIsPresent, Hash
        <5> QED BY <5>1, <1>1, <1>2, <1>3 DEF Hash
      <4>2. CASE ~(hash[k].exp # 0 /\ clock > hash[k].exp)
        BY <4>2, <2>2, <1>2 DEF Cur, Stored
      <4> QED BY <4>1, <4>2, Zenon
    <3> QED BY <3>1, <3>2, <1>1, <1>2 DEF Hash
  <2> QED BY <2>1, <2>2, Zenon
<1>5. ASSUME NEW n \in 1..Len(log[k]) PROVE log[k][n].ver \in Nat /\ log[k][n].ver <= hash[k].ver
  <2>0. log[k] \in Seq(Write)
    BY Zenon DEF TypeOK
  <2>1. /\ Len(log[k]) \in Nat /\ Len(log[k]) # 0
        /\ log[k][n] \in Write /\ log[k][Len(log[k])] \in Write
    BY ONLY <2>0, <1>5, SeqElement, Zenon
  <2>4. log[k][n].ver \in Nat /\ log[k][Len(log[k])].ver \in Nat
    BY ONLY <2>1, Zenon DEF Write
  <2>2. hash[k].ver = log[k][Len(log[k])].ver
    BY <2>1, Zenon DEF HashIsLatest
  <2>3. n = Len(log[k]) \/ log[k][n].ver < log[k][Len(log[k])].ver
    BY <2>1 DEF VersionsIncrease
  <2> QED BY <2>4, <2>2, <2>3
<1> HIDE DEF IInv
<1> QED BY <1>1, <1>4, <1>5, SMTT(30) DEF Hash

-----------------------------------------------------------------------------
\* Both scripts end in Store, so one lemma covers them: writing key k keeps
\* every conjunct of the invariant, given the retention each script asks for.
LEMMA StoreStep ==
    ASSUME IInv, NEW k \in Keys, NEW val \in Values \cup {NoVal}, NEW del \in BOOLEAN,
           NEW expect \in Nat \cup {ForceVersion}, NEW ttl \in Int,
           del => ttl = TombstoneTTL,
           ~del => ttl >= TTLFloor,
           Store(k, val, del, expect, ttl)
    PROVE  IInv'
<1> DEFINE w == [ver |-> mint(k), pay |-> val, del |-> del, expect |-> expect,
                 at |-> clock, exp |-> PExpire(ttl)]
           h == [ver |-> mint(k), val |-> val, del |-> del, exp |-> PExpire(ttl)]
<1>1. /\ clock \in Nat /\ Span \in Nat /\ clock * Span \in Nat
      /\ log \in [Keys -> Seq(Write)] /\ hash \in [Keys -> Hash]
      /\ mints \in [Keys -> 0..(Span - 1)]
      /\ held \in [Clients -> [Keys -> [ver : Nat, nth : Nat]]]
  BY SpanAssumption, SeedStep, Zenon DEF IInv, TypeOK
<1>2. /\ clock' = clock /\ held' = held /\ Headroom(k)
      /\ hash' = [hash EXCEPT ![k] = h]
      /\ mints' = [mints EXCEPT ![k] = @ + 1]
      /\ log' = [log EXCEPT ![k] = Append(@, w)]
  BY Zenon DEF Store
<1>3. /\ mint(k) \in Nat \ {0}
      /\ mint(k) > hash[k].ver
      /\ mint(k) <= clock * Span + mints[k] + 1
      /\ \A n \in 1..Len(log[k]) : log[k][n].ver < mint(k)
  BY <1>2, MintIsNew, Zenon
<1>4. PExpire(ttl) \in Nat /\ (PExpire(ttl) = 0 \/ PExpire(ttl) > clock)
      /\ (~del => PExpire(ttl) # 0)
      /\ IF del
         THEN PExpire(ttl) = 0 \/ (TombstoneTTL > 0 /\ PExpire(ttl) = clock + TombstoneTTL)
         ELSE PExpire(ttl) >= clock + TTLFloor
  BY <1>1, TTLAssumption DEF PExpire
<1>5. /\ w \in Write /\ h \in Hash /\ w.ver = mint(k) /\ w.exp = PExpire(ttl)
      /\ w.del = del /\ w.at = clock
  BY <1>1, <1>3, <1>4, Zenon DEF Write, Hash
<1>6. mints[k] + 1 \in 0..(Span - 1)
  BY <1>1, <1>2 DEF Headroom
<1> HIDE DEF w
<1>7. /\ log[k] \in Seq(Write) /\ Append(log[k], w) \in Seq(Write)
      /\ Len(log[k]) \in Nat
      /\ Len(Append(log[k], w)) = Len(log[k]) + 1
      /\ Append(log[k], w)[Len(log[k]) + 1] = w
      /\ \A n \in 1..Len(log[k]) : Append(log[k], w)[n] = log[k][n]
  <2>1. log[k] \in Seq(Write)
    BY <1>1, Zenon
  <2> QED BY ONLY <2>1, <1>5, AppendElement
<1>8. /\ log'[k] = Append(log[k], w)
      /\ \A j \in Keys \ {k} : log'[j] = log[j] /\ hash'[j] = hash[j] /\ mints'[j] = mints[j]
      /\ hash'[k] = h /\ mints'[k] = mints[k] + 1
  BY <1>1, <1>2, Zenon
<1>9. /\ Len(log'[k]) = Len(log[k]) + 1
      /\ log'[k][Len(log[k]) + 1] = w
      /\ \A n \in 1..Len(log[k]) : log'[k][n] = log[k][n]
  BY <1>7, <1>8, Zenon
<1>10. TypeOK'
  BY <1>1, <1>2, <1>5, <1>6, <1>7, Zenon DEF TypeOK
<1>11. HashIsLatest'
  <2> SUFFICES ASSUME NEW j \in Keys
               PROVE  IF Len(log'[j]) = 0
                      THEN hash'[j] = NoHash /\ mints'[j] = 0
                      ELSE LET v == log'[j][Len(log'[j])]
                           IN  hash'[j].ver = v.ver /\ hash'[j].exp = v.exp
    BY Zenon DEF HashIsLatest, NoHash
  <2>1. CASE j = k
    BY <2>1, <1>5, <1>7, <1>8, <1>9
  <2>2. CASE j # k
    BY <2>2, <1>8, Zenon DEF IInv, HashIsLatest
  <2> QED BY <2>1, <2>2, Zenon
<1>12. VersionBelowNextSeed'
  <2> SUFFICES ASSUME NEW j \in Keys
               PROVE  hash'[j].ver <= clock * Span + mints'[j]
    BY <1>2, Zenon DEF VersionBelowNextSeed
  <2>1. CASE j = k
    BY <2>1, <1>1, <1>3, <1>8
  <2>2. CASE j # k
    BY <2>2, <1>8, Zenon DEF IInv, VersionBelowNextSeed
  <2> QED BY <2>1, <2>2, Zenon
<1>13. WrittenNowIsPresent'
  BY <1>1, <1>2, <1>4, <1>8, Zenon DEF IInv, WrittenNowIsPresent
<1>14. VersionsPositive'
  <2> SUFFICES ASSUME NEW j \in Keys, NEW n \in 1..Len(log'[j])
               PROVE  log'[j][n].ver > 0
    BY Zenon DEF VersionsPositive
  <2>1. CASE j = k
    <3>1. n \in 1..Len(log[k]) \/ n = Len(log[k]) + 1
      BY <2>1, <1>7, <1>9
    <3>2. CASE n \in 1..Len(log[k])
      BY <2>1, <3>2, <1>9, Zenon DEF IInv, VersionsPositive
    <3>3. CASE n = Len(log[k]) + 1
      BY <2>1, <3>3, <1>3, <1>5, <1>9
    <3> QED BY ONLY <3>1, <3>2, <3>3, Zenon
  <2>2. CASE j # k
    BY <2>2, <1>8, Zenon DEF IInv, VersionsPositive
  <2> QED BY <2>1, <2>2, Zenon
<1>15. VersionsIncrease'
  <2> SUFFICES ASSUME NEW j \in Keys, NEW m \in 1..Len(log'[j]), NEW n \in 1..Len(log'[j]),
                      m < n
               PROVE  log'[j][m].ver < log'[j][n].ver
    BY Zenon DEF VersionsIncrease
  <2>1. CASE j = k
    <3>1. m \in 1..Len(log[k]) /\ (n \in 1..Len(log[k]) \/ n = Len(log[k]) + 1)
      BY <2>1, <1>7, <1>9
    <3>2. CASE n \in 1..Len(log[k])
      BY <2>1, <3>1, <3>2, <1>9, Zenon DEF IInv, VersionsIncrease
    <3>3. CASE n = Len(log[k]) + 1
      BY <2>1, <3>1, <3>3, <1>3, <1>5, <1>9, Zenon DEF IInv, VersionsIncrease
    <3> QED BY ONLY <3>1, <3>2, <3>3, Zenon
  <2>2. CASE j # k
    BY <2>2, <1>8, Zenon DEF IInv, VersionsIncrease
  <2> QED BY <2>1, <2>2, Zenon
<1>16. HeldIsLogged'
  <2>0. held' = held
    BY <1>2, Zenon
  <2> SUFFICES ASSUME NEW c \in Clients, NEW j \in Keys, held'[c][j].ver # 0
               PROVE  /\ held'[c][j].nth \in 1..Len(log'[j])
                      /\ log'[j][held'[c][j].nth].ver = held'[c][j].ver
    BY Zenon DEF HeldIsLogged
  <2>1. /\ held[c][j].nth \in 1..Len(log[j])
        /\ log[j][held[c][j].nth].ver = held[c][j].ver
    BY <2>0, Zenon DEF IInv, HeldIsLogged
  <2>2. CASE j = k
    <3>1. held[c][k].nth \in 1..Len(log[k]) /\ held[c][k].nth \in 1..(Len(log[k]) + 1)
      BY <2>1, <2>2, <1>7
    <3>2. log'[k][held[c][k].nth] = log[k][held[c][k].nth]
      BY <3>1, <1>9, Zenon
    <3> QED BY <2>0, <2>1, <2>2, <3>1, <3>2, <1>9, Zenon
  <2>3. CASE j # k
    BY <2>0, <2>1, <2>3, <1>8, Zenon
  <2> QED BY <2>2, <2>3, Zenon
<1>17. LiveEntriesExpire'
  BY <1>4, <1>8 DEF IInv, LiveEntriesExpire
<1>18. LastIsRetained'
  <2> SUFFICES ASSUME NEW j \in Keys, Len(log'[j]) # 0
               PROVE  LET v == log'[j][Len(log'[j])]
                      IN  IF v.del
                          THEN v.exp = 0 \/ (TombstoneTTL > 0 /\ v.exp = v.at + TombstoneTTL)
                          ELSE v.exp >= v.at + TTLFloor
    BY Zenon DEF LastIsRetained
  <2>1. CASE j = k
    <3>1. log'[j][Len(log'[j])] = w
      BY <2>1, <1>9, Zenon
    <3> QED BY <3>1, <1>4, <1>5, Zenon
  <2>2. CASE j # k
    BY <2>2, <1>8, Zenon DEF IInv, LastIsRetained
  <2> QED BY <2>1, <2>2, Zenon
<1> QED BY <1>10, <1>11, <1>12, <1>13, <1>14, <1>15, <1>16, <1>17, <1>18, Zenon DEF IInv

-----------------------------------------------------------------------------
\* The clock passing a millisecond keeps the invariant: the seed moves up by a
\* Span, more than the key was minted in the millisecond that ended.
LEMMA TickStep ==
    ASSUME IInv, Tick
    PROVE  IInv'
<1>1. /\ clock \in Nat /\ Span \in Nat /\ clock * Span \in Nat
      /\ clock' = clock + 1 /\ clock' * Span = clock * Span + Span
      /\ mints' = [k \in Keys |-> 0]
      /\ hash' = hash /\ log' = log /\ held' = held
  BY SpanAssumption, SeedStep, Zenon DEF IInv, TypeOK, Tick
<1>2. \A k \in Keys : hash[k].ver \in Nat /\ mints[k] \in 0..(Span - 1) /\ mints'[k] = 0
  BY <1>1, Zenon DEF IInv, TypeOK, Hash
<1>3. TypeOK'
  BY <1>1, SpanAssumption DEF IInv, TypeOK
<1>4. HashIsLatest'
  BY <1>1, <1>2, Zenon DEF IInv, HashIsLatest, NoHash
<1>5. VersionBelowNextSeed'
  <2> SUFFICES ASSUME NEW k \in Keys PROVE hash[k].ver <= clock' * Span + mints'[k]
    BY <1>1, Zenon DEF VersionBelowNextSeed
  <2>1. hash[k].ver <= clock * Span + mints[k]
    BY Zenon DEF IInv, VersionBelowNextSeed
  <2> QED BY <2>1, <1>1, <1>2
<1>6. WrittenNowIsPresent'
  BY <1>2 DEF WrittenNowIsPresent
<1>7. /\ VersionsPositive' /\ VersionsIncrease' /\ HeldIsLogged' /\ LiveEntriesExpire'
      /\ LastIsRetained'
  BY <1>1, Zenon DEF IInv, VersionsPositive, VersionsIncrease, HeldIsLogged, LiveEntriesExpire,
              LastIsRetained
<1> QED BY <1>3, <1>4, <1>5, <1>6, <1>7, Zenon DEF IInv

\* A Load records the version of the last write, or 0.
LEMMA LoadStep ==
    ASSUME IInv, NEW c \in Clients, NEW k \in Keys, Load(c, k)
    PROVE  IInv'
<1>1. /\ clock' = clock /\ hash' = hash /\ mints' = mints /\ log' = log
      /\ held' = [held EXCEPT ![c][k] = [ver |-> Cur(k), nth |-> Len(log[k])]]
      /\ held \in [Clients -> [Keys -> [ver : Nat, nth : Nat]]]
  BY Zenon DEF Load, IInv, TypeOK
<1>2. hash[k] \in Hash /\ log[k] \in Seq(Write)
  BY Zenon DEF IInv, TypeOK
<1>3. Cur(k) \in Nat /\ (Cur(k) # 0 => Cur(k) = hash[k].ver)
  BY <1>2, Zenon DEF Cur, Stored, NoHash, Hash
<1>4. Len(log[k]) \in Nat
  BY <1>2
<1>5. TypeOK'
  BY <1>1, <1>3, <1>4, Zenon DEF IInv, TypeOK
<1>6. Cur(k) # 0 => /\ Len(log[k]) \in 1..Len(log[k])
                    /\ log[k][Len(log[k])].ver = Cur(k)
  <2> SUFFICES ASSUME Cur(k) # 0
               PROVE  /\ Len(log[k]) \in 1..Len(log[k])
                      /\ log[k][Len(log[k])].ver = Cur(k)
    BY Zenon
  <2>1. Len(log[k]) # 0
    BY <1>3 DEF IInv, HashIsLatest, NoHash
  <2> QED BY <2>1, <1>3, <1>4 DEF IInv, HashIsLatest
<1>7. HeldIsLogged'
  <2> SUFFICES ASSUME NEW d \in Clients, NEW j \in Keys, held'[d][j].ver # 0
               PROVE  /\ held'[d][j].nth \in 1..Len(log[j])
                      /\ log[j][held'[d][j].nth].ver = held'[d][j].ver
    BY <1>1, Zenon DEF HeldIsLogged
  <2>1. CASE d = c /\ j = k
    <3>1. held'[d][j] = [ver |-> Cur(k), nth |-> Len(log[k])]
      BY <2>1, <1>1, Zenon
    <3> QED BY <3>1, <2>1, <1>6
  <2>2. CASE ~(d = c /\ j = k)
    <3>1. held'[d][j] = held[d][j]
      BY <2>2, <1>1, Zenon
    <3> QED BY <3>1 DEF IInv, HeldIsLogged
  <2> QED BY <2>1, <2>2, Zenon
<1>8. /\ HashIsLatest' /\ VersionBelowNextSeed' /\ WrittenNowIsPresent'
      /\ VersionsPositive' /\ VersionsIncrease' /\ LiveEntriesExpire' /\ LastIsRetained'
  BY <1>1, Zenon DEF IInv, HashIsLatest, VersionBelowNextSeed, WrittenNowIsPresent,
              VersionsPositive, VersionsIncrease, LiveEntriesExpire, LastIsRetained, NoHash
<1> QED BY <1>5, <1>7, <1>8, Zenon DEF IInv

-----------------------------------------------------------------------------
\* The invariant holds initially.
LEMMA InitIInv == Init => IInv
<1> SUFFICES ASSUME Init PROVE IInv
  BY Zenon
<1>1. TypeOK
  BY SpanAssumption DEF Init, TypeOK, NoHash, Hash
<1> QED
  BY <1>1, SpanAssumption DEF Init, IInv, HashIsLatest, VersionBelowNextSeed,
     WrittenNowIsPresent, VersionsPositive, VersionsIncrease, HeldIsLogged,
     LiveEntriesExpire, LastIsRetained, NoHash

\* Every step keeps the invariant.
LEMMA NextIInv == IInv /\ [Next]_vars => IInv'
<1> SUFFICES ASSUME IInv, [Next]_vars PROVE IInv'
  BY Zenon
<1>1. CASE Tick
  BY <1>1, TickStep, Zenon
<1>2. ASSUME NEW c \in Clients, NEW k \in Keys, Load(c, k) PROVE IInv'
  BY <1>2, LoadStep, Zenon
<1>3. ASSUME NEW c \in Clients, NEW k \in Keys,
             NEW expect \in {held[c][k].ver, ForceVersion},
             NEW val \in Values, NEW life \in Lifetimes, SetCAS(k, val, expect, life)
      PROVE  IInv'
  <2>1. expect \in Nat \cup {ForceVersion}
    BY DEF IInv, TypeOK
  <2>2. redisTTL(life) \in Int /\ redisTTL(life) >= TTLFloor
    BY TTLAssumption DEF redisTTL
  <2>3. Store(k, val, FALSE, expect, redisTTL(life))
    BY <1>3, Zenon DEF SetCAS
  <2> QED BY <2>1, <2>2, <2>3, StoreStep, Zenon
<1>4. ASSUME NEW c \in Clients, NEW k \in Keys,
             NEW expect \in {held[c][k].ver, ForceVersion}, CompareAndDelete(k, expect)
      PROVE  IInv'
  <2>1. expect \in Nat \cup {ForceVersion}
    BY DEF IInv, TypeOK
  <2>2. TombstoneTTL \in Int
    BY TTLAssumption
  <2>3. Store(k, NoVal, TRUE, expect, TombstoneTTL)
    BY <1>4, Zenon DEF CompareAndDelete
  <2> QED BY <2>1, <2>2, <2>3, StoreStep, Zenon
<1>5. CASE UNCHANGED vars
  BY <1>5, Zenon DEF vars, IInv, TypeOK, HashIsLatest, VersionBelowNextSeed, WrittenNowIsPresent,
              VersionsPositive, VersionsIncrease, HeldIsLogged, LiveEntriesExpire, LastIsRetained
<1> QED BY <1>1, <1>2, <1>3, <1>4, <1>5, Zenon DEF Next

\* The inductive invariant holds of every reachable state.
THEOREM Invariance == Spec => []IInv
BY InitIInv, NextIInv, PTL DEF Spec

\* Type correctness of the store's state.
THEOREM TypeCorrect == Spec => []TypeOK
BY Invariance, PTL DEF IInv

\* Versions of a key grow over its whole history (versionSeedLua), whatever
\* expires in between, as long as a key takes fewer than Span mints per ms.
THEOREM VersionMonotonicity == Spec => []VersionsIncrease
BY Invariance, PTL DEF IInv

\* Every live entry has a PEXPIRE (redisTTL).
THEOREM LiveEntryExpiry == Spec => []LiveEntriesExpire
BY Invariance, PTL DEF IInv

\* A version that has been overtaken is refused: by setCAS for good, unless it
\* is the 0 of a miss, and otherwise until the write that overtook it has been
\* retained for as long as its script asked.
THEOREM ABAFreedom == Spec => []NoABA
<1>1. IInv => NoABA
  <2> SUFFICES ASSUME IInv PROVE NoABA
    BY Zenon
  <2>0. \A c \in Clients, k \in Keys : held[c][k].ver = Cur(k) => held[c][k].ver >= Cur(k)
    <3>1. \A c \in Clients, k \in Keys : held[c][k].ver \in Nat
      BY DEF IInv, TypeOK
    <3> QED BY <3>1
  <2> SUFFICES ASSUME NEW c \in Clients, NEW k \in Keys,
                      held[c][k].nth < Len(log[k]), held[c][k].ver >= Cur(k)
               PROVE  Outlived(k) /\ (held[c][k].ver = Cur(k) => held[c][k].ver = 0)
    BY <2>0, Zenon DEF NoABA
  <2>1. /\ hash[k] \in Hash /\ log[k] \in Seq(Write) /\ clock \in Nat
        /\ held[c][k].ver \in Nat /\ held[c][k].nth \in Nat /\ Len(log[k]) \in Nat
    BY DEF IInv, TypeOK
  <2>2. Len(log[k]) \in 1..Len(log[k]) /\ Len(log[k]) # 0
    BY <2>1
  <2>3. log[k][Len(log[k])] \in Write
    BY ONLY <2>1, <2>2, SeqElement, Zenon
  <2>4. /\ hash[k].ver = log[k][Len(log[k])].ver /\ hash[k].exp = log[k][Len(log[k])].exp
        /\ hash[k].ver \in Nat /\ hash[k].ver > 0
    BY <2>1, <2>2, Zenon DEF IInv, HashIsLatest, VersionsPositive, Hash
  <2>5. held[c][k].ver < hash[k].ver
    <3>1. CASE held[c][k].ver = 0
      BY <3>1, <2>4
    <3>2. CASE held[c][k].ver # 0
      <4>1. /\ held[c][k].nth \in 1..Len(log[k])
            /\ log[k][held[c][k].nth].ver = held[c][k].ver
        BY <3>2, Zenon DEF IInv, HeldIsLogged
      <4>2. log[k][held[c][k].nth].ver < log[k][Len(log[k])].ver
        BY <4>1, <2>2, Zenon DEF IInv, VersionsIncrease
      <4> QED BY <4>1, <4>2, <2>4, Zenon
    <3> QED BY <3>1, <3>2, Zenon
  <2>6. hash[k].exp # 0 /\ clock > hash[k].exp /\ Cur(k) = 0
    BY <2>1, <2>4, <2>5 DEF Cur, Stored, NoHash, Hash
  <2>7. Outlived(k)
    <3> DEFINE w == log[k][Len(log[k])]
    <3>1. IF w.del
          THEN w.exp = 0 \/ (TombstoneTTL > 0 /\ w.exp = w.at + TombstoneTTL)
          ELSE w.exp >= w.at + TTLFloor
      BY <2>2, Zenon DEF IInv, LastIsRetained
    <3>2. w.exp # 0 /\ clock > w.exp /\ w.exp \in Nat /\ w.at \in Nat
      BY <2>3, <2>4, <2>6, Zenon DEF Write
    <3> HIDE DEF w
    <3>3. IF w.del THEN TombstoneTTL > 0 /\ clock > w.at + TombstoneTTL
                   ELSE clock > w.at + TTLFloor
      BY <3>1, <3>2, <2>1, TTLAssumption
    <3> QED BY <3>3, Zenon DEF Outlived, w
  <2> QED BY <2>6, <2>7, Zenon
<1> QED BY <1>1, Invariance, PTL

-----------------------------------------------------------------------------
\* The version the scripts compare with is the one the contract reports.
LEMMA CurIsVersion ==
    ASSUME IInv, NEW k \in Keys
    PROVE  Cur(k) = VS!Version(k)
<1>1. hash[k] \in Hash /\ log[k] \in Seq(Write) /\ clock \in Nat /\ Len(log[k]) \in Nat
  BY DEF IInv, TypeOK
<1>2. CASE Len(log[k]) = 0
  BY <1>1, <1>2 DEF IInv, HashIsLatest, NoHash, Cur, Stored, VS!Version, VS!Present
<1>3. CASE Len(log[k]) # 0
  <2>1. /\ hash[k].ver = VS!Latest(k).ver /\ hash[k].exp = VS!Latest(k).exp
        /\ hash[k].exp \in Nat /\ Len(log[k]) > 0
    BY <1>1, <1>3 DEF IInv, HashIsLatest, VS!Latest, Hash
  <2> QED BY <2>1, <1>1 DEF Cur, Stored, NoHash, VS!Version, VS!Present
<1> QED BY <1>2, <1>3, Zenon

\* An accepted script is an accepted write of the contract.
LEMMA StoreIsMint ==
    ASSUME IInv, NEW k \in Keys, NEW val, NEW del, NEW expect, NEW ttl \in Int,
           Store(k, val, del, expect, ttl)
    PROVE  /\ VS!Mint(k, mint(k), val, del, expect, PExpire(ttl))
           /\ Len(log'[k]) = Len(log[k]) + 1
           /\ VS!Latest(k)' = [ver |-> mint(k), pay |-> val, del |-> del,
                               expect |-> expect, at |-> clock, exp |-> PExpire(ttl)]
           /\ clock' = clock
<1> DEFINE w == [ver |-> mint(k), pay |-> val, del |-> del, expect |-> expect,
                 at |-> clock, exp |-> PExpire(ttl)]
<1>1. log \in [Keys -> Seq(Write)] /\ clock \in Nat /\ log[k] \in Seq(Write)
  BY Zenon DEF IInv, TypeOK
<1>2. log' = [log EXCEPT ![k] = Append(@, w)] /\ clock' = clock /\ Headroom(k)
  BY Zenon DEF Store
<1>3. VS!NewVersion(k, mint(k))
  BY <1>2, MintIsNew DEF VS!NewVersion
<1>4. PExpire(ttl) = 0 \/ PExpire(ttl) > clock
  BY <1>1 DEF PExpire
<1>5. VS!Mint(k, mint(k), val, del, expect, PExpire(ttl))
  BY <1>2, <1>3, <1>4, Zenon DEF VS!Mint
<1> HIDE DEF w
<1>6. log'[k] = Append(log[k], w)
  BY <1>1, <1>2, Zenon
<1>7. Len(Append(log[k], w)) = Len(log[k]) + 1 /\ Append(log[k], w)[Len(log[k]) + 1] = w
  <2>1. log[k] \in Seq(Write \cup {w}) /\ w \in Write \cup {w}
    BY <1>1
  <2> QED BY ONLY <2>1, AppendElement
<1>8. Len(log'[k]) = Len(log[k]) + 1 /\ log'[k][Len(log'[k])] = w
  BY <1>6, <1>7, Zenon
<1>9. VS!Latest(k)' = w
  BY <1>8, Zenon DEF VS!Latest
<1> QED BY <1>2, <1>5, <1>8, <1>9, Zenon DEF w

\* The Redis store implements store.VersionedStore: every script step is a step
\* of the contract and every other step leaves the contract's state alone.
THEOREM Refinement == Spec => ImplementsVersionedStore
<1>1. Init => VS!Init
  BY Zenon DEF Init, VS!Init
<1>2. IInv /\ [Next]_vars => [VS!Next]_(VS!vars)
  <2> SUFFICES ASSUME IInv, [Next]_vars PROVE VS!Next \/ UNCHANGED VS!vars
    BY Zenon
  <2>1. CASE Tick
    BY <2>1, Zenon DEF Tick, VS!Next, VS!Tick
  <2>2. ASSUME NEW c \in Clients, NEW k \in Keys, Load(c, k) PROVE UNCHANGED VS!vars
    BY <2>2, Zenon DEF Load, VS!vars
  <2>3. ASSUME NEW c \in Clients, NEW k \in Keys,
               NEW expect \in {held[c][k].ver, ForceVersion},
               NEW val \in Values, NEW life \in Lifetimes, SetCAS(k, val, expect, life)
        PROVE  VS!Next
    <3>1. redisTTL(life) \in Int
      BY TTLAssumption DEF redisTTL
    <3>2. Store(k, val, FALSE, expect, redisTTL(life))
      BY <2>3, Zenon DEF SetCAS
    <3>3. VS!SetAllowed(k, expect)
      BY <2>3, CurIsVersion, Zenon DEF SetCAS, VS!SetAllowed
    <3>4. VS!SetCAS(k, mint(k), val, expect, PExpire(redisTTL(life)))
      BY <3>1, <3>2, <3>3, StoreIsMint, Zenon DEF VS!SetCAS
    <3>5. Len(log[k]') = Len(log[k]) + 1 /\ UNCHANGED clock
      BY <3>1, <3>2, StoreIsMint, Zenon
    <3>6. VS!Latest(k)' = [ver |-> mint(k), pay |-> val, del |-> FALSE, expect |-> expect,
                          at |-> clock, exp |-> PExpire(redisTTL(life))]
      BY <3>1, <3>2, StoreIsMint, Zenon
    <3>7. LET w == VS!Latest(k)' IN VS!SetCAS(k, w.ver, w.pay, w.expect, w.exp)
      BY <3>4, <3>6
    <3> QED BY <3>5, <3>7, Zenon DEF VS!Next
  <2>4. ASSUME NEW c \in Clients, NEW k \in Keys,
               NEW expect \in {held[c][k].ver, ForceVersion}, CompareAndDelete(k, expect)
        PROVE  VS!Next
    <3>1. TombstoneTTL \in Int
      BY TTLAssumption
    <3>2. Store(k, NoVal, TRUE, expect, TombstoneTTL)
      BY <2>4, Zenon DEF CompareAndDelete
    <3>3. VS!DeleteAllowed(k, expect)
      BY <2>4, CurIsVersion, Zenon DEF CompareAndDelete, VS!DeleteAllowed
    <3>4. VS!CompareAndDelete(k, mint(k), NoVal, expect, PExpire(TombstoneTTL))
      BY <3>1, <3>2, <3>3, StoreIsMint, Zenon DEF VS!CompareAndDelete
    <3>5. Len(log[k]') = Len(log[k]) + 1 /\ UNCHANGED clock
      BY <3>1, <3>2, StoreIsMint, Zenon
    <3>6. VS!Latest(k)' = [ver |-> mint(k), pay |-> NoVal, del |-> TRUE, expect |-> expect,
                          at |-> clock, exp |-> PExpire(TombstoneTTL)]
      BY <3>1, <3>2, StoreIsMint, Zenon
    <3>7. LET w == VS!Latest(k)' IN VS!CompareAndDelete(k, w.ver, w.pay, w.expect, w.exp)
      BY <3>4, <3>6
    <3> QED BY <3>5, <3>7, Zenon DEF VS!Next
  <2>5. CASE UNCHANGED vars
    BY <2>5, Zenon DEF vars, VS!vars
  <2> QED BY <2>1, <2>2, <2>3, <2>4, <2>5, Zenon DEF Next
<1> QED BY <1>1, <1>2, Invariance, PTL DEF Spec, VS!Spec, ImplementsVersionedStore
=============================================================================
