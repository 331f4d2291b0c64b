---------------------------- MODULE NimbusProofs ----------------------------
(***************************************************************************)
(* The inductive invariant of Nimbus and the theorems that rest on it, for  *)
(* every set of instances, keys and writers, every TTL and skew, whichever   *)
(* L1s are conditional, every combination of faults and every bound.        *)
(***************************************************************************)
EXTENDS Nimbus, TLAPS

-----------------------------------------------------------------------------
(* The inductive invariant *)

\* A write's version is its place in the log, its deadlines are those of its
\* age, it reflects a revision the origin has had, and writes are in order.
LogOK ==
    \A k \in Keys : \A n \in 1..Len(log[k]) :
        LET w == log[k][n]
        IN  /\ w.ver = n
            /\ w.at <= now
            /\ w.pay.rev <= origin[k]
            /\ w.pay.su <= w.at + MaxAge(w.del) + MaxSkew
            /\ \A m \in 1..n : log[k][m].at <= w.at

\* An operation holds the entry of a logged write.
HoldsLogged(k, o) ==
    /\ o.pc \in {"install", "delete", "publish"} => o.ent.ver \in 1..Len(log[k])
    /\ o.pc = "install" => o.ent = EntryOf(log[k][o.ent.ver])

\* What a fill read of L2: the version of the last write, or 0, and whatever was
\* written since is younger than the fill.
ReadLogged(k, o) ==
    o.pc \in {"loader", "setcas", "cad", "reload"} =>
        /\ o.nth <= Len(log[k])
        /\ o.expect = 0 \/ o.expect = o.nth
        /\ \A n \in (o.nth + 1)..Len(log[k]) : o.read <= log[k][n].at

\* The loader ran after the read, so it saw every revision written before it.
LoadedCurrent(k, o) ==
    o.pc \in {"setcas", "cad"} => \A n \in 1..o.nth : log[k][n].pay.rev <= o.rev

OpOK(f) ==
    LET o == op[f]
    IN  /\ o.read <= now
        /\ o.at <= now + MaxSkew
        /\ o.rev <= origin[f[2]]
        /\ HoldsLogged(f[2], o)
        /\ ReadLogged(f[2], o)
        /\ LoadedCurrent(f[2], o)

\* Events are about logged writes, on the bus and once they are applied.
EventsOK ==
    \A i \in Instances :
        /\ \A e \in bus[i] : e.ver \in 1..Len(log[e.key])
        /\ \A k \in Keys, v \in Nat : <<k, v>> \in seen[i] => v \in 1..Len(log[k])

IInv ==
    /\ TypeOK
    /\ LogOK
    /\ \A f \in Procs : OpOK(f)
    /\ EntryIsMinted
    /\ EventsOK

\* Write n of k leaves version v alone at i: v is not older, or was in hand.
Spared(i, k, v, n) == v >= n \/ <<v, n>> \in late[i][k]

\* Write n of k has taken effect at i: in its L1 and in the hands of the operations
\* that are about to install there.
Covered(i, k, n) ==
    /\ l1[i][k] # NoEntry => Spared(i, k, l1[i][k].ver, n)
    /\ \A r \in Fills \cup Writers :
          op[<<i, k, r>>].pc = "install" => Spared(i, k, op[<<i, k, r>>].ent.ver, n)

\* A write that has taken effect stays in effect.
Covers ==
    \A i \in Instances, k \in Keys : \A n \in 1..Len(log[k]) :
        Covered(i, k, n) => Covered(i, k, n)'

\* What every step keeps.
Keeps == IInv' /\ Covers

-----------------------------------------------------------------------------
(* Facts about sequences, deadlines and the log *)

\* An element of a typed sequence has the type.
LEMMA SeqElement ==
    ASSUME NEW S, NEW s \in Seq(S), NEW n \in 1..Len(s)
    PROVE  Len(s) \in Nat /\ n \in Nat /\ s[n] \in S
OBVIOUS

\* What Append does to a typed sequence.
LEMMA AppendElement ==
    ASSUME NEW S, NEW s \in Seq(S), NEW e \in S
    PROVE  /\ Append(s, e) \in Seq(S)
           /\ Len(s) \in Nat
           /\ Len(Append(s, e)) = Len(s) + 1
           /\ Append(s, e)[Len(s) + 1] = e
           /\ \A n \in 1..Len(s) : Append(s, e)[n] = s[n]
OBVIOUS

\* A nested update keeps the type of a two-level map such as l1.
LEMMA UpdateTwo ==
    ASSUME NEW A, NEW B, NEW C, NEW f \in [A -> [B -> C]], NEW a \in A, NEW b \in B, NEW c \in C
    PROVE  [f EXCEPT ![a][b] = c] \in [A -> [B -> C]]
BY Zenon

\* Two deadlines chained, in plain arithmetic.
LEMMA AddBounds ==
    ASSUME NEW a \in Nat, NEW b \in Nat, NEW m \in Nat, NEW n \in Nat, NEW s \in Nat,
           a <= b + m, b <= n + s
    PROVE  a <= n + m + s
OBVIOUS

\* A sum of naturals is not negative.
LEMMA SumBound ==
    ASSUME NEW a \in Nat, NEW b \in Nat, NEW c \in Nat
    PROVE  0 <= a + b + c
OBVIOUS

\* The deadlines of a value are within its greatest age (window, applyJitter).
LEMMA WindowBound ==
    ASSUME NEW t \in Nat, NEW w \in window(t)
    PROVE  /\ w.fu \in Nat /\ w.su \in Nat
           /\ MaxAge(FALSE) \in Nat
           /\ w.su <= t + MaxAge(FALSE)
<1>1. PICK f \in FreshTTLs : w = [fu |-> Capped(t, t + f), su |-> Capped(t, t + f + StaleWindow)]
  BY Zenon DEF window
<1>2. /\ f \in Nat /\ NoExpiry \in Nat
      /\ Fresh \in Nat /\ Jitter \in Nat /\ StaleWindow \in Nat /\ MaxTTL \in Nat
      /\ f <= (IF Fresh = 0 THEN NoExpiry ELSE Fresh + Jitter)
  BY TimeAssumption, SizeAssumption DEF FreshTTLs, NoExpiry
<1>3. w.fu = Capped(t, t + f) /\ w.su = Capped(t, t + f + StaleWindow)
  BY <1>1, Zenon
<1> QED BY <1>2, <1>3 DEF Capped, MaxAge

\* A negative entry is within its age (negativeEntry).
LEMMA NegativeBound ==
    ASSUME NEW t \in Nat
    PROVE  negative(t) \in Nat /\ MaxAge(TRUE) \in Nat /\ negative(t) <= t + MaxAge(TRUE)
BY TimeAssumption, SizeAssumption DEF negative, MaxAge, NoExpiry

\* Redis retains a live entry at least for the floor (redisTTL).
LEMMA RetainBound ==
    ASSUME now \in Nat, NEW su \in Nat, NEW i \in Instances
    PROVE  /\ Retain(redisTTL(su, Clock(i))) \in Nat
           /\ Retain(redisTTL(su, Clock(i))) >= now + TTLFloor
<1>1. TTLFloor \in Nat \ {0} /\ Skew[i] \in Nat /\ Clock(i) \in Nat
  BY TimeAssumption DEF Clock
<1>2. redisTTL(su, Clock(i)) \in Nat /\ redisTTL(su, Clock(i)) >= TTLFloor
  BY <1>1 DEF redisTTL
<1> QED BY <1>1, <1>2 DEF Retain

\* The log of k grows by the write a, made now.
Appends(k, a) ==
    /\ a \in Accepted
    /\ a.ver = Len(log[k]) + 1
    /\ a.at = now
    /\ a.pay.rev <= origin[k]
    /\ a.pay.su <= now + MaxAge(a.del) + MaxSkew
    /\ log' = [log EXCEPT ![k] = Append(@, a)]

\* What appending to the log of one key does to the logs of all keys.
LEMMA AppendsLog ==
    ASSUME TypeOK, NEW k \in Keys, NEW a, Appends(k, a)
    PROVE  /\ log' \in [Keys -> Seq(Accepted)]
           /\ Len(log[k]) \in Nat
           /\ Len(log'[k]) = Len(log[k]) + 1
           /\ log'[k][Len(log[k]) + 1] = a
           /\ L2!Latest(k)' = a
           /\ \A n \in 1..Len(log[k]) : log'[k][n] = log[k][n]
           /\ \A j \in Keys \ {k} : log'[j] = log[j]
<1>1. log \in [Keys -> Seq(Accepted)] /\ log[k] \in Seq(Accepted) /\ a \in Accepted
      /\ log' = [log EXCEPT ![k] = Append(@, a)]
  BY Zenon DEF TypeOK, Appends
<1>2. /\ Append(log[k], a) \in Seq(Accepted)
      /\ Len(log[k]) \in Nat
      /\ Len(Append(log[k], a)) = Len(log[k]) + 1
      /\ Append(log[k], a)[Len(log[k]) + 1] = a
      /\ \A n \in 1..Len(log[k]) : Append(log[k], a)[n] = log[k][n]
  BY ONLY <1>1, AppendElement
<1>3. log'[k] = Append(log[k], a) /\ \A j \in Keys \ {k} : log'[j] = log[j]
  BY <1>1, Zenon
<1>4. log' \in [Keys -> Seq(Accepted)]
  BY <1>1, <1>2, Zenon
<1>5. L2!Latest(k)' = a
  BY <1>2, <1>3, Zenon DEF L2!Latest
<1> QED BY <1>2, <1>3, <1>4, <1>5, Zenon

\* An accepted SetCAS logs the value of o, with deadlines counted from time t.
LEMMA SetCASAppends ==
    ASSUME TypeOK, NEW i \in Instances, NEW k \in Keys,
           NEW o, o.rev \in Nat, o.rev <= origin[k], o.read \in Nat,
           NEW t \in Nat, t <= now + MaxSkew, NEW w \in window(t),
           NEW expect \in Nat \cup {ForceVersion}, SetCAS(i, k, o, w, expect)
    PROVE  \E a : /\ Appends(k, a)
                  /\ ~a.del /\ a.expect = expect
                  /\ a.pay.rev = o.rev /\ a.pay.read = o.read
                  /\ a.exp >= now + TTLFloor
<1> DEFINE x == Retain(redisTTL(w.su, Clock(i)))
           p == [rev |-> o.rev, fu |-> w.fu, su |-> w.su, read |-> o.read]
           a == [ver |-> Len(log[k]) + 1, pay |-> p, del |-> FALSE,
                 expect |-> expect, at |-> now, exp |-> x]
<1>1. now \in Nat /\ MaxSkew \in Nat /\ Len(log[k]) \in Nat
  BY TimeAssumption DEF TypeOK
<1>2. /\ w.fu \in Nat /\ w.su \in Nat /\ MaxAge(FALSE) \in Nat
      /\ w.su <= t + MaxAge(FALSE)
  BY WindowBound, Zenon
<1>3. x \in Nat /\ x >= now + TTLFloor
  BY <1>1, <1>2, RetainBound, Zenon
<1>4. log' = [log EXCEPT ![k] = Append(@, a)]
  BY Zenon DEF SetCAS, L2!SetCAS, L2!Mint, NextVersion, Payload
<1>5. /\ a.ver = Len(log[k]) + 1 /\ a.at = now /\ a.pay.rev = o.rev /\ a.pay.su = w.su
      /\ a.pay.read = o.read /\ a.del = FALSE /\ a.expect = expect /\ a.exp = x
  BY Zenon
<1>6. a \in Accepted
  BY <1>1, <1>2, <1>3 DEF Accepted
<1> HIDE DEF a, x
<1>7. w.su <= now + MaxAge(FALSE) + MaxSkew
  BY <1>1, <1>2, AddBounds, Zenon
<1>8. a.pay.su <= now + MaxAge(a.del) + MaxSkew
  BY <1>5, <1>7, Zenon
<1> QED BY <1>3, <1>4, <1>5, <1>6, <1>8, Zenon DEF Appends

\* A tombstone is logged for k, on behalf of o, which expects expect.
Entombs(k, o, expect) ==
    \E a : /\ Appends(k, a)
           /\ a.del /\ a.expect = expect
           /\ a.pay.rev = o.rev /\ a.pay.read = o.read
           /\ a.exp = Retain(TombstoneTTL)

\* An accepted CompareAndDelete logs a tombstone.
LEMMA DeleteAppends ==
    ASSUME TypeOK, NEW k \in Keys,
           NEW o, o.rev \in Nat, o.rev <= origin[k], o.read \in Nat,
           NEW until \in Nat, until <= now + MaxAge(TRUE) + MaxSkew,
           NEW expect, expect \in Nat \/ expect = ForceVersion,
           CompareAndDelete(k, o, until, expect)
    PROVE  Entombs(k, o, expect)
<1> DEFINE p == [rev |-> o.rev, fu |-> until, su |-> until, read |-> o.read]
           a == [ver |-> Len(log[k]) + 1, pay |-> p, del |-> TRUE,
                 expect |-> expect, at |-> now, exp |-> Retain(TombstoneTTL)]
<1>1. now \in Nat /\ MaxSkew \in Nat /\ Len(log[k]) \in Nat /\ Retain(TombstoneTTL) \in Nat
  BY TimeAssumption DEF TypeOK, Retain
<1>2. log' = [log EXCEPT ![k] = Append(@, a)]
  BY Zenon DEF CompareAndDelete, L2!CompareAndDelete, L2!Mint, NextVersion, Payload
<1>3. /\ a.ver = Len(log[k]) + 1 /\ a.at = now /\ a.pay.rev = o.rev /\ a.pay.su = until
      /\ a.pay.read = o.read /\ a.del = TRUE /\ a.expect = expect
      /\ a.exp = Retain(TombstoneTTL)
  BY Zenon
<1>4. a \in Accepted
  BY <1>1 DEF Accepted
<1> HIDE DEF a
<1> QED BY <1>2, <1>3, <1>4, Zenon DEF Appends, Entombs

-----------------------------------------------------------------------------
(* What every step keeps *)

\* Time, revisions and the log only grow, and new writes are made now.
Grows ==
    /\ now' \in Nat /\ now <= now'
    /\ origin' \in [Keys -> Nat] /\ \A k \in Keys : origin[k] <= origin'[k]
    /\ log' \in [Keys -> Seq(Accepted)]
    /\ \A k \in Keys : /\ Len(log[k]) <= Len(log'[k])
                       /\ \A n \in 1..Len(log[k]) : log'[k][n] = log[k][n]
                       /\ \A n \in (Len(log[k]) + 1)..Len(log'[k]) : log'[k][n].at = now

\* Accepting a write keeps everything accepted before it.
LEMMA AppendsGrows ==
    ASSUME TypeOK, NEW k \in Keys, NEW a, Appends(k, a), now' = now, origin' = origin
    PROVE  Grows
<1>1. /\ log' \in [Keys -> Seq(Accepted)]
      /\ Len(log[k]) \in Nat
      /\ Len(log'[k]) = Len(log[k]) + 1
      /\ log'[k][Len(log[k]) + 1] = a
      /\ \A n \in 1..Len(log[k]) : log'[k][n] = log[k][n]
      /\ \A j \in Keys \ {k} : log'[j] = log[j]
  BY AppendsLog, Zenon
<1>2. a.at = now /\ now \in Nat /\ origin \in [Keys -> Nat]
  BY Zenon DEF Appends, TypeOK
<1>3. ASSUME NEW j \in Keys
      PROVE  /\ Len(log[j]) <= Len(log'[j])
             /\ \A n \in 1..Len(log[j]) : log'[j][n] = log[j][n]
             /\ \A n \in (Len(log[j]) + 1)..Len(log'[j]) : log'[j][n].at = now
  <2>1. CASE j = k
    <3>1. ASSUME NEW n \in (Len(log[k]) + 1)..Len(log'[k]) PROVE n = Len(log[k]) + 1
      BY <1>1
    <3> QED BY <1>1, <1>2, <2>1, <3>1
  <2>2. CASE j # k
    <3>1. Len(log[j]) \in Nat
      BY DEF TypeOK
    <3> QED BY <1>1, <2>2, <3>1
  <2> QED BY <2>1, <2>2, Zenon
<1> QED BY <1>1, <1>2, <1>3, SMTT(30) DEF Grows

\* A step that leaves L2 alone keeps everything accepted before it.
LEMMA KeptGrows ==
    ASSUME TypeOK, log' = log, now' \in Nat, now <= now', origin' \in [Keys -> Nat],
           \A k \in Keys : origin[k] <= origin'[k]
    PROVE  Grows
<1>1. ASSUME NEW k \in Keys PROVE Len(log[k]) \in Nat
  BY DEF TypeOK
<1> QED BY <1>1 DEF Grows, TypeOK

\* The log stays well formed when L2 accepts a write (SetCAS, CompareAndDelete).
LEMMA LogAppend ==
    ASSUME TypeOK, LogOK, NEW k \in Keys, NEW a, Appends(k, a), now' = now, origin' = origin
    PROVE  LogOK'
<1>1. /\ Len(log[k]) \in Nat
      /\ Len(log'[k]) = Len(log[k]) + 1
      /\ log'[k][Len(log[k]) + 1] = a
      /\ \A n \in 1..Len(log[k]) : log'[k][n] = log[k][n]
      /\ \A j \in Keys \ {k} : log'[j] = log[j]
  BY AppendsLog, Zenon
<1>2. /\ a.ver = Len(log[k]) + 1 /\ a.at = now /\ a.pay.rev <= origin[k]
      /\ a.pay.su <= now + MaxAge(a.del) + MaxSkew /\ now \in Nat
  BY Zenon DEF Appends, TypeOK
<1>3. ASSUME NEW j \in Keys, NEW n \in 1..Len(log'[j])
      PROVE  /\ log'[j][n].ver = n
             /\ log'[j][n].at <= now
             /\ log'[j][n].pay.rev <= origin[j]
             /\ log'[j][n].pay.su <= log'[j][n].at + MaxAge(log'[j][n].del) + MaxSkew
             /\ \A m \in 1..n : log'[j][m].at <= log'[j][n].at
  <2>1. CASE j # k
    BY <1>1, <2>1, SMTT(30) DEF LogOK
  <2>2. CASE j = k /\ n \in 1..Len(log[k])
    <3>1. \A m \in 1..n : m \in 1..Len(log[k])
      BY <1>1, <2>2
    <3>2. log'[k][n] = log[k][n] /\ \A m \in 1..n : log'[k][m] = log[k][m]
      BY <1>1, <2>2, <3>1, Zenon
    <3>3. /\ log[k][n].ver = n
          /\ log[k][n].at <= now
          /\ log[k][n].pay.rev <= origin[k]
          /\ log[k][n].pay.su <= log[k][n].at + MaxAge(log[k][n].del) + MaxSkew
          /\ \A m \in 1..n : log[k][m].at <= log[k][n].at
      BY ONLY <2>2, LogOK, k \in Keys, Zenon DEF LogOK
    <3> QED BY ONLY <2>2, <3>2, <3>3, Zenon
  <2>3. CASE j = k /\ n = Len(log[k]) + 1
    <3>1. \A m \in 1..n : log'[k][m].at <= now
      <4>1. SUFFICES ASSUME NEW m \in 1..n PROVE log'[k][m].at <= now
        BY Zenon
      <4>2. CASE m \in 1..Len(log[k])
        BY <1>1, <4>2, Zenon DEF LogOK
      <4>3. CASE m = Len(log[k]) + 1
        BY <1>1, <1>2, <4>3
      <4> QED BY <1>1, <2>3, <4>2, <4>3
    <3> QED BY <1>1, <1>2, <2>3, <3>1, Zenon
  <2> QED BY <1>1, <2>1, <2>2, <2>3
<1>4. SUFFICES ASSUME NEW j \in Keys, NEW n \in 1..Len(log'[j])
               PROVE  /\ log'[j][n].ver = n
                      /\ log'[j][n].at <= now'
                      /\ log'[j][n].pay.rev <= origin'[j]
                      /\ log'[j][n].pay.su <= log'[j][n].at + MaxAge(log'[j][n].del) + MaxSkew
                      /\ \A m \in 1..n : log'[j][m].at <= log'[j][n].at
  BY Zenon DEF LogOK
<1> QED BY <1>3, Zenon

\* The log stays well formed when L2 is left alone.
LEMMA LogKept ==
    ASSUME TypeOK, LogOK, Grows, log' = log
    PROVE  LogOK'
<1>1. SUFFICES ASSUME NEW k \in Keys, NEW n \in 1..Len(log[k])
               PROVE  log[k][n].at <= now' /\ log[k][n].pay.rev <= origin'[k]
  BY Zenon DEF LogOK
<1>2. log[k][n] \in Accepted
  BY SeqElement, Zenon DEF TypeOK
<1>3. log[k][n].at \in Nat /\ log[k][n].pay.rev \in Nat
  BY <1>2, Zenon DEF Accepted
<1>4. log[k][n].at <= now /\ log[k][n].pay.rev <= origin[k]
  BY Zenon DEF LogOK
<1>5. now \in Nat /\ now' \in Nat /\ now <= now'
  BY Zenon DEF TypeOK, Grows
<1>6. origin[k] \in Nat /\ origin'[k] \in Nat /\ origin[k] <= origin'[k]
  BY Zenon DEF TypeOK, Grows
<1> QED BY <1>3, <1>4, <1>5, <1>6

\* A write that was accepted stays where it is in the log.
LEMMA MintedKept ==
    ASSUME TypeOK, Grows, NEW k \in Keys, NEW n \in 1..Len(log[k])
    PROVE  n \in 1..Len(log'[k]) /\ log'[k][n] = log[k][n]
<1>1. Len(log[k]) \in Nat /\ Len(log'[k]) \in Nat
  BY DEF TypeOK, Grows
<1> QED BY <1>1 DEF Grows

\* An operation that a step does not touch stays as it is.
LEMMA OpKept ==
    ASSUME TypeOK, Grows, NEW f \in Procs, OpOK(f), op'[f] = op[f]
    PROVE  OpOK(f)'
<1> DEFINE o == op[f]
           k == f[2]
<1>1. k \in Keys /\ o \in Operation
  BY Zenon DEF Procs, TypeOK
<1>2. /\ o.read \in Nat /\ o.at \in Nat /\ o.rev \in Nat /\ o.nth \in Nat
  BY <1>1, Zenon DEF Operation
<1>3. now \in Nat /\ now' \in Nat /\ now <= now' /\ MaxSkew \in Nat
  BY TimeAssumption, Zenon DEF TypeOK, Grows
<1>4. origin[k] \in Nat /\ origin'[k] \in Nat /\ origin[k] <= origin'[k]
  BY <1>1, Zenon DEF TypeOK, Grows
<1>5. Len(log[k]) \in Nat /\ Len(log'[k]) \in Nat /\ Len(log[k]) <= Len(log'[k])
  BY <1>1 DEF TypeOK, Grows
<1>6. \A n \in 1..Len(log[k]) : n \in 1..Len(log'[k]) /\ log'[k][n] = log[k][n]
  BY <1>1, MintedKept, Zenon
<1>7. \A n \in (Len(log[k]) + 1)..Len(log'[k]) : log'[k][n].at = now
  BY <1>1, Zenon DEF Grows
<1>8. /\ o.read <= now /\ o.at <= now + MaxSkew /\ o.rev <= origin[k]
      /\ HoldsLogged(k, o) /\ ReadLogged(k, o) /\ LoadedCurrent(k, o)
  BY Zenon DEF OpOK
<1>0. o' = o /\ k' = k
  BY Zenon
<1> HIDE DEF o, k
<1>9. o.read <= now' /\ o.at <= now' + MaxSkew /\ o.rev <= origin'[k]
  BY <1>2, <1>3, <1>4, <1>8
<1>10. HoldsLogged(k, o)'
  BY <1>0, <1>6, <1>8, Zenon DEF HoldsLogged
<1>11. ASSUME o.pc \in {"loader", "setcas", "cad", "reload"}
       PROVE  /\ o.nth <= Len(log'[k])
              /\ o.expect = 0 \/ o.expect = o.nth
              /\ \A n \in (o.nth + 1)..Len(log'[k]) : o.read <= log'[k][n].at
              /\ \A n \in 1..o.nth : n \in 1..Len(log[k])
  <2>1. /\ o.nth <= Len(log[k])
        /\ o.expect = 0 \/ o.expect = o.nth
        /\ \A n \in (o.nth + 1)..Len(log[k]) : o.read <= log[k][n].at
    BY <1>8, <1>11, Zenon DEF ReadLogged
  <2>2. ASSUME NEW n \in (o.nth + 1)..Len(log'[k]) PROVE o.read <= log'[k][n].at
    <3>1. CASE n <= Len(log[k])
      <4>1. n \in 1..Len(log[k]) /\ n \in (o.nth + 1)..Len(log[k])
        BY <1>2, <1>5, <3>1
      <4> QED BY <1>6, <2>1, <4>1, Zenon
    <3>2. CASE n > Len(log[k])
      <4>1. n \in (Len(log[k]) + 1)..Len(log'[k])
        BY <1>2, <1>5, <3>2
      <4> QED BY <1>7, <1>8, <4>1, Zenon
    <3> QED BY <1>2, <1>5, <3>1, <3>2
  <2> QED BY <1>2, <1>5, <2>1, <2>2
<1>12. ReadLogged(k, o)'
  BY <1>0, <1>11, Zenon DEF ReadLogged
<1>13. LoadedCurrent(k, o)'
  BY <1>0, <1>6, <1>8, <1>11, Zenon DEF LoadedCurrent
<1> QED BY <1>0, <1>9, <1>10, <1>12, <1>13, Zenon DEF OpOK, o, k

\* Events stand for accepted writes, and still do after any step that grows the log.
LEMMA EventsKept ==
    ASSUME TypeOK, EventsOK, Grows, bus' = bus, seen' = seen
    PROVE  EventsOK'
<1>1. ASSUME NEW i \in Instances, NEW e \in bus[i] PROVE e.ver \in 1..Len(log'[e.key])
  <2>1. e \in Event
    BY Zenon DEF TypeOK
  <2>2. e.key \in Keys
    BY <2>1, Zenon DEF Event
  <2>3. e.ver \in 1..Len(log[e.key])
    BY Zenon DEF EventsOK
  <2> QED BY <2>2, <2>3, MintedKept, Zenon
<1>2. ASSUME NEW i \in Instances, NEW k \in Keys, NEW v \in Nat, <<k, v>> \in seen[i]
      PROVE  v \in 1..Len(log'[k])
  <2>1. v \in 1..Len(log[k])
    BY <1>2, Zenon DEF EventsOK
  <2> QED BY <2>1, MintedKept, Zenon
<1> QED BY <1>1, <1>2, Zenon DEF EventsOK

\* The operation of a role is a process, and its parts can be read back.
LEMMA ProcIn ==
    ASSUME NEW i \in Instances, NEW k \in Keys, NEW r \in Fills \cup Writers
    PROVE  /\ <<i, k, r>> \in Procs
           /\ <<i, k, r>>[1] = i /\ <<i, k, r>>[2] = k /\ <<i, k, r>>[3] = r
BY Zenon DEF Procs

\* The history of late entries grows, and that of missed broadcasts has its type.
HistoryKept ==
    /\ late' \in [Instances -> [Keys -> SUBSET (Nat \X Nat)]]
    /\ \A i \in Instances, k \in Keys : late[i][k] \subseteq late'[i][k]
    /\ missed' \in [Instances -> SUBSET (Keys \X Nat)]

\* A step that records nothing keeps the history.
LEMMA SameHistory ==
    ASSUME IInv, late' = late, missed' = missed
    PROVE  HistoryKept
BY Zenon DEF IInv, TypeOK, HistoryKept

\* What enters an L1 was in hand, and what comes in hand is the last write: then
\* every write that has taken effect stays in effect.
LEMMA CoversFrom ==
    ASSUME TypeOK, Grows, HistoryKept,
           \A i \in Instances, k \in Keys :
               \/ l1'[i][k] = NoEntry
               \/ l1'[i][k] = l1[i][k]
               \/ \E r \in Fills \cup Writers : /\ op[<<i, k, r>>].pc = "install"
                                              /\ l1'[i][k] = op[<<i, k, r>>].ent,
           \A i \in Instances, k \in Keys, r \in Fills \cup Writers :
               op'[<<i, k, r>>].pc = "install" =>
                   \/ op'[<<i, k, r>>] = op[<<i, k, r>>]
                   \/ op'[<<i, k, r>>].ent.ver = Len(log'[k])
    PROVE  Covers
<1>1. SUFFICES ASSUME NEW i \in Instances, NEW k \in Keys, NEW n \in 1..Len(log[k]),
                      Covered(i, k, n)
               PROVE  Covered(i, k, n)'
  BY Zenon DEF Covers
<1>2. \A v : Spared(i, k, v, n) => Spared(i, k, v, n)'
  BY Zenon DEF Spared, HistoryKept
<1>3. ASSUME l1'[i][k] # NoEntry PROVE Spared(i, k, l1'[i][k].ver, n)
  BY <1>1, <1>3, Zenon DEF Covered
<1>4. Len(log'[k]) >= n
  <2>1. Len(log[k]) \in Nat /\ Len(log'[k]) \in Nat /\ Len(log[k]) <= Len(log'[k])
    BY DEF TypeOK, Grows
  <2> QED BY <2>1
<1>5. ASSUME NEW r \in Fills \cup Writers, op'[<<i, k, r>>].pc = "install"
      PROVE  Spared(i, k, op[<<i, k, r>>].ent.ver, n)'
  <2>1. CASE op'[<<i, k, r>>] = op[<<i, k, r>>]
    BY <1>1, <1>2, <1>5, <2>1, Zenon DEF Covered
  <2>2. CASE op'[<<i, k, r>>].ent.ver = Len(log'[k])
    BY <1>4, <2>2, Zenon DEF Spared
  <2> QED BY <1>5, <2>1, <2>2, Zenon
<1> QED BY <1>2, <1>3, <1>5, Zenon DEF Covered

\* A step of the operation of role r on k at i: the operation becomes rec, the
\* entry in L1 becomes e, and L2 may accept a write.
LEMMA OpStep ==
    ASSUME IInv, NEW i \in Instances, NEW k \in Keys, NEW r \in Fills \cup Writers,
           NEW rec \in Operation, NEW e \in Entry,
           op' = [op EXCEPT ![<<i, k, r>>] = rec],
           l1' = [l1 EXCEPT ![i][k] = e],
           UNCHANGED <<now, origin, bus, seen>>, HistoryKept,
           log' = log \/ \E a : Appends(k, a),
           OpOK(<<i, k, r>>)',
           \/ e = NoEntry
           \/ e = l1[i][k]
           \/ op[<<i, k, r>>].pc = "install" /\ e = op[<<i, k, r>>].ent,
           rec.pc = "install" => rec.ent.ver = Len(log'[k])
    PROVE  Keeps
<1> DEFINE g == <<i, k, r>>
<1>1. g \in Procs /\ g[2] = k
  BY ProcIn, Zenon
<1>2. TypeOK /\ LogOK /\ EntryIsMinted /\ EventsOK /\ \A f \in Procs : OpOK(f)
  BY Zenon DEF IInv
<1>3. now \in Nat /\ origin \in [Keys -> Nat] /\ log \in [Keys -> Seq(Accepted)]
  BY <1>2, Zenon DEF TypeOK
<1>4. Grows /\ LogOK'
  <2>1. CASE log' = log
    <3>1. Grows
      BY <1>2, <1>3, <2>1, KeptGrows
    <3> QED BY <1>2, <2>1, <3>1, LogKept, Zenon
  <2>2. CASE \E a : Appends(k, a)
    BY <1>2, <2>2, AppendsGrows, LogAppend, Zenon
  <2> QED BY <2>1, <2>2, Zenon
<1>5. TypeOK'
  <2>1. op' \in [Procs -> Operation]
    BY <1>1, <1>2, Zenon DEF TypeOK
  <2>2. l1' \in [Instances -> [Keys -> Entry]]
    BY <1>2, Zenon DEF TypeOK
  <2>3. log' \in [Keys -> Seq(Accepted)]
    BY <1>4, Zenon DEF Grows
  <2> QED BY <1>2, <2>1, <2>2, <2>3, Zenon DEF TypeOK, HistoryKept
<1>6. ASSUME NEW f \in Procs PROVE OpOK(f)'
  <2>1. CASE f = g
    BY <2>1, Zenon
  <2>2. CASE f # g
    <3>1. op'[f] = op[f]
      BY <1>2, <2>2, Zenon DEF TypeOK
    <3> QED BY <1>2, <1>4, <3>1, OpKept, Zenon
  <2> QED BY <2>1, <2>2, Zenon
<1>7. ASSUME NEW j \in Instances, NEW q \in Keys
      PROVE  \/ l1'[j][q] = NoEntry
             \/ l1'[j][q] = l1[j][q]
             \/ j = i /\ q = k /\ op[g].pc = "install" /\ l1'[j][q] = op[g].ent
  <2>1. CASE j = i /\ q = k
    BY <1>2, <2>1, Zenon DEF TypeOK
  <2>2. CASE ~(j = i /\ q = k)
    BY <1>2, <2>2, Zenon DEF TypeOK
  <2> QED BY <2>1, <2>2, Zenon
<1>8. EntryIsMinted'
  <2>1. SUFFICES ASSUME NEW j \in Instances, NEW q \in Keys, l1'[j][q] # NoEntry
                 PROVE  /\ l1'[j][q].ver \in 1..Len(log'[q])
                        /\ l1'[j][q] = EntryOf(log'[q][l1'[j][q].ver])
    BY Zenon DEF EntryIsMinted
  <2>2. /\ l1'[j][q].ver \in 1..Len(log[q])
        /\ l1'[j][q] = EntryOf(log[q][l1'[j][q].ver])
    <3>1. CASE l1'[j][q] = l1[j][q]
      BY <1>2, <2>1, <3>1, Zenon DEF EntryIsMinted
    <3>2. CASE j = i /\ q = k /\ op[g].pc = "install" /\ l1'[j][q] = op[g].ent
      <4>1. HoldsLogged(k, op[g])
        BY <1>1, <1>2, Zenon DEF OpOK
      <4> QED BY <3>2, <4>1, Zenon DEF HoldsLogged
    <3> QED BY <1>7, <2>1, <3>1, <3>2, Zenon
  <2> QED BY <1>2, <1>4, <2>2, MintedKept, Zenon
<1>9. EventsOK'
  BY <1>2, <1>4, EventsKept, Zenon
<1>10. ASSUME NEW j \in Instances, NEW q \in Keys, NEW s \in Fills \cup Writers,
              op'[<<j, q, s>>].pc = "install"
       PROVE  \/ op'[<<j, q, s>>] = op[<<j, q, s>>]
              \/ op'[<<j, q, s>>].ent.ver = Len(log'[q])
  <2> DEFINE f == <<j, q, s>>
  <2>1. f \in Procs
    BY ProcIn, Zenon
  <2>2. CASE f # g
    BY <1>2, <2>1, <2>2, Zenon DEF TypeOK
  <2>3. CASE f = g
    <3>1. op'[f] = rec /\ q = k
      BY <1>1, <1>2, <2>3, Zenon DEF TypeOK
    <3> QED BY <1>10, <3>1, Zenon
  <2> QED BY <2>2, <2>3, Zenon
<1>11. Covers
  <2>1. ASSUME NEW j \in Instances, NEW q \in Keys
        PROVE  \/ l1'[j][q] = NoEntry
               \/ l1'[j][q] = l1[j][q]
               \/ \E s \in Fills \cup Writers : /\ op[<<j, q, s>>].pc = "install"
                                              /\ l1'[j][q] = op[<<j, q, s>>].ent
    <3>1. CASE l1'[j][q] = NoEntry \/ l1'[j][q] = l1[j][q]
      BY <3>1, Zenon
    <3>2. CASE j = i /\ q = k /\ op[g].pc = "install" /\ l1'[j][q] = op[g].ent
      <4>1. op[<<j, q, r>>].pc = "install" /\ l1'[j][q] = op[<<j, q, r>>].ent
        BY <3>2, Zenon
      <4> QED BY <4>1, Zenon
    <3> QED BY <1>7, <3>1, <3>2, Zenon
  <2> QED BY <1>2, <1>4, <1>10, <2>1, CoversFrom, Zenon
<1> QED BY <1>4, <1>5, <1>6, <1>8, <1>9, <1>11, Zenon DEF IInv, Keeps

-----------------------------------------------------------------------------
(* The ways a step leaves its operation *)

\* The zero entry and the idle operation have their types.
LEMMA Blank ==
    /\ NoEntry \in Entry /\ NoOp \in Operation
    /\ NoEntry.ver = 0
    /\ NoOp.pc = "idle" /\ NoOp.read = 0 /\ NoOp.expect = 0 /\ NoOp.nth = 0
    /\ NoOp.at = 0 /\ NoOp.rev = 0 /\ NoOp.ent = NoEntry
BY Zenon DEF NoEntry, NoOp, Entry, Operation

\* Leaving L1 alone is a trivial update of it.
LEMMA L1Same ==
    ASSUME TypeOK, NEW i \in Instances, NEW k \in Keys
    PROVE  l1[i][k] \in Entry /\ l1 = [l1 EXCEPT ![i][k] = l1[i][k]]
BY Zenon DEF TypeOK

\* OpOK of the operation a step has just set.
LEMMA RecOK ==
    ASSUME TypeOK, NEW i \in Instances, NEW k \in Keys, NEW r \in Fills \cup Writers,
           NEW rec, op' = [op EXCEPT ![<<i, k, r>>] = rec],
           rec.read <= now', rec.at <= now' + MaxSkew, rec.rev <= origin'[k],
           rec.pc \in {"install", "delete", "publish"} => rec.ent.ver \in 1..Len(log'[k]),
           rec.pc = "install" => rec.ent = EntryOf(log'[k][rec.ent.ver]),
           rec.pc \in {"loader", "setcas", "cad", "reload"} =>
               /\ rec.nth <= Len(log'[k])
               /\ rec.expect = 0 \/ rec.expect = rec.nth
               /\ \A n \in (rec.nth + 1)..Len(log'[k]) : rec.read <= log'[k][n].at,
           rec.pc \in {"setcas", "cad"} =>
               \A n \in 1..rec.nth : log'[k][n].pay.rev <= rec.rev
    PROVE  OpOK(<<i, k, r>>)'
<1> DEFINE g == <<i, k, r>>
<1>1. g \in Procs /\ g[2] = k
  BY ProcIn, Zenon
<1>2. op'[g] = rec
  BY <1>1, Zenon DEF TypeOK
<1>3. HoldsLogged(g[2], op[g])'
  BY <1>1, <1>2, Zenon DEF HoldsLogged
<1>4. ReadLogged(g[2], op[g])'
  BY <1>1, <1>2, Zenon DEF ReadLogged
<1>5. LoadedCurrent(g[2], op[g])'
  BY <1>1, <1>2, Zenon DEF LoadedCurrent
<1> QED BY <1>1, <1>2, <1>3, <1>4, <1>5, Zenon DEF OpOK

\* The operation returns, with or without a write to L2 or L1.
LEMMA ReturnStep ==
    ASSUME IInv, NEW i \in Instances, NEW k \in Keys, NEW r \in Fills \cup Writers,
           NEW e \in Entry,
           Return(<<i, k, r>>),
           l1' = [l1 EXCEPT ![i][k] = e],
           UNCHANGED <<now, origin, bus, seen>>, HistoryKept,
           log' = log \/ \E a : Appends(k, a),
           \/ e = NoEntry
           \/ e = l1[i][k]
           \/ op[<<i, k, r>>].pc = "install" /\ e = op[<<i, k, r>>].ent
    PROVE  Keeps
<1>1. TypeOK /\ now \in Nat /\ origin[k] \in Nat /\ MaxSkew \in Nat
  BY TimeAssumption, Zenon DEF IInv, TypeOK
<1>2. op' = [op EXCEPT ![<<i, k, r>>] = NoOp]
  BY Zenon DEF Return, Goto
<1>3. NoOp.read <= now' /\ NoOp.at <= now' + MaxSkew /\ NoOp.rev <= origin'[k]
  BY <1>1, Blank
<1>4. NoOp.pc = "idle" /\ NoOp \in Operation
  BY Blank, Zenon
<1> HIDE DEF NoOp
<1>5. OpOK(<<i, k, r>>)'
  BY <1>1, <1>2, <1>3, <1>4, RecOK, Zenon
<1> QED BY <1>2, <1>4, <1>5, OpStep, Zenon

\* The entry of an accepted write is an entry with the write's version.
LEMMA EntryOfFields ==
    ASSUME NEW w \in Accepted
    PROVE  EntryOf(w) \in Entry /\ EntryOf(w).ver = w.ver
BY Zenon DEF EntryOf, Accepted, Entry

\* The operation goes on to install the last write of the log, old or new.
LEMMA InstallStep ==
    ASSUME IInv, NEW i \in Instances, NEW k \in Keys, NEW r \in Fills \cup Writers,
           Install(<<i, k, r>>, EntryOf(L2!Latest(k)')),
           UNCHANGED <<now, origin, l1, bus, seen>>, HistoryKept,
           (log' = log /\ Len(log[k]) > 0) \/ \E a : Appends(k, a)
    PROVE  Keeps
<1> DEFINE w == L2!Latest(k)'
           ent == EntryOf(w)
           rec == [NoOp EXCEPT !.pc = "install", !.ent = ent]
<1>1. TypeOK /\ LogOK /\ now \in Nat /\ origin[k] \in Nat /\ MaxSkew \in Nat
      /\ log[k] \in Seq(Accepted)
  BY TimeAssumption, Zenon DEF IInv, TypeOK
<1>2. w \in Accepted /\ Len(log'[k]) \in Nat \ {0} /\ w.ver = Len(log'[k])
      /\ w = log'[k][Len(log'[k])]
  <2>1. w = log'[k][Len(log'[k])]
    BY Zenon DEF L2!Latest
  <2>2. CASE log' = log /\ Len(log[k]) > 0
    <3>1. Len(log[k]) \in 1..Len(log[k])
      BY <1>1, <2>2
    <3>2. w \in Accepted
      BY <1>1, <2>1, <2>2, <3>1, SeqElement, Zenon
    <3>3. w.ver = Len(log[k])
      BY <1>1, <2>1, <2>2, <3>1, Zenon DEF LogOK
    <3> QED BY <1>1, <2>1, <2>2, <3>2, <3>3
  <2>3. CASE \E a : Appends(k, a)
    <3>1. PICK a : Appends(k, a)
      BY <2>3, Zenon
    <3>2. w = a /\ Len(log'[k]) = Len(log[k]) + 1 /\ Len(log[k]) \in Nat
      BY <1>1, <3>1, AppendsLog, Zenon
    <3>3. a \in Accepted /\ a.ver = Len(log[k]) + 1
      BY <3>1, Zenon DEF Appends
    <3> QED BY <2>1, <3>2, <3>3
  <2> QED BY <2>2, <2>3, Zenon
<1> HIDE DEF w
<1>3. ent \in Entry /\ ent.ver = Len(log'[k])
  BY <1>2, EntryOfFields, Zenon
<1>4. op' = [op EXCEPT ![<<i, k, r>>] = rec]
  BY Zenon DEF Install, Goto, w
<1>5. ent = EntryOf(log'[k][ent.ver]) /\ ent.ver \in 1..Len(log'[k])
  BY <1>2, <1>3
<1> HIDE DEF ent
<1>6. rec \in Operation /\ rec.pc = "install" /\ rec.ent = ent
      /\ rec.read = 0 /\ rec.at = 0 /\ rec.rev = 0
  BY <1>3, Blank, Zenon DEF NoOp, Operation
<1> HIDE DEF rec
<1>7. rec.read <= now' /\ rec.at <= now' + MaxSkew /\ rec.rev <= origin'[k]
  BY <1>1, <1>6
<1>8. OpOK(<<i, k, r>>)'
  BY <1>1, <1>4, <1>5, <1>6, <1>7, RecOK, Zenon
<1>9. l1[i][k] \in Entry /\ l1' = [l1 EXCEPT ![i][k] = l1[i][k]]
  BY <1>1, L1Same, Zenon
<1> QED BY <1>3, <1>4, <1>6, <1>8, <1>9, OpStep, Zenon

\* The operation goes on, and neither tier changes.
LEMMA GotoStep ==
    ASSUME IInv, NEW i \in Instances, NEW k \in Keys, NEW r \in Fills \cup Writers,
           NEW rec \in Operation,
           Goto(<<i, k, r>>, rec), OpOK(<<i, k, r>>)', rec.pc # "install",
           UNCHANGED <<now, log, origin, l1, bus, seen>>, HistoryKept
    PROVE  Keeps
<1>1. l1[i][k] \in Entry /\ l1' = [l1 EXCEPT ![i][k] = l1[i][k]]
  BY L1Same, Zenon DEF IInv
<1> QED BY <1>1, OpStep, Zenon DEF Goto

-----------------------------------------------------------------------------
(* The reads and fills, one lemma for each action *)

\* Only L1 changes: an entry goes.
LEMMA DropStep ==
    ASSUME IInv, NEW i \in Instances, NEW k \in Keys, NEW e \in {NoEntry, l1[i][k]},
           l1' = [l1 EXCEPT ![i][k] = e],
           UNCHANGED <<now, log, origin, op, bus, seen>>, HistoryKept
    PROVE  Keeps
<1>1. TypeOK /\ LogOK /\ EntryIsMinted /\ EventsOK /\ \A f \in Procs : OpOK(f)
  BY Zenon DEF IInv
<1>2. e \in Entry
  BY <1>1, L1Same, Blank
<1>3. TypeOK'
  BY <1>1, <1>2, Zenon DEF TypeOK, HistoryKept
<1>4. \A j \in Instances, q \in Keys : l1'[j][q] = NoEntry \/ l1'[j][q] = l1[j][q]
  BY <1>1, Zenon DEF TypeOK
<1>5. EntryIsMinted'
  BY <1>1, <1>4 DEF EntryIsMinted
<1>6. Covers
  <2>1. Grows
    BY <1>1, KeptGrows DEF TypeOK
  <2> QED BY <1>1, <1>4, <2>1, CoversFrom, Zenon
<1>7. LogOK' /\ EventsOK'
  BY <1>1, ZenonT(30) DEF LogOK, EventsOK
<1>8. ASSUME NEW f \in Procs PROVE OpOK(f)'
  BY <1>1, Zenon DEF OpOK, HoldsLogged, ReadLogged, LoadedCurrent
<1> QED BY <1>3, <1>5, <1>6, <1>7, <1>8, Zenon DEF IInv, Keeps

\* Get and a GetOrLoad served from L1 keep the invariant.
LEMMA GetStep ==
    ASSUME IInv, NEW i \in Instances, NEW k \in Keys, Get(i, k)
    PROVE  Keeps
<1>1. Peek(i, k) \in {NoEntry, l1[i][k]}
  BY Zenon DEF Peek
<1> QED BY <1>1, DropStep, SameHistory, Zenon DEF Get

\* An LRU eviction keeps the invariant (insertLocked).
LEMMA EvictLRUStep ==
    ASSUME IInv, NEW i \in Instances, NEW k \in Keys, EvictLRU(i, k)
    PROVE  Keeps
BY DropStep, SameHistory, Zenon DEF EvictLRU

\* The facts about the operation that a step starts from.
LEMMA OpFacts ==
    ASSUME IInv, NEW i \in Instances, NEW k \in Keys, NEW r \in Fills \cup Writers
    PROVE  /\ op[<<i, k, r>>] \in Operation
           /\ op[<<i, k, r>>].read \in Nat /\ op[<<i, k, r>>].read <= now
           /\ op[<<i, k, r>>].at \in Nat /\ op[<<i, k, r>>].at <= now + MaxSkew
           /\ op[<<i, k, r>>].rev \in Nat /\ op[<<i, k, r>>].rev <= origin[k]
           /\ op[<<i, k, r>>].nth \in Nat /\ op[<<i, k, r>>].expect \in Nat
           /\ op[<<i, k, r>>].ent \in Entry
           /\ HoldsLogged(k, op[<<i, k, r>>])
           /\ ReadLogged(k, op[<<i, k, r>>])
           /\ LoadedCurrent(k, op[<<i, k, r>>])
<1>1. <<i, k, r>> \in Procs /\ <<i, k, r>>[2] = k
  BY ProcIn, Zenon
<1>2. op[<<i, k, r>>] \in Operation
  BY <1>1, Zenon DEF IInv, TypeOK
<1>3. OpOK(<<i, k, r>>)
  BY <1>1, Zenon DEF IInv
<1> QED BY <1>1, <1>2, <1>3, Zenon DEF OpOK, Operation

\* The types of the pieces of state a step reads.
LEMMA Types ==
    ASSUME IInv, NEW i \in Instances, NEW k \in Keys
    PROVE  /\ TypeOK /\ LogOK
           /\ now \in Nat /\ origin[k] \in Nat /\ MaxSkew \in Nat
           /\ Clock(i) \in Nat /\ Clock(i) <= now + MaxSkew
           /\ log[k] \in Seq(Accepted) /\ Len(log[k]) \in Nat
<1>1. TypeOK /\ LogOK
  BY Zenon DEF IInv
<1>2. now \in Nat /\ origin[k] \in Nat /\ log[k] \in Seq(Accepted)
  BY <1>1, Zenon DEF TypeOK
<1>3. MaxSkew \in Nat /\ Skew[i] \in 0..MaxSkew
  BY TimeAssumption, Zenon
<1>4. Clock(i) \in Nat /\ Clock(i) <= now + MaxSkew
  BY <1>2, <1>3 DEF Clock
<1> QED BY <1>1, <1>2, <1>3, <1>4

\* The version Load reports is the place of the last write, or 0.
LEMMA VersionIsLast ==
    ASSUME IInv, NEW i \in Instances, NEW k \in Keys
    PROVE  /\ L2!Version(k) \in {0, Len(log[k])}
           /\ L2!Present(k) => Len(log[k]) > 0 /\ L2!Version(k) = Len(log[k])
<1>1. LogOK /\ Len(log[k]) \in Nat
  BY Types, Zenon
<1>2. ASSUME L2!Present(k) PROVE Len(log[k]) > 0 /\ L2!Latest(k).ver = Len(log[k])
  <2>1. Len(log[k]) \in 1..Len(log[k])
    BY <1>1, <1>2 DEF L2!Present
  <2> QED BY <1>1, <2>1 DEF LogOK, L2!Latest
<1> QED BY <1>2, Zenon DEF L2!Version

\* The fields of the record an Invalidate hands to L2.
LEMMA BlankAt ==
    ASSUME NEW o, NEW n, o = [NoOp EXCEPT !.rev = n]
    PROVE  o.rev = n /\ o.read = 0
BY DEF NoOp

\* The fields of a record that starts a fill.
LEMMA StartFields ==
    ASSUME NEW o \in Operation
    PROVE  LET r == [o EXCEPT !.pc = "load"]
           IN  r \in Operation /\ r.pc = "load" /\ r.read = o.read /\ r.at = o.at /\ r.rev = o.rev
BY Zenon DEF Operation

\* The operation record of a fill that has just started.
LEMMA StartRec ==
    ASSUME IInv, NEW i \in Instances, NEW k \in Keys, NEW r \in Fills \cup Writers,
           StartFill(<<i, k, r>>), UNCHANGED <<now, origin>>
    PROVE  \E rec \in Operation : /\ op' = [op EXCEPT ![<<i, k, r>>] = rec]
                                  /\ rec.pc = "load"
                                  /\ OpOK(<<i, k, r>>)'
<1> DEFINE rec == [NoOp EXCEPT !.pc = "load"]
<1>1. TypeOK /\ now \in Nat /\ origin[k] \in Nat /\ MaxSkew \in Nat
  BY Types, Zenon
<1>2. op' = [op EXCEPT ![<<i, k, r>>] = rec]
  BY Zenon DEF StartFill, Goto
<1>3. rec \in Operation /\ rec.pc = "load" /\ rec.read = 0 /\ rec.at = 0 /\ rec.rev = 0
  <2>1. NoOp \in Operation /\ NoOp.read = 0 /\ NoOp.at = 0 /\ NoOp.rev = 0
    BY ONLY Blank, Zenon
  <2>2. /\ rec \in Operation /\ rec.pc = "load" /\ rec.read = NoOp.read
        /\ rec.at = NoOp.at /\ rec.rev = NoOp.rev
    BY ONLY <2>1, StartFields, Zenon
  <2> HIDE DEF rec
  <2> QED BY ONLY <2>1, <2>2, Zenon
<1> HIDE DEF rec
<1>4. rec.read <= now' /\ rec.at <= now' + MaxSkew /\ rec.rev <= origin'[k]
  BY <1>1, <1>3
<1>5. OpOK(<<i, k, r>>)'
  BY <1>1, <1>2, <1>3, <1>4, RecOK, Zenon
<1> QED BY <1>2, <1>3, <1>5, Zenon

\* A GetOrLoad that misses keeps the invariant.
LEMMA GetOrLoadMissStep ==
    ASSUME IInv, NEW i \in Instances, NEW k \in Keys, GetOrLoadMiss(i, k)
    PROVE  Keeps
<1>1. "miss" \in Fills \cup Writers
  BY Zenon DEF Fills
<1>2. PICK rec \in Operation : /\ op' = [op EXCEPT ![<<i, k, "miss">>] = rec]
                               /\ rec.pc = "load"
                               /\ OpOK(<<i, k, "miss">>)'
  BY <1>1, StartRec, Zenon DEF GetOrLoadMiss
<1>3. UNCHANGED <<now, log, origin, l1, bus, seen>> /\ HistoryKept
  BY SameHistory, Zenon DEF GetOrLoadMiss
<1> QED BY <1>1, <1>2, <1>3, GotoStep, Zenon DEF Goto

\* A GetOrLoad that schedules a revalidation keeps the invariant.
LEMMA GetOrLoadStaleStep ==
    ASSUME IInv, NEW i \in Instances, NEW k \in Keys, GetOrLoadStale(i, k)
    PROVE  Keeps
<1>1. "refresh" \in Fills \cup Writers
  BY Zenon DEF Fills
<1>2. PICK rec \in Operation : /\ op' = [op EXCEPT ![<<i, k, "refresh">>] = rec]
                               /\ rec.pc = "load"
                               /\ OpOK(<<i, k, "refresh">>)'
  BY <1>1, StartRec, Zenon DEF GetOrLoadStale
<1>3. UNCHANGED <<now, log, origin, l1, bus, seen>> /\ HistoryKept
  BY SameHistory, Zenon DEF GetOrLoadStale
<1> QED BY <1>1, <1>2, <1>3, GotoStep, Zenon DEF Goto

\* A fill is one of the roles.
LEMMA FillRole ==
    ASSUME NEW r \in Fills
    PROVE  r \in Fills \cup Writers
BY Zenon

\* fill: promoting a fresh L2 entry keeps the invariant.
LEMMA FillLoadFreshStep ==
    ASSUME IInv, NEW i \in Instances, NEW k \in Keys, NEW r \in Fills, FillLoadFresh(i, k, r)
    PROVE  Keeps
<1>1. L2!Found(k) /\ Install(<<i, k, r>>, EntryOf(L2!Latest(k)))
      /\ UNCHANGED <<now, log, origin, l1, bus, seen>> /\ HistoryKept
  BY SameHistory, Zenon DEF FillLoadFresh
<1>2. Len(log[k]) > 0 /\ L2!Latest(k)' = L2!Latest(k)
  BY <1>1, Zenon DEF L2!Found, L2!Present, L2!Latest
<1> QED BY <1>1, <1>2, FillRole, InstallStep, Zenon

\* The fill goes on to the loader with a version it has read, or with 0.
LEMMA ToLoaderStep ==
    ASSUME IInv, NEW i \in Instances, NEW k \in Keys, NEW r \in Fills,
           NEW v \in {0, L2!Version(k)}, ToLoader(<<i, k, r>>, v),
           UNCHANGED <<now, log, origin, l1, bus, seen>>, HistoryKept
    PROVE  Keeps
<1> DEFINE o == op[<<i, k, r>>]
           rec == [o EXCEPT !.pc = "loader", !.expect = v, !.nth = Len(log[k]), !.read = now]
<1>1. r \in Fills \cup Writers
  BY Zenon
<1>2. o \in Operation /\ o.read <= now /\ o.at <= now + MaxSkew /\ o.rev <= origin[k]
  BY <1>1, OpFacts, Zenon
<1>3. TypeOK /\ Len(log[k]) \in Nat /\ now \in Nat
  BY Types, Zenon
<1>4. (v = 0 \/ v = Len(log[k])) /\ v \in Nat
  BY <1>3, VersionIsLast
<1>5. op' = [op EXCEPT ![<<i, k, r>>] = rec]
  BY ProcIn, Zenon DEF ToLoader, Goto
<1> HIDE DEF o
<1>6. /\ rec \in Operation /\ rec.pc = "loader" /\ rec.nth = Len(log[k]) /\ rec.expect = v
      /\ rec.read = now /\ rec.at = o.at /\ rec.rev = o.rev
  BY <1>2, <1>3, <1>4, Zenon DEF Operation
<1> HIDE DEF rec
<1>7. \A n \in (rec.nth + 1)..Len(log'[k]) : rec.read <= log'[k][n].at
  <2>1. \A n \in (rec.nth + 1)..Len(log'[k]) : FALSE
    BY <1>3, <1>6
  <2> QED BY <2>1, Zenon
<1>8. rec.nth <= Len(log'[k]) /\ rec.read <= now'
  BY <1>3, <1>6
<1>9. OpOK(<<i, k, r>>)'
  BY <1>1, <1>2, <1>3, <1>4, <1>5, <1>6, <1>7, <1>8, RecOK, Zenon
<1> QED BY <1>1, <1>5, <1>6, <1>9, GotoStep, Zenon DEF Goto

\* fill: going to the loader with the version read keeps the invariant.
LEMMA FillLoadMissStep ==
    ASSUME IInv, NEW i \in Instances, NEW k \in Keys, NEW r \in Fills, FillLoadMiss(i, k, r)
    PROVE  Keeps
BY ToLoaderStep, SameHistory, Zenon DEF FillLoadMiss

\* fill: going to the loader after a failed Load keeps the invariant.
LEMMA FillLoadErrorStep ==
    ASSUME IInv, NEW i \in Instances, NEW k \in Keys, NEW r \in Fills, FillLoadError(i, k, r)
    PROVE  Keeps
BY ToLoaderStep, SameHistory, Zenon DEF FillLoadError

\* A fill returns and no tier changes.
LEMMA PlainReturn ==
    ASSUME IInv, NEW i \in Instances, NEW k \in Keys, NEW r \in Fills \cup Writers,
           Return(<<i, k, r>>), UNCHANGED <<now, origin, l1, bus, seen>>, HistoryKept,
           log' = log \/ \E a : Appends(k, a)
    PROVE  Keeps
<1>1. l1[i][k] \in Entry /\ l1' = [l1 EXCEPT ![i][k] = l1[i][k]]
  BY L1Same, Zenon DEF IInv
<1> QED BY <1>1, ReturnStep, Zenon

\* fill: the loader's answer keeps the invariant.
LEMMA FillLoaderStep ==
    ASSUME IInv, NEW i \in Instances, NEW k \in Keys, NEW r \in Fills, FillLoader(i, k, r)
    PROVE  Keeps
<1> DEFINE o == op[<<i, k, r>>]
           pc == IF origin[k] \in Rows THEN "setcas" ELSE "cad"
           rec == [o EXCEPT !.pc = pc, !.rev = origin[k], !.at = Clock(i)]
<1>1. r \in Fills \cup Writers /\ UNCHANGED <<now, log, origin, l1, bus, seen>> /\ HistoryKept
  BY SameHistory, Zenon DEF FillLoader
<1>2. CASE Return(<<i, k, r>>)
  BY <1>1, <1>2, PlainReturn, Zenon
<1>3. CASE Goto(<<i, k, r>>, rec)
  <2>1. op' = [op EXCEPT ![<<i, k, r>>] = rec]
    BY <1>3, Zenon DEF Goto
  <2>2. o \in Operation /\ o.read <= now /\ ReadLogged(k, o) /\ o.pc = "loader"
        /\ o.nth \in Nat
    BY <1>1, OpFacts, Zenon DEF FillLoader
  <2>3. /\ TypeOK /\ LogOK /\ Len(log[k]) \in Nat /\ origin[k] \in Nat
        /\ Clock(i) \in Nat /\ Clock(i) <= now + MaxSkew
    BY Types, Zenon
  <2>4. pc \in {"setcas", "cad"}
    BY Zenon
  <2> HIDE DEF o, pc
  <2>5. /\ rec \in Operation /\ rec.pc \in {"setcas", "cad"} /\ rec.nth = o.nth
        /\ rec.expect = o.expect /\ rec.read = o.read
        /\ rec.at = Clock(i) /\ rec.rev = origin[k]
    BY <2>2, <2>3, <2>4, Zenon DEF Operation
  <2> HIDE DEF rec
  <2>6. /\ rec.nth <= Len(log'[k])
        /\ rec.expect = 0 \/ rec.expect = rec.nth
        /\ \A n \in (rec.nth + 1)..Len(log'[k]) : rec.read <= log'[k][n].at
    BY <1>1, <2>2, <2>5, Zenon DEF ReadLogged
  <2>7. \A n \in 1..rec.nth : log'[k][n].pay.rev <= rec.rev
    <3>1. \A n \in 1..rec.nth : n \in 1..Len(log[k])
      BY <1>1, <2>2, <2>3, <2>5, <2>6
    <3> QED BY <1>1, <2>3, <2>5, <3>1, Zenon DEF LogOK
  <2>8. rec.read <= now' /\ rec.at <= now' + MaxSkew /\ rec.rev <= origin'[k]
    BY <1>1, <2>2, <2>3, <2>5
  <2>9. rec.pc # "install" /\ rec.pc # "delete" /\ rec.pc # "publish"
    BY <2>5, Zenon
  <2>10. OpOK(<<i, k, r>>)'
    BY <1>1, <2>1, <2>3, <2>6, <2>7, <2>8, <2>9, RecOK, Zenon
  <2> QED BY <1>1, <2>1, <2>5, <2>9, <2>10, GotoStep, Zenon DEF Goto
<1> QED BY <1>2, <1>3, Zenon DEF FillLoader

\* fill: an accepted SetCAS keeps the invariant, its reply lost or not.
LEMMA FillSetCASStep ==
    ASSUME IInv, NEW i \in Instances, NEW k \in Keys, NEW r \in Fills, FillSetCAS(i, k, r)
    PROVE  Keeps
<1> DEFINE o == op[<<i, k, r>>]
<1>1. r \in Fills \cup Writers /\ UNCHANGED <<now, origin, l1, bus, seen>> /\ HistoryKept
  BY SameHistory, Zenon DEF FillSetCAS
<1>2. o.rev \in Nat /\ o.rev <= origin[k] /\ o.at \in Nat /\ o.at <= now + MaxSkew
      /\ o.expect \in Nat \cup {ForceVersion} /\ o.read \in Nat
  BY <1>1, OpFacts, Zenon
<1>3. PICK w \in window(o.at) : SetCAS(i, k, o, w, o.expect)
  BY Zenon DEF FillSetCAS
<1>4. \E a : Appends(k, a)
  BY <1>2, <1>3, SetCASAppends, Zenon DEF IInv
<1>5. Install(<<i, k, r>>, EntryOf(L2!Latest(k)')) \/ Return(<<i, k, r>>)
  BY Zenon DEF FillSetCAS
<1> QED BY <1>1, <1>4, <1>5, InstallStep, PlainReturn, Zenon

\* fill: an accepted negative install in L2 keeps the invariant.
LEMMA FillDeleteStep ==
    ASSUME IInv, NEW i \in Instances, NEW k \in Keys, NEW r \in Fills, FillDelete(i, k, r)
    PROVE  Keeps
<1> DEFINE o == op[<<i, k, r>>]
           until == negative(o.at)
<1>1. r \in Fills \cup Writers /\ UNCHANGED <<now, origin, l1, bus, seen>> /\ HistoryKept
  BY SameHistory, Zenon DEF FillDelete
<1>2. o.rev \in Nat /\ o.rev <= origin[k] /\ o.at \in Nat /\ o.at <= now + MaxSkew
      /\ o.expect \in Nat /\ o.read \in Nat
  BY <1>1, OpFacts, Zenon
<1>3. TypeOK /\ now \in Nat /\ MaxSkew \in Nat
  BY Types, Zenon
<1>4. CompareAndDelete(k, o, until, o.expect)
  BY Zenon DEF FillDelete
<1>5. until \in Nat /\ MaxAge(TRUE) \in Nat /\ until <= o.at + MaxAge(TRUE)
  BY <1>2, NegativeBound, Zenon
<1> HIDE DEF o, until
<1>6. until <= now + MaxAge(TRUE) + MaxSkew
  BY <1>2, <1>3, <1>5, AddBounds, Zenon
<1>7. \E a : Appends(k, a)
  <2>1. Entombs(k, o, o.expect)
    BY <1>2, <1>3, <1>4, <1>5, <1>6, DeleteAppends, Zenon
  <2> QED BY <2>1, Zenon DEF Entombs
<1>8. Install(<<i, k, r>>, EntryOf(L2!Latest(k)')) \/ Return(<<i, k, r>>)
  BY Zenon DEF FillDelete
<1> QED BY <1>1, <1>7, <1>8, InstallStep, PlainReturn, Zenon

\* fill: a lost race keeps the invariant.
LEMMA FillConflictStep ==
    ASSUME IInv, NEW i \in Instances, NEW k \in Keys, NEW r \in Fills, FillConflict(i, k, r)
    PROVE  Keeps
<1> DEFINE o == op[<<i, k, r>>]
           rec == [o EXCEPT !.pc = "reload", !.at = 0]
<1>1. r \in Fills \cup Writers /\ UNCHANGED <<now, log, origin, l1, bus, seen>> /\ HistoryKept
  BY SameHistory, Zenon DEF FillConflict
<1>2. o \in Operation /\ o.read <= now /\ o.rev <= origin[k] /\ ReadLogged(k, o)
  BY <1>1, OpFacts, Zenon
<1>3. o.pc \in {"setcas", "cad"}
  BY Zenon DEF FillConflict
<1>4. op' = [op EXCEPT ![<<i, k, r>>] = rec]
  BY Zenon DEF FillConflict, Goto
<1>5. TypeOK /\ now \in Nat /\ MaxSkew \in Nat
  BY Types
<1> HIDE DEF o
<1>6. /\ rec \in Operation /\ rec.pc = "reload" /\ rec.at = 0 /\ rec.nth = o.nth
      /\ rec.expect = o.expect /\ rec.read = o.read /\ rec.rev = o.rev
  BY <1>2, Zenon DEF Operation
<1> HIDE DEF rec
<1>7. /\ rec.nth <= Len(log'[k])
      /\ rec.expect = 0 \/ rec.expect = rec.nth
      /\ \A n \in (rec.nth + 1)..Len(log'[k]) : rec.read <= log'[k][n].at
  BY <1>1, <1>2, <1>3, <1>6, Zenon DEF ReadLogged
<1>8. rec.read <= now' /\ rec.at <= now' + MaxSkew /\ rec.rev <= origin'[k]
  BY <1>1, <1>2, <1>5, <1>6
<1>9. OpOK(<<i, k, r>>)'
  BY <1>1, <1>4, <1>5, <1>6, <1>7, <1>8, RecOK, Zenon
<1> QED BY <1>1, <1>4, <1>6, <1>9, GotoStep, Zenon DEF Goto

\* fill: serving the winner keeps the invariant.
LEMMA FillReloadStep ==
    ASSUME IInv, NEW i \in Instances, NEW k \in Keys, NEW r \in Fills, FillReload(i, k, r)
    PROVE  Keeps
<1>1. r \in Fills \cup Writers /\ UNCHANGED <<now, log, origin, l1, bus, seen>> /\ HistoryKept
  BY SameHistory, Zenon DEF FillReload
<1>2. CASE L2!Found(k)
  <2>1. Install(<<i, k, r>>, EntryOf(L2!Latest(k)))
    BY <1>2, Zenon DEF FillReload
  <2>2. Len(log[k]) > 0 /\ L2!Latest(k)' = L2!Latest(k)
    BY <1>1, <1>2, Zenon DEF L2!Found, L2!Present, L2!Latest
  <2> QED BY <1>1, <2>1, <2>2, InstallStep, Zenon
<1>3. CASE ~L2!Found(k)
  <2>1. Return(<<i, k, r>>)
    BY <1>3, Zenon DEF FillReload
  <2> QED BY <1>1, <2>1, PlainReturn, Zenon
<1> QED BY <1>2, <1>3, Zenon

\* fill: degraded mode caches nothing and keeps the invariant.
LEMMA FillDegradedStep ==
    ASSUME IInv, NEW i \in Instances, NEW k \in Keys, NEW r \in Fills, FillDegraded(i, k, r)
    PROVE  Keeps
BY FillRole, PlainReturn, SameHistory, Zenon DEF FillDegraded

\* The entry in L1 after installL1: the one that was there or the one in hand.
AfterInstall(i, k, e) ==
    IF i \in Conditional /\ ~IsExpired(l1[i][k], Clock(i)) /\ l1[i][k].ver >= e.ver
    THEN l1[i][k] ELSE e

\* installL1 leaves the entry that was there or puts the one in hand.
LEMMA Installed ==
    ASSUME IInv, NEW i \in Instances, NEW k \in Keys, NEW e \in Entry, installL1(i, k, e)
    PROVE  /\ l1' = [l1 EXCEPT ![i][k] = AfterInstall(i, k, e)]
           /\ AfterInstall(i, k, e) \in Entry
           /\ AfterInstall(i, k, e) = l1[i][k] \/ AfterInstall(i, k, e) = e
<1>1. l1[i][k] \in Entry
  BY Zenon DEF IInv, TypeOK
<1>2. l1' = [l1 EXCEPT ![i][k] = AfterInstall(i, k, e)]
  BY Zenon DEF installL1, AfterInstall
<1> QED BY <1>1, <1>2, Zenon DEF AfterInstall

\* fill: the gated install into L1 keeps the invariant.
LEMMA FillInstallStep ==
    ASSUME IInv, NEW i \in Instances, NEW k \in Keys, NEW r \in Fills, FillInstall(i, k, r)
    PROVE  Keeps
<1>1. /\ r \in Fills \cup Writers /\ UNCHANGED <<now, log, origin, bus, seen>> /\ HistoryKept
      /\ op[<<i, k, r>>].pc = "install" /\ Return(<<i, k, r>>)
      /\ installL1(i, k, op[<<i, k, r>>].ent)
  BY SameHistory, Zenon DEF FillInstall
<1> DEFINE ent == op[<<i, k, r>>].ent
           x == AfterInstall(i, k, ent)
<1>2. ent \in Entry
  BY <1>1, OpFacts, Zenon
<1>3. l1' = [l1 EXCEPT ![i][k] = x] /\ x \in Entry /\ (x = l1[i][k] \/ x = ent)
  BY <1>1, <1>2, Installed
<1> HIDE DEF x
<1> QED BY <1>1, <1>3, ReturnStep, Zenon

\* Every step of fill keeps the invariant.
LEMMA FillStep ==
    ASSUME IInv, NEW i \in Instances, NEW k \in Keys, NEW r \in Fills, Fill(i, k, r)
    PROVE  Keeps
BY FillLoadFreshStep, FillLoadMissStep, FillLoadErrorStep, FillLoaderStep, FillSetCASStep,
   FillDeleteStep, FillConflictStep, FillReloadStep, FillDegradedStep, FillInstallStep, Zenon
   DEF Fill

-----------------------------------------------------------------------------
(* Writes, events, restarts and time keep the invariant, and so does every step *)

\* A broadcast that some instances miss is added to their history.
LEMMA MissKept ==
    ASSUME IInv, NEW to, NEW ids \in SUBSET (Keys \X Nat), Miss(to, ids), late' = late
    PROVE  HistoryKept
<1>1. missed \in [Instances -> SUBSET (Keys \X Nat)]
  BY Zenon DEF IInv, TypeOK
<1>2. missed' \in [Instances -> SUBSET (Keys \X Nat)]
  BY <1>1, Zenon DEF Miss
<1> QED BY <1>2, Zenon DEF IInv, TypeOK, HistoryKept

\* The entries in hand when a write takes effect are not older, or on record.
LEMMA OvertakeKept ==
    ASSUME IInv, NEW i \in Instances, NEW k \in Keys, NEW v \in Nat, Overtake(i, k, v),
           missed' = missed
    PROVE  /\ HistoryKept
           /\ \A r \in Fills \cup Writers :
                 op[<<i, k, r>>].pc = "install" =>
                     \/ op[<<i, k, r>>].ent.ver >= v
                     \/ <<op[<<i, k, r>>].ent.ver, v>> \in late'[i][k]
<1> DEFINE new == {<<u, v>> : u \in {x \in InHand(i, k) : x < v}}
           s == late[i][k] \cup new
<1>1. late \in [Instances -> [Keys -> SUBSET (Nat \X Nat)]]
  BY Zenon DEF IInv, TypeOK
<1>2. \A r \in Fills \cup Writers : op[<<i, k, r>>].ent.ver \in Nat
  BY OpFacts, Zenon DEF Entry
<1>3. InHand(i, k) \subseteq Nat
  BY <1>2, Zenon DEF InHand
<1>4. late' = [late EXCEPT ![i][k] = s]
  BY Zenon DEF Overtake
<1>5. new \subseteq Nat \X Nat
  BY <1>3
<1>6. s \in SUBSET (Nat \X Nat) /\ late[i][k] \subseteq s /\ new \subseteq s
  BY <1>1, <1>5, Zenon
<1>7. \A u \in InHand(i, k) : u < v => <<u, v>> \in new
  BY Zenon
<1> HIDE DEF s, new
<1>8. late' \in [Instances -> [Keys -> SUBSET (Nat \X Nat)]]
  BY ONLY <1>1, <1>4, <1>6, UpdateTwo, i \in Instances, k \in Keys, Zenon
<1>9. /\ late'[i][k] = s
      /\ \A j \in Instances, q \in Keys : late[j][q] \subseteq late'[j][q]
  BY <1>1, <1>4, <1>6, Zenon
<1>10. ASSUME NEW r \in Fills \cup Writers, op[<<i, k, r>>].pc = "install"
       PROVE  \/ op[<<i, k, r>>].ent.ver >= v
              \/ <<op[<<i, k, r>>].ent.ver, v>> \in late'[i][k]
  <2>1. op[<<i, k, r>>].ent.ver \in InHand(i, k)
    BY <1>10, Zenon DEF InHand
  <2>2. op[<<i, k, r>>].ent.ver >= v \/ op[<<i, k, r>>].ent.ver < v
    BY <1>2
  <2> QED BY <1>6, <1>7, <1>9, <2>1, <2>2, Zenon
<1> QED BY <1>8, <1>9, <1>10, Zenon DEF IInv, TypeOK, HistoryKept

\* Set: computing the deadlines keeps the invariant.
LEMMA SetBeginStep ==
    ASSUME IInv, NEW i \in Instances, NEW k \in Keys, NEW p \in Writers, SetBegin(i, k, p)
    PROVE  Keeps
<1> DEFINE rec == [NoOp EXCEPT !.pc = "set", !.rev = origin[k], !.at = Clock(i)]
<1>1. p \in Fills \cup Writers /\ UNCHANGED <<now, log, origin, l1, bus, seen>> /\ HistoryKept
  BY SameHistory, Zenon DEF SetBegin
<1>2. /\ TypeOK /\ now \in Nat /\ origin[k] \in Nat /\ MaxSkew \in Nat
      /\ Clock(i) \in Nat /\ Clock(i) <= now + MaxSkew
  BY Types, Zenon
<1>3. op' = [op EXCEPT ![<<i, k, p>>] = rec]
  BY Zenon DEF SetBegin, Goto
<1>4. rec \in Operation /\ rec.pc = "set" /\ rec.read = 0 /\ rec.at = Clock(i)
      /\ rec.rev = origin[k]
  <2>1. NoOp \in Operation /\ NoOp.read = 0
    BY ONLY Blank, Zenon
  <2> DEFINE t == Clock(i)
             v == origin[k]
  <2>2. t \in Nat /\ v \in Nat
    BY <1>2, Zenon
  <2> HIDE DEF t, v
  <2>3. LET r == [NoOp EXCEPT !.pc = "set", !.rev = v, !.at = t]
        IN  r \in Operation /\ r.pc = "set" /\ r.read = NoOp.read /\ r.at = t /\ r.rev = v
    BY ONLY <2>1, <2>2, Zenon DEF Operation
  <2>4. /\ rec \in Operation /\ rec.pc = "set" /\ rec.read = NoOp.read
        /\ rec.at = Clock(i) /\ rec.rev = origin[k]
    BY ONLY <2>3, Zenon DEF t, v
  <2> HIDE DEF rec
  <2> QED BY ONLY <2>1, <2>4, Zenon
<1> HIDE DEF rec
<1>5. rec.read <= now' /\ rec.at <= now' + MaxSkew /\ rec.rev <= origin'[k]
  BY <1>1, <1>2, <1>4
<1>6. OpOK(<<i, k, p>>)'
  BY <1>1, <1>2, <1>3, <1>4, <1>5, RecOK, Zenon
<1> QED BY <1>1, <1>3, <1>4, <1>6, GotoStep, Zenon DEF Goto

\* Set: the blind write keeps the invariant, failed, lost or acknowledged.
LEMMA SetL2Step ==
    ASSUME IInv, NEW i \in Instances, NEW k \in Keys, NEW p \in Writers, SetL2(i, k, p)
    PROVE  Keeps
<1> DEFINE o == op[<<i, k, p>>]
<1>1. p \in Fills \cup Writers /\ UNCHANGED <<now, origin, l1, bus, seen>>
  BY Zenon DEF SetL2
<1>2. o.rev \in Nat /\ o.rev <= origin[k] /\ o.at \in Nat /\ o.at <= now + MaxSkew
      /\ o.read \in Nat
  BY <1>1, OpFacts, Zenon
<1>3. HistoryKept
  <2>1. {<<k, NextVersion(k)>>} \in SUBSET (Keys \X Nat)
    BY Types DEF NextVersion
  <2> QED BY <2>1, SameHistory, MissKept, Zenon DEF SetL2
<1>4. CASE \E w \in window(o.at) :
              /\ SetCAS(i, k, o, w, ForceVersion)
              /\ \/ Install(<<i, k, p>>, EntryOf(L2!Latest(k)'))
                 \/ Return(<<i, k, p>>)
  <2>1. PICK w \in window(o.at) : SetCAS(i, k, o, w, ForceVersion)
    BY <1>4, Zenon
  <2>2. \E a : Appends(k, a)
    BY <1>2, <2>1, SetCASAppends, Zenon DEF IInv
  <2> QED BY <1>1, <1>3, <1>4, <2>2, InstallStep, PlainReturn, Zenon
<1>5. CASE Return(<<i, k, p>>) /\ log' = log
  BY <1>1, <1>3, <1>5, PlainReturn, Zenon
<1> QED BY <1>4, <1>5, Zenon DEF SetL2

\* A write goes on to its broadcast.
LEMMA ToPublish ==
    ASSUME IInv, NEW i \in Instances, NEW k \in Keys, NEW p \in Writers, NEW e \in Entry,
           op[<<i, k, p>>].pc \in {"install", "delete"},
           Goto(<<i, k, p>>, [op[<<i, k, p>>] EXCEPT !.pc = "publish"]),
           l1' = [l1 EXCEPT ![i][k] = e],
           UNCHANGED <<now, log, origin, bus, seen>>, HistoryKept,
           \/ e = NoEntry
           \/ e = l1[i][k]
           \/ op[<<i, k, p>>].pc = "install" /\ e = op[<<i, k, p>>].ent
    PROVE  Keeps
<1> DEFINE o == op[<<i, k, p>>]
           rec == [o EXCEPT !.pc = "publish"]
<1>1. p \in Fills \cup Writers /\ TypeOK
  BY Zenon DEF IInv
<1>2. o \in Operation /\ o.read <= now /\ o.at <= now + MaxSkew /\ o.rev <= origin[k]
      /\ HoldsLogged(k, o)
  BY <1>1, OpFacts, Zenon
<1>3. op' = [op EXCEPT ![<<i, k, p>>] = rec]
  BY Zenon DEF Goto
<1>4. o.ent.ver \in 1..Len(log[k])
  BY <1>2, Zenon DEF HoldsLogged
<1> HIDE DEF o
<1>5. /\ rec \in Operation /\ rec.pc = "publish" /\ rec.read = o.read /\ rec.at = o.at
      /\ rec.rev = o.rev /\ rec.ent = o.ent
  BY <1>2, Zenon DEF Operation
<1> HIDE DEF rec
<1>6. OpOK(<<i, k, p>>)'
  BY <1>1, <1>2, <1>3, <1>4, <1>5, RecOK, Zenon
<1> QED BY <1>1, <1>3, <1>5, <1>6, OpStep, Zenon

\* Set: the gated install keeps the invariant.
LEMMA SetInstallStep ==
    ASSUME IInv, NEW i \in Instances, NEW k \in Keys, NEW p \in Writers, SetInstall(i, k, p)
    PROVE  Keeps
<1>1. /\ UNCHANGED <<now, log, origin, bus, seen, missed>>
      /\ op[<<i, k, p>>].pc = "install" /\ Overtake(i, k, op[<<i, k, p>>].ent.ver)
      /\ Goto(<<i, k, p>>, [op[<<i, k, p>>] EXCEPT !.pc = "publish"])
      /\ installL1(i, k, op[<<i, k, p>>].ent) /\ p \in Fills \cup Writers
  BY Zenon DEF SetInstall
<1> DEFINE ent == op[<<i, k, p>>].ent
           x == AfterInstall(i, k, ent)
<1>2. ent \in Entry /\ ent.ver \in Nat
  BY <1>1, OpFacts, Zenon DEF Entry
<1>3. l1' = [l1 EXCEPT ![i][k] = x] /\ x \in Entry /\ (x = l1[i][k] \/ x = ent)
  BY <1>1, <1>2, Installed
<1>4. HistoryKept
  BY <1>1, <1>2, OvertakeKept, Zenon
<1> HIDE DEF x
<1> QED BY <1>1, <1>3, <1>4, ToPublish, Zenon

\* Invalidate: the local eviction keeps the invariant.
LEMMA InvalidateL1Step ==
    ASSUME IInv, NEW i \in Instances, NEW k \in Keys, NEW p \in Writers, InvalidateL1(i, k, p)
    PROVE  Keeps
<1>1. op[<<i, k, p>>].ent.ver \in Nat
  BY OpFacts, Zenon DEF Entry
<1>2. HistoryKept
  BY <1>1, OvertakeKept, Zenon DEF InvalidateL1
<1> QED BY <1>2, ToPublish, Blank, Zenon DEF InvalidateL1

\* Invalidate: the tombstone keeps the invariant.
LEMMA InvalidateL2Step ==
    ASSUME IInv, NEW i \in Instances, NEW k \in Keys, NEW p \in Writers, InvalidateL2(i, k, p)
    PROVE  Keeps
<1> DEFINE g == <<i, k, p>>
           w == L2!Latest(k)'
           ent == EntryOf(w)
           rec == [NoOp EXCEPT !.pc = "delete", !.ent = ent]
<1>0. HistoryKept
  <2>1. {<<k, NextVersion(k)>>} \in SUBSET (Keys \X Nat)
    BY Types DEF NextVersion
  <2> QED BY <2>1, SameHistory, MissKept, Zenon DEF InvalidateL2
<1>1. p \in Fills \cup Writers /\ UNCHANGED <<now, origin, l1, bus, seen>> /\ HistoryKept
  BY <1>0, Zenon DEF InvalidateL2
<1>2. TypeOK /\ now \in Nat /\ origin[k] \in Nat /\ MaxSkew \in Nat /\ MaxAge(TRUE) \in Nat
      /\ Len(log[k]) \in Nat
  BY Types, NegativeBound, Zenon
<1>3. 0 <= now + MaxAge(TRUE) + MaxSkew /\ origin[k] <= origin[k] /\ 0 \in Nat
  <2>1. 0 <= now + MaxAge(TRUE) + MaxSkew
    BY <1>2, SumBound, Zenon
  <2>2. origin[k] <= origin[k] /\ 0 \in Nat
    BY <1>2
  <2> QED BY <2>1, <2>2, Zenon
<1>4. PICK a : Appends(k, a)
  <2>1. PICK o : o = [NoOp EXCEPT !.rev = origin[k]]
    BY Zenon
  <2>2. o.rev = origin[k] /\ o.read = 0
    BY <2>1, BlankAt, Zenon
  <2>3. Entombs(k, o, ForceVersion)
    BY <1>2, <1>3, <2>1, <2>2, DeleteAppends, Zenon DEF InvalidateL2
  <2> QED BY <2>3, Zenon DEF Entombs
<1>5. l1[i][k] \in Entry /\ l1' = [l1 EXCEPT ![i][k] = l1[i][k]]
  BY <1>1, <1>2, L1Same, Zenon
<1>6. CASE op' = op
  <2>1. op' = [op EXCEPT ![g] = op[g]] /\ op'[g] = op[g]
    BY <1>2, <1>6, Zenon DEF TypeOK
  <2>2. op[g] \in Operation /\ op[g].pc = "idle" /\ g \in Procs
    BY <1>1, OpFacts, ProcIn, Zenon DEF InvalidateL2
  <2>3. OpOK(g)'
    BY <1>1, <1>2, <1>4, <2>1, <2>2, AppendsGrows, OpKept, Zenon DEF IInv
  <2> HIDE DEF g
  <2> QED BY <1>1, <1>4, <1>5, <2>1, <2>2, <2>3, OpStep, Zenon DEF g
<1>7. CASE Goto(g, rec)
  <2>1. w = a /\ a \in Accepted /\ a.ver = Len(log[k]) + 1 /\ Len(log'[k]) = Len(log[k]) + 1
    BY <1>2, <1>4, AppendsLog, Zenon DEF Appends
  <2> HIDE DEF w
  <2>2. ent \in Entry /\ ent.ver \in 1..Len(log'[k])
    BY <1>2, <2>1, EntryOfFields
  <2>3. op' = [op EXCEPT ![<<i, k, p>>] = rec]
    BY <1>7, Zenon DEF Goto
  <2> HIDE DEF ent
  <2>4. rec \in Operation /\ rec.pc = "delete" /\ rec.read = 0 /\ rec.at = 0 /\ rec.rev = 0
        /\ rec.ent = ent
    BY <2>2, Blank, Zenon DEF NoOp, Operation
  <2> HIDE DEF rec
  <2>5. rec.read <= now' /\ rec.at <= now' + MaxSkew /\ rec.rev <= origin'[k]
    BY <1>1, <1>2, <2>4
  <2>6. OpOK(<<i, k, p>>)'
    BY <1>1, <1>2, <2>2, <2>3, <2>4, <2>5, RecOK, Zenon
  <2> QED BY <1>1, <1>4, <1>5, <2>3, <2>4, <2>6, OpStep, Zenon
<1> QED BY <1>6, <1>7, Zenon DEF InvalidateL2

\* An idle operation promises nothing.
LEMMA IdleOK ==
    ASSUME TypeOK', NEW f \in Procs, op'[f] = NoOp
    PROVE  OpOK(f)'
<1> DEFINE o == op'[f]
<1>1. now' \in Nat /\ origin'[f[2]] \in Nat /\ MaxSkew \in Nat
  BY TimeAssumption, Zenon DEF TypeOK, Procs
<1>2. o.pc = "idle" /\ o.read = 0 /\ o.at = 0 /\ o.rev = 0
  BY Blank, Zenon
<1>3. o.read <= now' /\ o.at <= now' + MaxSkew /\ o.rev <= origin'[f[2]]
  BY <1>1, <1>2
<1> QED BY <1>2, <1>3, Zenon DEF OpOK, HoldsLogged, ReadLogged, LoadedCurrent

\* publish: a broadcast that reaches some of the instances keeps the invariant.
LEMMA PublishStep ==
    ASSUME IInv, NEW i \in Instances, NEW k \in Keys, NEW p \in Writers, Publish(i, k, p)
    PROVE  Keeps
<1> DEFINE g == <<i, k, p>>
           e == [key |-> k, ver |-> op[g].ent.ver, from |-> i]
<1>1. /\ p \in Fills \cup Writers /\ UNCHANGED <<now, log, origin, l1, seen, late>>
      /\ op[g].pc = "publish" /\ op' = [op EXCEPT ![g] = NoOp]
  BY Zenon DEF Publish, Return, Goto
<1>2. TypeOK /\ LogOK /\ EntryIsMinted /\ EventsOK /\ \A f \in Procs : OpOK(f)
  BY Zenon DEF IInv
<1>3. PICK to \in SUBSET Instances :
         /\ bus' = [j \in Instances |-> IF j \in to THEN bus[j] \cup {e} ELSE bus[j]]
         /\ Miss(Instances \ (to \cup {i}), {EventID(e)})
  BY Zenon DEF Publish
<1>4. op[g].ent.ver \in 1..Len(log[k]) /\ g \in Procs /\ op[g].ent.ver \in Nat
  <2>1. HoldsLogged(k, op[g]) /\ g \in Procs /\ Len(log[k]) \in Nat
    BY <1>1, OpFacts, ProcIn, Types, Zenon
  <2>2. op[g].ent.ver \in 1..Len(log[k])
    BY <1>1, <2>1, Zenon DEF HoldsLogged
  <2> QED BY <2>1, <2>2
<1> HIDE DEF g
<1>5. e \in Event /\ e.key = k /\ e.ver = op[g].ent.ver
  BY <1>4, Zenon DEF Event
<1> HIDE DEF e
<1>6. \A f \in Procs : op'[f] = NoOp \/ op'[f] = op[f]
  BY <1>1, <1>2, Zenon DEF TypeOK
<1>0. HistoryKept
  <2>1. {EventID(e)} \in SUBSET (Keys \X Nat)
    BY <1>4, <1>5 DEF EventID
  <2> QED BY <1>1, <1>3, <2>1, MissKept, Zenon
<1>7. TypeOK'
  <2>1. bus' \in [Instances -> SUBSET Event]
    BY <1>2, <1>3, <1>5, Zenon DEF TypeOK
  <2>2. op' \in [Procs -> Operation]
    BY <1>1, <1>2, Blank, Zenon DEF TypeOK
  <2> QED BY <1>0, <1>1, <1>2, <2>1, <2>2, Zenon DEF TypeOK, HistoryKept
<1>8. LogOK' /\ EntryIsMinted'
  BY <1>1, <1>2, Zenon DEF LogOK, EntryIsMinted
<1>9. EventsOK'
  BY <1>1, <1>2, <1>3, <1>4, <1>5, Zenon DEF EventsOK
<1>10. Grows
  BY <1>1, <1>2, KeptGrows DEF TypeOK
<1>11. Covers
  <2>1. ASSUME NEW j \in Instances, NEW q \in Keys, NEW s \in Fills \cup Writers,
               op'[<<j, q, s>>].pc = "install"
        PROVE  op'[<<j, q, s>>] = op[<<j, q, s>>]
    BY <1>6, <2>1, ProcIn, Blank, Zenon
  <2> QED BY <1>0, <1>1, <1>2, <1>10, <2>1, CoversFrom, Zenon
<1>12. ASSUME NEW f \in Procs PROVE OpOK(f)'
  <2>2. CASE op'[f] = op[f]
    BY <1>2, <1>10, <2>2, OpKept, Zenon
  <2>3. CASE op'[f] = NoOp
    BY <1>7, <2>3, IdleOK, Zenon
  <2> QED BY <1>6, <2>2, <2>3, Zenon
<1> QED BY <1>7, <1>8, <1>9, <1>11, <1>12, Zenon DEF IInv, Keeps

\* Every step of Set and Invalidate keeps the invariant.
LEMMA WriteStep ==
    ASSUME IInv, NEW i \in Instances, NEW k \in Keys, NEW p \in Writers, Write(i, k, p)
    PROVE  Keeps
BY SetBeginStep, SetL2Step, SetInstallStep, InvalidateL2Step, InvalidateL1Step, PublishStep, Zenon
   DEF Write

\* What an applied event does to the L1 and the Dedupe of its instance.
LEMMA ApplyEvent ==
    ASSUME IInv, NEW i \in Instances, NEW e \in bus[i], UNCHANGED <<log, op, missed>>,
           seen' = [seen EXCEPT ![i] = @ \cup {EventID(e)}],
           l1' = [l1 EXCEPT ![i][e.key] = NoEntry],
           Overtake(i, e.key, e.ver)
    PROVE  /\ HistoryKept
           /\ seen' \in [Instances -> SUBSET (Keys \X Nat)]
           /\ l1' \in [Instances -> [Keys -> Entry]]
           /\ \A j \in Instances, q \in Keys : l1'[j][q] = NoEntry \/ l1'[j][q] = l1[j][q]
           /\ \A j \in Instances, q \in Keys, u \in Nat :
                 <<q, u>> \in seen'[j] =>
                     <<q, u>> \in seen[j] \/ (j = i /\ q = e.key /\ u = e.ver)
<1> DEFINE key == e.key
           ver == e.ver
<1>1. TypeOK
  BY Zenon DEF IInv
<1>2. key \in Keys /\ ver \in Nat /\ e \in Event
  BY <1>1 DEF TypeOK, Event
<1>3. EventID(e) = <<key, ver>>
  BY Zenon DEF EventID
<1>4. HistoryKept
  BY <1>2, OvertakeKept, Zenon
<1> HIDE DEF key, ver
<1>5. \A j \in Instances, q \in Keys : l1'[j][q] = NoEntry \/ l1'[j][q] = l1[j][q]
  BY <1>1, Zenon DEF TypeOK
<1>6. l1' \in [Instances -> [Keys -> Entry]]
  BY <1>1, <1>2, Blank, Zenon DEF TypeOK, key
<1>7. \A j \in Instances, q \in Keys, u \in Nat :
         <<q, u>> \in seen'[j] => <<q, u>> \in seen[j] \/ (j = i /\ q = key /\ u = ver)
  BY <1>1, <1>3 DEF TypeOK
<1>8. seen' \in [Instances -> SUBSET (Keys \X Nat)]
  BY <1>1, <1>2, <1>3 DEF TypeOK
<1> QED BY <1>4, <1>5, <1>6, <1>7, <1>8, Zenon DEF key, ver

\* onEvent keeps the invariant: own events, redeliveries and evictions.
LEMMA onEventStep ==
    ASSUME IInv, NEW i \in Instances, NEW e \in bus[i], onEvent(i, e)
    PROVE  Keeps
<1>1. TypeOK /\ LogOK /\ EntryIsMinted /\ EventsOK /\ \A f \in Procs : OpOK(f)
  BY Zenon DEF IInv
<1>2. UNCHANGED <<now, log, origin, op, missed>>
  BY Zenon DEF onEvent
<1>3. bus' = bus \/ bus' = [bus EXCEPT ![i] = @ \ {e}]
  BY <1>1, Zenon DEF onEvent, TypeOK
<1>4. bus' \in [Instances -> SUBSET Event] /\ \A j \in Instances : bus'[j] \subseteq bus[j]
  BY <1>1, <1>3, Zenon DEF TypeOK
<1>5. LogOK' /\ \A f \in Procs : OpOK(f)'
  BY <1>1, <1>2 DEF LogOK, OpOK, HoldsLogged, ReadLogged, LoadedCurrent
<1>6. /\ HistoryKept
      /\ seen' \in [Instances -> SUBSET (Keys \X Nat)]
      /\ l1' \in [Instances -> [Keys -> Entry]]
      /\ \A j \in Instances, q \in Keys : l1'[j][q] = NoEntry \/ l1'[j][q] = l1[j][q]
      /\ \A j \in Instances, q \in Keys, u \in Nat :
            <<q, u>> \in seen'[j] =>
                <<q, u>> \in seen[j] \/ (j = i /\ q = e.key /\ u = e.ver)
  <2>1. CASE e.from = i \/ EventID(e) \in seen[i]
    <3>1. UNCHANGED <<l1, seen, late>>
      BY <2>1, Zenon DEF onEvent
    <3> QED BY <1>1, <1>2, <3>1, SameHistory, Zenon DEF TypeOK
  <2>2. CASE ~(e.from = i \/ EventID(e) \in seen[i])
    <3>1. /\ seen' = [seen EXCEPT ![i] = @ \cup {EventID(e)}]
          /\ l1' = [l1 EXCEPT ![i][e.key] = NoEntry]
          /\ Overtake(i, e.key, e.ver)
      BY <2>2, Zenon DEF onEvent
    <3> QED BY <1>2, <3>1, ApplyEvent, Zenon
  <2> QED BY <2>1, <2>2, Zenon
<1>7. TypeOK'
  BY <1>1, <1>2, <1>4, <1>6, Zenon DEF TypeOK, HistoryKept
<1>8. EntryIsMinted'
  BY <1>1, <1>2, <1>6 DEF EntryIsMinted
<1>9. EventsOK'
  <2>1. ASSUME NEW j \in Instances, NEW x \in bus'[j] PROVE x.ver \in 1..Len(log'[x.key])
    BY <1>1, <1>2, <1>4, Zenon DEF EventsOK
  <2>2. ASSUME NEW j \in Instances, NEW q \in Keys, NEW u \in Nat, <<q, u>> \in seen'[j]
        PROVE  u \in 1..Len(log'[q])
    <3>1. e.ver \in 1..Len(log[e.key])
      BY <1>1, Zenon DEF EventsOK
    <3>2. CASE <<q, u>> \in seen[j]
      BY <1>1, <1>2, <3>2, Zenon DEF EventsOK
    <3>3. CASE q = e.key /\ u = e.ver
      BY <1>2, <3>1, <3>3, Zenon
    <3> QED BY <1>6, <2>2, <3>2, <3>3, Zenon
  <2> QED BY <2>1, <2>2, Zenon DEF EventsOK
<1>10. Covers
  <2>1. Grows
    BY <1>1, <1>2, KeptGrows DEF TypeOK
  <2> QED BY <1>1, <1>2, <1>6, <2>1, CoversFrom, Zenon
<1> QED BY <1>5, <1>7, <1>8, <1>9, <1>10, Zenon DEF IInv, Keeps

\* A restart of an instance keeps the invariant.
LEMMA RestartStep ==
    ASSUME IInv, NEW i \in Instances, Restart(i)
    PROVE  Keeps
<1>1. TypeOK /\ LogOK /\ EntryIsMinted /\ EventsOK /\ \A f \in Procs : OpOK(f)
  BY Zenon DEF IInv
<1>2. UNCHANGED <<now, log, origin>>
  BY Zenon DEF Restart
<1>3. /\ l1' \in [Instances -> [Keys -> Entry]]
      /\ \A j \in Instances, k \in Keys : l1'[j][k] = IF j = i THEN NoEntry ELSE l1[j][k]
  BY <1>1, Blank, Zenon DEF Restart, TypeOK
<1>4. /\ op' \in [Procs -> Operation]
      /\ \A f \in Procs : op'[f] = IF f[1] = i THEN NoOp ELSE op[f]
  BY <1>1, Blank, Zenon DEF Restart, TypeOK
<1>5. /\ seen' \in [Instances -> SUBSET (Keys \X Nat)]
      /\ \A j \in Instances : seen'[j] = IF j = i THEN {} ELSE seen[j]
  BY <1>1, Zenon DEF Restart, TypeOK
<1>6. /\ late' \in [Instances -> [Keys -> SUBSET (Nat \X Nat)]]
      /\ \A j \in Instances : j # i => late'[j] = late[j]
  BY <1>1, Zenon DEF Restart, TypeOK
<1>0. missed' \in [Instances -> SUBSET (Keys \X Nat)]
  <2>1. ASSUME NEW g \in {i} \X Keys \X Writers PROVE <<g[2], op[g].ent.ver>> \in Keys \X Nat
    <3>1. PICK k \in Keys, p \in Writers : g = <<i, k, p>>
      OBVIOUS
    <3>2. op[g].ent.ver \in Nat
      BY <3>1, OpFacts, Zenon DEF Entry
    <3> QED BY <3>1, <3>2, Zenon
  <2>2. Unsent(i) \subseteq Keys \X Nat
    BY <2>1, Zenon DEF Unsent
  <2> QED BY <1>1, <2>2, Zenon DEF Restart, TypeOK
<1>7. ASSUME NEW j \in Instances, NEW x \in bus'[j]
      PROVE  x \in Event /\ x.ver \in 1..Len(log[x.key])
  <2>1. PICK e \in bus[j] : x = IF e.from = i THEN [e EXCEPT !.from = "retired"] ELSE e
    BY Zenon DEF Restart
  <2>2. e \in Event /\ e.ver \in 1..Len(log[e.key])
    BY <1>1, Zenon DEF TypeOK, EventsOK
  <2>3. x \in Event /\ x.ver = e.ver /\ x.key = e.key
    BY <2>1, <2>2, Zenon DEF Event
  <2> QED BY <2>2, <2>3, Zenon
<1>8. bus' \in [Instances -> SUBSET Event]
  <2>1. bus' = [j \in Instances |-> bus'[j]]
    BY Zenon DEF Restart
  <2>2. \A j \in Instances : bus'[j] \in SUBSET Event
    BY <1>7, Zenon
  <2> QED BY <2>1, <2>2, Zenon
<1>9. TypeOK'
  BY <1>0, <1>1, <1>2, <1>3, <1>4, <1>5, <1>6, <1>8, Zenon DEF TypeOK
<1>10. LogOK' /\ EntryIsMinted'
  BY <1>1, <1>2, <1>3 DEF LogOK, EntryIsMinted
<1>11. EventsOK'
  BY <1>1, <1>2, <1>5, <1>7, Zenon DEF EventsOK
<1>12. Covers
  <2>1. SUFFICES ASSUME NEW j \in Instances, NEW k \in Keys, NEW n \in 1..Len(log[k]),
                        Covered(j, k, n)
                 PROVE  Covered(j, k, n)'
    BY Zenon DEF Covers
  <2>2. ASSUME NEW r \in Fills \cup Writers, op'[<<j, k, r>>].pc = "install"
        PROVE  j # i /\ op'[<<j, k, r>>] = op[<<j, k, r>>]
    <3>1. <<j, k, r>> \in Procs /\ <<j, k, r>>[1] = j
      BY ProcIn, Zenon
    <3> QED BY <1>4, <2>2, <3>1, Blank, Zenon
  <2>3. ASSUME l1'[j][k] # NoEntry PROVE j # i /\ l1'[j][k] = l1[j][k]
    BY <1>3, <2>3, Zenon
  <2>4. ASSUME j # i, NEW v, Spared(j, k, v, n) PROVE Spared(j, k, v, n)'
    BY <1>6, <2>4, Zenon DEF Spared
  <2> QED BY <2>1, <2>2, <2>3, <2>4, Zenon DEF Covered
<1>13. ASSUME NEW f \in Procs PROVE OpOK(f)'
  <2>1. Grows
    BY <1>1, <1>2, KeptGrows DEF TypeOK
  <2>2. CASE op'[f] = op[f]
    BY <1>1, <2>1, <2>2, OpKept, Zenon
  <2>3. CASE op'[f] = NoOp
    BY <1>9, <2>3, IdleOK, Zenon
  <2> QED BY <1>4, <2>2, <2>3, Zenon
<1> QED BY <1>9, <1>10, <1>11, <1>12, <1>13, Zenon DEF IInv, Keeps

\* A change of the origin keeps the invariant.
LEMMA OriginWriteStep ==
    ASSUME IInv, NEW k \in Keys, OriginWrite(k)
    PROVE  Keeps
<1>1. TypeOK /\ LogOK /\ EntryIsMinted /\ EventsOK /\ \A f \in Procs : OpOK(f)
  BY DEF IInv
<1>2. UNCHANGED <<now, log, l1, op, bus, seen>> /\ HistoryKept
  BY SameHistory, Zenon DEF OriginWrite
<1>3. origin' \in [Keys -> Nat] /\ \A q \in Keys : origin[q] <= origin'[q]
  BY <1>1 DEF OriginWrite, TypeOK
<1>4. Grows
  BY <1>1, <1>2, <1>3, KeptGrows DEF TypeOK
<1>5. TypeOK'
  BY <1>1, <1>2, <1>3, Zenon DEF TypeOK, HistoryKept
<1>6. LogOK' /\ EventsOK' /\ \A f \in Procs : OpOK(f)'
  BY <1>1, <1>2, <1>4, LogKept, EventsKept, OpKept, Zenon
<1>7. EntryIsMinted'
  BY <1>1, <1>2 DEF EntryIsMinted
<1>8. Covers
  BY <1>1, <1>2, <1>4, CoversFrom, Zenon
<1> QED BY <1>5, <1>6, <1>7, <1>8, Zenon DEF IInv, Keeps

\* The passing of time keeps the invariant.
LEMMA TickStep ==
    ASSUME IInv, Tick
    PROVE  Keeps
<1>1. TypeOK /\ LogOK /\ EntryIsMinted /\ EventsOK /\ \A f \in Procs : OpOK(f)
  BY Zenon DEF IInv
<1>2. UNCHANGED <<log, origin, l1, op, bus, seen>> /\ HistoryKept /\ now' = now + 1
  BY SameHistory, Zenon DEF Tick, L2!Tick
<1>3. now \in Nat /\ origin \in [Keys -> Nat] /\ now' \in Nat
  BY <1>1, <1>2 DEF TypeOK
<1>4. Grows
  BY <1>1, <1>2, <1>3, KeptGrows
<1>5. TypeOK'
  BY <1>1, <1>2, <1>3, Zenon DEF TypeOK, HistoryKept
<1>6. LogOK' /\ EventsOK' /\ \A f \in Procs : OpOK(f)'
  BY <1>1, <1>2, <1>4, LogKept, EventsKept, OpKept, Zenon
<1>7. EntryIsMinted'
  BY <1>1, <1>2 DEF EntryIsMinted
<1>8. Covers
  BY <1>1, <1>2, <1>4, CoversFrom, Zenon
<1> QED BY <1>5, <1>6, <1>7, <1>8, Zenon DEF IInv, Keeps

\* The invariant holds initially.
LEMMA InitIInv ==
    ASSUME Init
    PROVE  IInv
<1>1. /\ now = 0 /\ log = [k \in Keys |-> << >>] /\ origin = [k \in Keys |-> 0]
      /\ l1 = [i \in Instances |-> [k \in Keys |-> NoEntry]]
      /\ op = [f \in Procs |-> NoOp]
      /\ bus = [i \in Instances |-> {}] /\ seen = [i \in Instances |-> {}]
      /\ late = [i \in Instances |-> [k \in Keys |-> {}]]
      /\ missed = [i \in Instances |-> {}]
  BY Zenon DEF Init, L2!Init
<1>2. TypeOK
  BY <1>1, Blank DEF TypeOK
<1>3. \A k \in Keys : Len(log[k]) = 0
  BY <1>1, Zenon
<1>4. LogOK /\ EntryIsMinted
  BY <1>1, <1>3 DEF LogOK, EntryIsMinted
<1>5. EventsOK
  BY <1>1, Zenon DEF EventsOK
<1>7. ASSUME NEW f \in Procs PROVE OpOK(f)
  <2> DEFINE o == op[f]
  <2>1. o.pc = "idle" /\ o.read = 0 /\ o.at = 0 /\ o.rev = 0
    BY <1>1, Blank, Zenon
  <2>2. now \in Nat /\ origin[f[2]] \in Nat /\ MaxSkew \in Nat
    BY <1>2, TimeAssumption, Zenon DEF TypeOK, Procs
  <2>3. o.read <= now /\ o.at <= now + MaxSkew /\ o.rev <= origin[f[2]]
    BY <2>1, <2>2
  <2> QED BY <2>1, <2>3, Zenon DEF OpOK, HoldsLogged, ReadLogged, LoadedCurrent
<1> QED BY <1>2, <1>4, <1>5, <1>7, Zenon DEF IInv

\* Every step keeps the invariant.
LEMMA NextKeeps ==
    ASSUME IInv, [Next]_vars
    PROVE  Keeps
<1>1. CASE UNCHANGED vars
  <2>1. UNCHANGED <<now, log, origin, l1, op, bus, seen, late, missed>>
    BY <1>1, Zenon DEF vars
  <2>2. TypeOK' /\ LogOK' /\ EntryIsMinted'
    BY <2>1, Zenon DEF IInv, TypeOK, LogOK, EntryIsMinted
  <2>3. \A f \in Procs : OpOK(f)'
    BY <2>1 DEF IInv, OpOK, HoldsLogged, ReadLogged, LoadedCurrent
  <2>4. EventsOK'
    BY <2>1, Zenon DEF IInv, EventsOK
  <2>5. Covers
    <3>1. TypeOK /\ Grows /\ HistoryKept
      BY <2>1, KeptGrows, SameHistory DEF IInv, TypeOK
    <3> QED BY <2>1, <3>1, CoversFrom, Zenon
  <2> QED BY ONLY <2>2, <2>3, <2>4, <2>5, Zenon DEF IInv, Keeps
<1>2. CASE Next
  <2>1. ASSUME NEW i \in Instances, NEW k \in Keys,
               \/ Get(i, k) \/ GetOrLoadMiss(i, k) \/ GetOrLoadStale(i, k)
               \/ \E r \in Fills : Fill(i, k, r)
               \/ \E p \in Writers : Write(i, k, p)
               \/ EvictLRU(i, k)
        PROVE  Keeps
    BY <2>1, GetStep, GetOrLoadMissStep, GetOrLoadStaleStep, FillStep, WriteStep, EvictLRUStep, Zenon
  <2>2. ASSUME NEW i \in Instances, Restart(i) \/ \E e \in bus[i] : onEvent(i, e)
        PROVE  Keeps
    BY <2>2, RestartStep, onEventStep, Zenon
  <2>3. ASSUME NEW k \in Keys, OriginWrite(k) PROVE Keeps
    BY <2>3, OriginWriteStep, Zenon
  <2>4. ASSUME Tick PROVE Keeps
    BY <2>4, TickStep, Zenon
  <2> QED BY <1>2, <2>1, <2>2, <2>3, <2>4, Zenon DEF Next
<1> QED BY <1>1, <1>2, Zenon

-----------------------------------------------------------------------------
(* No fill-after-invalidate *)

\* A write that L2 forgets, it forgets no sooner than its retention says.
Kept(w) == w.exp # 0 => Retention(w) > 0 /\ w.at + Retention(w) <= w.exp

Retained == \A k \in Keys : \A n \in 1..Len(log[k]) : Kept(log[k][n])

\* Why L2 accepted a: a blind write, or that of a fill which has read a version
\* that is not older than the one L2 reports.
Justified(k, a) ==
    \/ a.expect = ForceVersion
    \/ \E i \in Instances, r \in Fills :
          LET o == op[<<i, k, r>>]
          IN  /\ o.pc \in {"setcas", "cad"}
              /\ L2!Version(k) <= o.expect
              /\ a.pay.rev = o.rev /\ a.pay.read = o.read

\* The deadline that L2 gives what it accepts now.
Deadline(a) ==
    \/ ~a.del /\ a.exp >= now + TTLFloor
    \/ a.del /\ a.exp = Retain(TombstoneTTL)

\* What a fill's SetCAS writes is as recent as everything accepted before it.
LEMMA FillSetCASJustified ==
    ASSUME IInv, NEW i \in Instances, NEW k \in Keys, NEW r \in Fills, FillSetCAS(i, k, r)
    PROVE  \E a : Appends(k, a) /\ Justified(k, a) /\ Deadline(a)
<1> DEFINE o == op[<<i, k, r>>]
<1>1. r \in Fills \cup Writers /\ o.pc = "setcas"
  BY Zenon DEF FillSetCAS
<1>2. o.rev \in Nat /\ o.rev <= origin[k] /\ o.at \in Nat /\ o.at <= now + MaxSkew
      /\ o.expect \in Nat /\ o.read \in Nat
  BY <1>1, OpFacts, Zenon
<1>3. PICK w \in window(o.at) : SetCAS(i, k, o, w, o.expect)
  BY Zenon DEF FillSetCAS
<1>4. PICK a : /\ Appends(k, a) /\ a.pay.rev = o.rev /\ a.pay.read = o.read
               /\ ~a.del /\ a.exp >= now + TTLFloor
  BY <1>2, <1>3, SetCASAppends DEF IInv
<1>5. L2!Version(k) <= o.expect
  <2>1. o.expect = L2!Version(k)
    BY <1>2, <1>3, ForceAssumption, Zenon DEF SetCAS, L2!SetCAS, L2!SetAllowed
  <2> QED BY <1>2, <2>1
<1> QED BY <1>1, <1>4, <1>5, Zenon DEF Justified, Deadline

\* What a fill's CompareAndDelete writes is as recent as everything accepted before it.
LEMMA FillDeleteJustified ==
    ASSUME IInv, NEW i \in Instances, NEW k \in Keys, NEW r \in Fills, FillDelete(i, k, r)
    PROVE  \E a : Appends(k, a) /\ Justified(k, a) /\ Deadline(a)
<1> DEFINE o == op[<<i, k, r>>]
           until == negative(o.at)
<1>1. r \in Fills \cup Writers /\ o.pc = "cad"
  BY Zenon DEF FillDelete
<1>2. o.rev \in Nat /\ o.rev <= origin[k] /\ o.at \in Nat /\ o.at <= now + MaxSkew
      /\ o.expect \in Nat /\ o.read \in Nat
  BY <1>1, OpFacts, Zenon
<1>3. TypeOK /\ now \in Nat /\ MaxSkew \in Nat /\ Len(log[k]) \in Nat
  BY Types, Zenon
<1>4. CompareAndDelete(k, o, until, o.expect)
  BY Zenon DEF FillDelete
<1>5. until \in Nat /\ MaxAge(TRUE) \in Nat /\ until <= o.at + MaxAge(TRUE)
  BY <1>2, NegativeBound, Zenon
<1> HIDE DEF o, until
<1>7. until <= now + MaxAge(TRUE) + MaxSkew
  BY <1>2, <1>3, <1>5, AddBounds, Zenon
<1>8. PICK a : /\ Appends(k, a) /\ a.pay.rev = o.rev /\ a.pay.read = o.read
               /\ a.del /\ a.exp = Retain(TombstoneTTL)
  <2>1. Entombs(k, o, o.expect)
    BY <1>2, <1>3, <1>4, <1>5, <1>7, DeleteAppends, Zenon
  <2> QED BY <2>1, Zenon DEF Entombs
<1>9. L2!Version(k) <= o.expect
  <2>1. o.expect >= L2!Version(k)
    BY <1>2, <1>4, ForceAssumption, Zenon DEF CompareAndDelete, L2!CompareAndDelete, L2!DeleteAllowed
  <2>2. L2!Version(k) \in Nat
    BY <1>3, VersionIsLast
  <2> QED BY <1>2, <2>1, <2>2, Zenon
<1> QED BY <1>1, <1>8, <1>9, Zenon DEF Justified, Deadline, o

\* Set is a blind write, which makes no claim.
LEMMA SetL2Justified ==
    ASSUME IInv, NEW i \in Instances, NEW k \in Keys, NEW p \in Writers, SetL2(i, k, p)
    PROVE  \/ log' = log
           \/ \E a : Appends(k, a) /\ Justified(k, a) /\ Deadline(a)
<1> DEFINE o == op[<<i, k, p>>]
<1>1. p \in Fills \cup Writers
  BY Zenon
<1>2. o.rev \in Nat /\ o.rev <= origin[k] /\ o.at \in Nat /\ o.at <= now + MaxSkew
      /\ o.read \in Nat
  BY <1>1, OpFacts, Zenon
<1>3. ASSUME NEW w \in window(o.at), SetCAS(i, k, o, w, ForceVersion)
      PROVE  \E a : Appends(k, a) /\ a.expect = ForceVersion /\ Deadline(a)
  <2>1. TypeOK /\ ForceVersion \in Nat \cup {ForceVersion}
    BY Zenon DEF IInv
  <2> HIDE DEF o
  <2>2. \E a : /\ Appends(k, a)
               /\ ~a.del /\ a.expect = ForceVersion
               /\ a.pay.rev = o.rev /\ a.pay.read = o.read
               /\ a.exp >= now + TTLFloor
    <3> DEFINE t == o.at
               expect == ForceVersion
    <3>1. /\ o.rev \in Nat /\ o.rev <= origin[k] /\ o.read \in Nat
          /\ t \in Nat /\ t <= now + MaxSkew /\ w \in window(t)
          /\ expect \in Nat \cup {ForceVersion} /\ SetCAS(i, k, o, w, expect)
      BY <1>2, <1>3, <2>1, Zenon
    <3> HIDE DEF t, expect
    <3>2. \E a : /\ Appends(k, a)
                 /\ ~a.del /\ a.expect = expect
                 /\ a.pay.rev = o.rev /\ a.pay.read = o.read
                 /\ a.exp >= now + TTLFloor
      BY <2>1, <3>1, SetCASAppends
    <3> QED BY <3>2, Zenon DEF expect
  <2> QED BY ONLY <2>2, Zenon DEF Deadline
<1> QED BY <1>3, Zenon DEF SetL2, Justified

\* Invalidate is a blind write, which makes no claim.
LEMMA InvalidateL2Justified ==
    ASSUME IInv, NEW i \in Instances, NEW k \in Keys, NEW p \in Writers, InvalidateL2(i, k, p)
    PROVE  \E a : Appends(k, a) /\ Justified(k, a) /\ Deadline(a)
<1>1. TypeOK /\ now \in Nat /\ origin[k] \in Nat /\ MaxSkew \in Nat /\ MaxAge(TRUE) \in Nat
  BY Types, NegativeBound, Zenon
<1>2. 0 <= now + MaxAge(TRUE) + MaxSkew
  BY <1>1, SumBound, Zenon
<1>3. origin[k] <= origin[k] /\ 0 \in Nat
  BY <1>1
<1>4. PICK o : o = [NoOp EXCEPT !.rev = origin[k]]
  BY Zenon
<1>5. o.rev = origin[k] /\ o.read = 0
  BY <1>4, BlankAt, Zenon
<1>6. Entombs(k, o, ForceVersion)
  BY <1>1, <1>2, <1>3, <1>4, <1>5, DeleteAppends, Zenon DEF InvalidateL2
<1> QED BY <1>6, Zenon DEF Entombs, Justified, Deadline

\* L2 accepts a justified write to k, and retains it long enough.
Accepts(k) ==
    \E a \in Accepted : Appends(k, a) /\ Justified(k, a) /\ Deadline(a)

\* Every change of the log is one justified write.
LEMMA NextLog ==
    ASSUME IInv, [Next]_vars
    PROVE  log' = log \/ \E k \in Keys : Accepts(k)
<1>1. CASE UNCHANGED vars
  BY <1>1, Zenon DEF vars
<1>2. ASSUME NEW i \in Instances, NEW k \in Keys, NEW r \in Fills, Fill(i, k, r)
      PROVE  log' = log \/ FillSetCAS(i, k, r) \/ FillDelete(i, k, r)
  BY <1>2, Zenon DEF Fill, FillLoadFresh, FillLoadMiss, FillLoadError, FillLoader,
              FillConflict, FillReload, FillDegraded, FillInstall
<1>3. ASSUME NEW i \in Instances, NEW k \in Keys, NEW p \in Writers, Write(i, k, p)
      PROVE  log' = log \/ SetL2(i, k, p) \/ InvalidateL2(i, k, p)
  BY <1>3, Zenon DEF Write, SetBegin, SetInstall, InvalidateL1, Publish
<1>4. ASSUME NEW i \in Instances, NEW k \in Keys,
             Get(i, k) \/ GetOrLoadMiss(i, k) \/ GetOrLoadStale(i, k) \/ EvictLRU(i, k)
      PROVE  log' = log
  BY <1>4, Zenon DEF Get, GetOrLoadMiss, GetOrLoadStale, EvictLRU
<1>5. ASSUME NEW i \in Instances, Restart(i) \/ \E e \in bus[i] : onEvent(i, e)
      PROVE  log' = log
  BY <1>5, Zenon DEF Restart, onEvent
<1>6. (Tick => log' = log) /\ \A k \in Keys : OriginWrite(k) => log' = log
  BY Zenon DEF Tick, OriginWrite
<1>7. \A k \in Keys : \A a : Appends(k, a) => a \in Accepted
  BY Zenon DEF Appends
<1>8. ASSUME NEW i \in Instances, NEW k \in Keys, NEW r \in Fills, Fill(i, k, r)
      PROVE  log' = log \/ Accepts(k)
  <2>1. CASE FillSetCAS(i, k, r)
    BY <1>7, <2>1, FillSetCASJustified, Zenon DEF Accepts
  <2>2. CASE FillDelete(i, k, r)
    BY <1>7, <2>2, FillDeleteJustified, Zenon DEF Accepts
  <2> QED BY <1>2, <1>8, <2>1, <2>2, Zenon
<1>9. ASSUME NEW i \in Instances, NEW k \in Keys, NEW p \in Writers, Write(i, k, p)
      PROVE  log' = log \/ Accepts(k)
  <2>1. CASE SetL2(i, k, p)
    BY <1>7, <2>1, SetL2Justified, Zenon DEF Accepts
  <2>2. CASE InvalidateL2(i, k, p)
    BY <1>7, <2>2, InvalidateL2Justified, Zenon DEF Accepts
  <2> QED BY <1>3, <1>9, <2>1, <2>2, Zenon
<1>10. CASE Next
  BY <1>4, <1>5, <1>6, <1>8, <1>9, <1>10, Zenon DEF Next
<1> QED BY <1>1, <1>10, Zenon

\* A write accepted now is retained.
LEMMA NewIsKept ==
    ASSUME IInv, NEW a \in Accepted, a.at = now, Deadline(a)
    PROVE  Kept(a)
<1>1. now \in Nat /\ a.exp \in Nat /\ TTLFloor \in Nat \ {0} /\ TombstoneTTL \in Nat
  BY TimeAssumption, Zenon DEF IInv, TypeOK, Accepted
<1> QED BY <1>1 DEF Kept, Retention, Deadline, Retain

\* A fill whose write is justified read L2 after the last write, or L2 has
\* forgotten the last write since.
LEMMA ReadLastOrForgotten ==
    ASSUME IInv, Retained, NEW i \in Instances, NEW k \in Keys, NEW r \in Fills,
           op[<<i, k, r>>].pc \in {"setcas", "cad"},
           L2!Version(k) <= op[<<i, k, r>>].expect,
           op[<<i, k, r>>].nth # Len(log[k])
    PROVE  LET last == log[k][Len(log[k])]
           IN  /\ Len(log[k]) > 0
               /\ op[<<i, k, r>>].read <= last.at
               /\ Retention(last) > 0 /\ now > last.at + Retention(last)
<1> DEFINE o == op[<<i, k, r>>]
           len == Len(log[k])
           last == log[k][len]
<1>1. r \in Fills \cup Writers
  BY Zenon
<1>2. o.read \in Nat /\ o.nth \in Nat /\ o.expect \in Nat /\ ReadLogged(k, o)
  BY <1>1, OpFacts, Zenon
<1>3. now \in Nat /\ len \in Nat /\ log[k] \in Seq(Accepted)
  BY Types, Zenon
<1>4. /\ o.nth <= len
      /\ o.expect = 0 \/ o.expect = o.nth
      /\ \A n \in (o.nth + 1)..len : o.read <= log[k][n].at
  BY <1>2, Zenon DEF ReadLogged
<1>5. o.nth < len
  BY <1>2, <1>3, <1>4
<1>6. len \in 1..len /\ len \in (o.nth + 1)..len /\ len > 0
  BY <1>2, <1>3, <1>5
<1>7. last \in Accepted
  BY <1>3, <1>6, SeqElement, Zenon
<1>8. last.at \in Nat /\ last.exp \in Nat /\ Retention(last) \in Nat
  BY <1>7, TimeAssumption, Zenon DEF Accepted, Retention
<1>9. o.read <= last.at /\ Kept(last)
  BY <1>4, <1>6, Zenon DEF Retained
<1>10. ~L2!Present(k)
  <2>1. ASSUME L2!Present(k) PROVE FALSE
    <3>1. L2!Version(k) = len
      BY <2>1, VersionIsLast, Zenon
    <3> QED BY <1>2, <1>3, <1>4, <1>5, <3>1
  <2> QED BY <2>1, Zenon
<1>11. last.exp # 0 /\ ~(now <= last.exp)
  BY <1>6, <1>10, Zenon DEF L2!Present, L2!Latest
<1>12. Retention(last) > 0 /\ last.at + Retention(last) <= last.exp
  BY <1>9, <1>11, Zenon DEF Kept
<1> HIDE DEF last
<1>13. now > last.at + Retention(last)
  BY <1>3, <1>8, <1>11, <1>12
<1> QED BY <1>6, <1>9, <1>12, <1>13, Zenon DEF last

\* A justified write keeps the fills current.
LEMMA AcceptsStep ==
    ASSUME IInv, Retained, FillsAreCurrent,
           NEW k \in Keys, NEW a \in Accepted, Appends(k, a), Justified(k, a), Deadline(a)
    PROVE  Retained' /\ FillsAreCurrent'
<1>1. /\ Len(log[k]) \in Nat
      /\ Len(log'[k]) = Len(log[k]) + 1
      /\ log'[k][Len(log[k]) + 1] = a
      /\ \A n \in 1..Len(log[k]) : log'[k][n] = log[k][n]
      /\ \A j \in Keys \ {k} : log'[j] = log[j]
  BY AppendsLog, Zenon DEF IInv
<1>2. Kept(a) /\ a.at = now
  BY NewIsKept, Zenon DEF Appends
<1>3. ASSUME NEW j \in Keys, NEW n \in 1..Len(log'[j]) PROVE Kept(log'[j][n])
  <2>1. CASE j = k /\ n = Len(log[k]) + 1
    BY <1>1, <1>2, <2>1, Zenon
  <2>2. CASE j = k /\ n \in 1..Len(log[k])
    BY <1>1, <2>2, Zenon DEF Retained
  <2>3. CASE j # k
    BY <1>1, <2>3, Zenon DEF Retained
  <2> QED BY <1>1, <2>1, <2>2, <2>3
<1>4. Retained'
  BY <1>3, Zenon DEF Retained, Kept, Retention
<1>5. ASSUME a.expect # ForceVersion, NEW m \in 1..Len(log[k]), NEW n, n = Len(log[k]) + 1
      PROVE  log[k][m].pay.rev <= a.pay.rev \/ Overstayed(k, n)'
  <2>1. PICK i \in Instances, r \in Fills :
           /\ op[<<i, k, r>>].pc \in {"setcas", "cad"}
           /\ L2!Version(k) <= op[<<i, k, r>>].expect
           /\ a.pay.rev = op[<<i, k, r>>].rev /\ a.pay.read = op[<<i, k, r>>].read
    BY <1>5, Zenon DEF Justified
  <2>2. CASE op[<<i, k, r>>].nth = Len(log[k])
    <3>1. LoadedCurrent(k, op[<<i, k, r>>])
      BY OpFacts, Zenon
    <3> QED BY <1>5, <2>1, <2>2, <3>1, Zenon DEF LoadedCurrent
  <2>3. CASE op[<<i, k, r>>].nth # Len(log[k])
    <3>1. n - 1 = Len(log[k]) /\ Len(log[k]) \in 1..Len(log[k])
      BY <1>1, <1>5
    <3>2. log'[k][n] = a /\ log'[k][n - 1] = log[k][Len(log[k])]
      BY <1>1, <1>5, <3>1, Zenon
    <3>3. /\ a.pay.read <= log[k][Len(log[k])].at
          /\ Retention(log[k][Len(log[k])]) > 0
          /\ a.at > log[k][Len(log[k])].at + Retention(log[k][Len(log[k])])
      BY <1>2, <2>1, <2>3, ReadLastOrForgotten, Zenon
    <3> QED BY <3>2, <3>3, Zenon DEF Overstayed, Retention
  <2> QED BY <2>2, <2>3, Zenon
<1>6. ASSUME NEW j \in Keys, NEW m \in 1..Len(log'[j]), NEW n \in 1..Len(log'[j]),
             m < n, log'[j][n].expect # ForceVersion
      PROVE  log'[j][m].pay.rev <= log'[j][n].pay.rev \/ Overstayed(j, n)'
  <2>1. CASE j # k
    BY <1>1, <1>6, <2>1, Zenon DEF FillsAreCurrent, Overstayed, Retention
  <2>2. CASE j = k /\ n \in 1..Len(log[k])
    <3>1. m \in 1..Len(log[k]) /\ n - 1 \in 1..Len(log[k])
      BY <1>1, <1>6, <2>2
    <3>2. /\ log'[j][n] = log[j][n] /\ log'[j][m] = log[j][m]
          /\ log'[j][n - 1] = log[j][n - 1]
      BY <1>1, <2>2, <3>1, Zenon
    <3> QED BY <1>6, <2>2, <3>1, <3>2, Zenon DEF FillsAreCurrent, Overstayed, Retention
  <2>3. CASE j = k /\ n = Len(log[k]) + 1
    <3>1. m \in 1..Len(log[k])
      BY <1>1, <1>6, <2>3
    <3>2. log'[j][n] = a /\ log'[j][m] = log[k][m]
      BY <1>1, <2>3, <3>1, Zenon
    <3>3. log[k][m].pay.rev <= a.pay.rev \/ Overstayed(k, n)'
      BY <1>5, <1>6, <2>3, <3>1, <3>2, Zenon
    <3> QED BY <2>3, <3>2, <3>3, Zenon
  <2> QED BY <1>1, <2>1, <2>2, <2>3
<1>7. FillsAreCurrent'
  BY <1>6, Zenon DEF FillsAreCurrent
<1> QED BY <1>4, <1>7, Zenon

\* Every step keeps the fills current.
LEMMA CurrentStep ==
    ASSUME IInv, Retained, FillsAreCurrent, [Next]_vars
    PROVE  Retained' /\ FillsAreCurrent'
<1>1. CASE log' = log
  BY <1>1, Zenon DEF Retained, FillsAreCurrent, Kept, Overstayed, Retention
<1>2. ASSUME NEW k \in Keys, Accepts(k) PROVE Retained' /\ FillsAreCurrent'
  BY <1>2, AcceptsStep, Zenon DEF Accepts
<1> QED BY <1>1, <1>2, NextLog, Zenon

-----------------------------------------------------------------------------
(* Delivery: every Set and Invalidate takes effect, is on its way, or is missed *)

Past == {"install", "delete", "publish"}

\* Write n of k is past L2 and its writer has still to broadcast it.
Pending(k, n) ==
    \E j \in Instances, p \in Writers :
        op[<<j, k, p>>].pc \in Past /\ op[<<j, k, p>>].ent.ver = n

\* The event of write n of k is on its way to i.
Coming(i, k, n) == \E e \in bus[i] : e.key = k /\ e.ver = n

Settled(i, k, n) ==
    Covered(i, k, n) \/ <<k, n>> \in missed[i] \/ Coming(i, k, n) \/ Pending(k, n)

\* What an instance has applied, or has itself written and installed or deleted,
\* has taken effect there.
AppliedOK ==
    \A i \in Instances, k \in Keys, v \in Nat : <<k, v>> \in seen[i] => Covered(i, k, v)

PublishOK ==
    \A i \in Instances, k \in Keys, p \in Writers :
        op[<<i, k, p>>].pc = "publish" => Covered(i, k, op[<<i, k, p>>].ent.ver)

OwnOK == \A i \in Instances : \A e \in bus[i] : e.from = i => Covered(i, e.key, e.ver)

SettledOK ==
    \A i \in Instances, k \in Keys : \A n \in 1..Len(log[k]) :
        log[k][n].expect = ForceVersion => Settled(i, k, n)

DInv == AppliedOK /\ PublishOK /\ OwnOK /\ SettledOK

\* A step that delivers nothing: a write of this step is pending or missed, and
\* those that were pending still are.
Calm ==
    /\ seen' = seen /\ bus' = bus
    /\ \A i \in Instances : missed[i] \subseteq missed'[i]
    /\ \A j \in Instances, k \in Keys, p \in Writers :
          op[<<j, k, p>>].pc \in Past =>
              op'[<<j, k, p>>].pc \in Past /\ op'[<<j, k, p>>].ent = op[<<j, k, p>>].ent
    /\ \A j \in Instances, k \in Keys, p \in Writers :
          op'[<<j, k, p>>].pc = "publish" =>
              \/ op'[<<j, k, p>>] = op[<<j, k, p>>]
              \/ Covered(j, k, op[<<j, k, p>>].ent.ver)'
    /\ \/ log' = log
       \/ \E k \in Keys, a \in Accepted :
             /\ Appends(k, a)
             /\ a.expect = ForceVersion =>
                   \A i \in Instances : <<k, a.ver>> \in missed'[i] \/ Pending(k, a.ver)'

\* The writes that operations and events stand for are in the log.
LEMMA InLog ==
    ASSUME IInv
    PROVE  /\ \A i \in Instances, k \in Keys, v \in Nat : <<k, v>> \in seen[i] => v \in 1..Len(log[k])
           /\ \A i \in Instances : \A e \in bus[i] : e.key \in Keys /\ e.ver \in 1..Len(log[e.key])
           /\ \A i \in Instances, k \in Keys, p \in Writers :
                 op[<<i, k, p>>].pc \in Past => op[<<i, k, p>>].ent.ver \in 1..Len(log[k])
<1>1. EventsOK /\ TypeOK
  BY Zenon DEF IInv
<1>2. \A i \in Instances : \A e \in bus[i] : e.key \in Keys
  <2>1. SUFFICES ASSUME NEW i \in Instances, NEW e \in bus[i] PROVE e.key \in Keys
    BY Zenon
  <2>2. e \in Event
    BY <1>1, Zenon DEF TypeOK
  <2> QED BY <2>2, Zenon DEF Event
<1>3. ASSUME NEW i \in Instances, NEW k \in Keys, NEW p \in Writers, op[<<i, k, p>>].pc \in Past
      PROVE  op[<<i, k, p>>].ent.ver \in 1..Len(log[k])
  <2>1. HoldsLogged(k, op[<<i, k, p>>])
    BY OpFacts, Zenon
  <2> QED BY <1>3, <2>1, Zenon DEF HoldsLogged, Past
<1> QED BY <1>1, <1>2, <1>3, Zenon DEF EventsOK

\* A calm step loses no write.
LEMMA CalmStep ==
    ASSUME IInv, Keeps, DInv, Calm
    PROVE  DInv'
<1>1. Covers /\ AppliedOK /\ PublishOK /\ OwnOK /\ SettledOK
  BY Zenon DEF Keeps, DInv
<1>2. seen' = seen /\ bus' = bus
  BY Zenon DEF Calm
<1>3. AppliedOK'
  BY <1>1, <1>2, InLog, Zenon DEF AppliedOK, Covers
<1>4. PublishOK'
  <2>1. SUFFICES ASSUME NEW i \in Instances, NEW k \in Keys, NEW p \in Writers,
                        op'[<<i, k, p>>].pc = "publish"
                 PROVE  Covered(i, k, op[<<i, k, p>>].ent.ver)'
    BY Zenon DEF PublishOK
  <2>2. CASE op'[<<i, k, p>>] = op[<<i, k, p>>]
    <3> DEFINE v == op[<<i, k, p>>].ent.ver
    <3>1. v \in 1..Len(log[k])
      BY <2>1, <2>2, InLog, Zenon DEF Past
    <3>2. Covered(i, k, v) /\ v' = v
      BY <1>1, <2>1, <2>2, Zenon DEF PublishOK
    <3> HIDE DEF v
    <3>3. Covered(i, k, v)'
      BY <1>1, <3>1, <3>2, Zenon DEF Covers
    <3> QED BY <3>3, Zenon DEF v
  <2> QED BY <2>1, <2>2, Zenon DEF Calm
<1>5. OwnOK'
  <2>1. SUFFICES ASSUME NEW i \in Instances, NEW e \in bus[i], e.from = i
                 PROVE  Covered(i, e.key, e.ver)'
    BY <1>2, Zenon DEF OwnOK
  <2> QED BY <1>1, <2>1, InLog, Zenon DEF OwnOK, Covers
<1>6. ASSUME NEW i \in Instances, NEW k \in Keys, NEW n \in 1..Len(log[k]), Settled(i, k, n)
      PROVE  Settled(i, k, n)'
  <2>1. Covered(i, k, n) => Covered(i, k, n)'
    BY <1>1, Zenon DEF Covers
  <2>2. <<k, n>> \in missed[i] => <<k, n>> \in missed'[i]
    BY Zenon DEF Calm
  <2>3. Coming(i, k, n) => Coming(i, k, n)'
    BY <1>2, Zenon DEF Coming
  <2>4. Pending(k, n) => Pending(k, n)'
    <3>1. ASSUME NEW j \in Instances, NEW p \in Writers,
                 op[<<j, k, p>>].pc \in Past, op[<<j, k, p>>].ent.ver = n
          PROVE  op'[<<j, k, p>>].pc \in Past /\ op'[<<j, k, p>>].ent.ver = n
      BY <3>1, Zenon DEF Calm
    <3> QED BY <3>1, Zenon DEF Pending
  <2> QED BY <1>6, <2>1, <2>2, <2>3, <2>4, Zenon DEF Settled
<1>7. SettledOK'
  <2>1. CASE log' = log
    BY <1>1, <1>6, <2>1, Zenon DEF SettledOK
  <2>2. ASSUME NEW q \in Keys, NEW a \in Accepted, Appends(q, a),
               a.expect = ForceVersion =>
                   \A i \in Instances : <<q, a.ver>> \in missed'[i] \/ Pending(q, a.ver)'
        PROVE  SettledOK'
    <3>1. /\ Len(log[q]) \in Nat
          /\ Len(log'[q]) = Len(log[q]) + 1
          /\ log'[q][Len(log[q]) + 1] = a
          /\ \A n \in 1..Len(log[q]) : log'[q][n] = log[q][n]
          /\ \A j \in Keys \ {q} : log'[j] = log[j]
      BY <2>2, AppendsLog, Zenon DEF IInv
    <3>2. SUFFICES ASSUME NEW i \in Instances, NEW k \in Keys, NEW n \in 1..Len(log'[k]),
                          log'[k][n].expect = ForceVersion
                   PROVE  Settled(i, k, n)'
      BY Zenon DEF SettledOK
    <3>3. CASE n \in 1..Len(log[k])
      <4>1. log'[k][n] = log[k][n]
        BY <3>1, <3>3, Zenon
      <4> QED BY <1>1, <1>6, <3>2, <3>3, <4>1, Zenon DEF SettledOK
    <3>4. CASE k = q /\ n = Len(log[q]) + 1
      <4>1. n = a.ver /\ a.expect = ForceVersion
        BY <2>2, <3>1, <3>2, <3>4, Zenon DEF Appends
      <4> QED BY <2>2, <3>4, <4>1, Zenon DEF Settled
    <3>5. n \in 1..Len(log[k]) \/ (k = q /\ n = Len(log[q]) + 1)
      <4>1. CASE k = q
        BY <3>1, <4>1
      <4>2. CASE k # q
        BY <3>1, <4>2, Zenon
      <4> QED BY <4>1, <4>2, Zenon
    <3> QED BY <3>3, <3>4, <3>5, Zenon
  <2> QED BY <2>1, <2>2, Zenon DEF Calm
<1> QED BY <1>3, <1>4, <1>5, <1>7, Zenon DEF DInv

\* A step that changes at most the operation of one fill is calm.
LEMMA FillCalm ==
    ASSUME IInv, NEW i \in Instances, NEW k \in Keys, NEW r \in Fills, NEW rec,
           op' = op \/ op' = [op EXCEPT ![<<i, k, r>>] = rec],
           UNCHANGED <<bus, seen, missed>>,
           log' = log \/ \E a \in Accepted : Appends(k, a) /\ a.expect # ForceVersion
    PROVE  Calm
<1>1. ASSUME NEW j \in Instances, NEW q \in Keys, NEW p \in Writers
      PROVE  op'[<<j, q, p>>] = op[<<j, q, p>>]
  <2>1. <<j, q, p>> \in Procs /\ <<j, q, p>>[3] = p /\ <<i, k, r>>[3] = r
    BY ProcIn, Zenon
  <2>2. p # r
    BY SizeAssumption, Zenon
  <2> QED BY <2>1, <2>2, Zenon DEF IInv, TypeOK
<1> QED BY <1>1, Zenon DEF Calm

\* The steps of a fill are calm: what a fill writes to L2 is not blind.
LEMMA FillIsCalm ==
    ASSUME IInv, NEW i \in Instances, NEW k \in Keys, NEW r \in Fills, Fill(i, k, r)
    PROVE  Calm
<1> DEFINE o == op[<<i, k, r>>]
<1>1. r \in Fills \cup Writers /\ TypeOK
  BY Zenon DEF IInv
<1>2. o.rev \in Nat /\ o.rev <= origin[k] /\ o.at \in Nat /\ o.at <= now + MaxSkew
      /\ o.expect \in Nat /\ o.read \in Nat
  BY <1>1, OpFacts, Zenon
<1>3. \E rec : op' = [op EXCEPT ![<<i, k, r>>] = rec]
  BY Zenon DEF Fill, FillLoadFresh, FillLoadMiss, FillLoadError, FillLoader, FillSetCAS, FillDelete,
     FillConflict, FillReload, FillDegraded, FillInstall, ToLoader, Goto, Return, Install
<1>4. UNCHANGED <<bus, seen, missed>>
  BY Zenon DEF Fill, FillLoadFresh, FillLoadMiss, FillLoadError, FillLoader, FillSetCAS, FillDelete,
     FillConflict, FillReload, FillDegraded, FillInstall
<1>5. log' = log \/ FillSetCAS(i, k, r) \/ FillDelete(i, k, r)
  BY Zenon DEF Fill, FillLoadFresh, FillLoadMiss, FillLoadError, FillLoader,
     FillConflict, FillReload, FillDegraded, FillInstall
<1>6. ForceVersion # o.expect
  BY <1>2, ForceAssumption, Zenon
<1>7. ASSUME FillSetCAS(i, k, r)
      PROVE  \E a \in Accepted : Appends(k, a) /\ a.expect # ForceVersion
  <2>1. PICK w \in window(o.at) : SetCAS(i, k, o, w, o.expect)
    BY <1>7, Zenon DEF FillSetCAS
  <2>2. o.expect \in Nat \cup {ForceVersion}
    BY <1>2, Zenon
  <2>3. PICK a : Appends(k, a) /\ a.expect = o.expect
    BY <1>1, <1>2, <2>1, <2>2, SetCASAppends
  <2>4. a \in Accepted
    BY <2>3, Zenon DEF Appends
  <2> QED BY <1>6, <2>3, <2>4, Zenon
<1>8. ASSUME FillDelete(i, k, r)
      PROVE  \E a \in Accepted : Appends(k, a) /\ a.expect # ForceVersion
  <2> DEFINE until == negative(o.at)
  <2>1. now \in Nat /\ MaxSkew \in Nat
    BY Types, Zenon
  <2>2. CompareAndDelete(k, o, until, o.expect)
    BY <1>8, Zenon DEF FillDelete
  <2>3. until \in Nat /\ MaxAge(TRUE) \in Nat /\ until <= o.at + MaxAge(TRUE)
    BY <1>2, NegativeBound, Zenon
  <2> HIDE DEF o, until
  <2>4. until <= now + MaxAge(TRUE) + MaxSkew
    BY <1>2, <2>1, <2>3, AddBounds, Zenon
  <2>5. Entombs(k, o, o.expect)
    BY <1>1, <1>2, <2>2, <2>3, <2>4, DeleteAppends, Zenon
  <2>6. PICK a : Appends(k, a) /\ a.expect = o.expect
    BY <2>5, Zenon DEF Entombs
  <2>7. a \in Accepted
    BY <2>6, Zenon DEF Appends
  <2> QED BY <1>6, <2>6, <2>7, Zenon
<1> HIDE DEF o
<1> QED BY <1>3, <1>4, <1>5, <1>7, <1>8, FillCalm, Zenon

\* A step of the operation of a writer that leaves the bus alone is calm, if what
\* it writes to L2 is missed or carried on, and what it is to broadcast took effect.
LEMMA WriterCalm ==
    ASSUME IInv, NEW i \in Instances, NEW k \in Keys, NEW p \in Writers, NEW rec,
           op' = [op EXCEPT ![<<i, k, p>>] = rec],
           UNCHANGED <<bus, seen>>,
           \A j \in Instances : missed[j] \subseteq missed'[j],
           op[<<i, k, p>>].pc \in Past => rec.pc \in Past /\ rec.ent = op[<<i, k, p>>].ent,
           rec.pc = "publish" => Covered(i, k, rec.ent.ver)',
           \/ log' = log
           \/ \E a \in Accepted : /\ Appends(k, a)
                                  /\ \/ \A j \in Instances : <<k, a.ver>> \in missed'[j]
                                     \/ rec.pc \in Past /\ rec.ent.ver = a.ver
    PROVE  Calm
<1>1. op'[<<i, k, p>>] = rec
  BY ProcIn, Zenon DEF IInv, TypeOK
<1>2. ASSUME NEW j \in Instances, NEW q \in Keys, NEW s \in Writers, <<j, q, s>> # <<i, k, p>>
      PROVE  op'[<<j, q, s>>] = op[<<j, q, s>>]
  BY <1>2, ProcIn, Zenon DEF IInv, TypeOK
<1>3. ASSUME NEW j \in Instances, NEW q \in Keys, NEW s \in Writers, op[<<j, q, s>>].pc \in Past
      PROVE  op'[<<j, q, s>>].pc \in Past /\ op'[<<j, q, s>>].ent = op[<<j, q, s>>].ent
  <2>1. CASE <<j, q, s>> = <<i, k, p>>
    BY <1>1, <1>3, <2>1, Zenon
  <2>2. CASE <<j, q, s>> # <<i, k, p>>
    BY <1>2, <1>3, <2>2, Zenon
  <2> QED BY <2>1, <2>2, Zenon
<1>4. ASSUME NEW j \in Instances, NEW q \in Keys, NEW s \in Writers,
             op'[<<j, q, s>>].pc = "publish"
      PROVE  \/ op'[<<j, q, s>>] = op[<<j, q, s>>]
             \/ Covered(j, q, op[<<j, q, s>>].ent.ver)'
  <2>1. CASE <<j, q, s>> = <<i, k, p>>
    <3>1. j = i /\ q = k /\ s = p
      BY <2>1, Zenon
    <3> QED BY <1>1, <1>4, <3>1, Zenon
  <2>2. CASE <<j, q, s>> # <<i, k, p>>
    BY <1>2, <2>2, Zenon
  <2> QED BY <2>1, <2>2, Zenon
<1>5. \A n : rec.pc \in Past /\ rec.ent.ver = n => Pending(k, n)'
  BY <1>1, Zenon DEF Pending
<1> QED BY <1>3, <1>4, <1>5, Zenon DEF Calm

\* The parts of an operation that the calm steps of a writer set.
LEMMA PastFields ==
    ASSUME NEW o \in Operation, NEW e
    PROVE  /\ [o EXCEPT !.pc = "publish"].pc = "publish"
           /\ [o EXCEPT !.pc = "publish"].ent = o.ent
           /\ [o EXCEPT !.pc = "install", !.ent = e].pc = "install"
           /\ [o EXCEPT !.pc = "install", !.ent = e].ent = e
           /\ [o EXCEPT !.pc = "delete", !.ent = e].pc = "delete"
           /\ [o EXCEPT !.pc = "delete", !.ent = e].ent = e
BY Zenon DEF Operation

\* A Set or Invalidate that is lost after L2 accepted it is missed by everyone.
LEMMA MissedByAll ==
    ASSUME IInv, NEW k \in Keys, NEW a, Appends(k, a), Miss(Instances, {<<k, NextVersion(k)>>})
    PROVE  \A j \in Instances : missed[j] \subseteq missed'[j] /\ <<k, a.ver>> \in missed'[j]
<1>1. a.ver = NextVersion(k)
  BY Zenon DEF Appends, NextVersion
<1> QED BY <1>1, Zenon DEF Miss

\* Set: the accepted write goes on to its broadcast, or every instance misses it.
LEMMA SetL2Calm ==
    ASSUME IInv, NEW i \in Instances, NEW k \in Keys, NEW p \in Writers, SetL2(i, k, p)
    PROVE  Calm
<1> DEFINE g == <<i, k, p>>
<1>1. /\ op[g].pc = "set" /\ UNCHANGED <<bus, seen>>
      /\ NoOp.pc = "idle" /\ NoOp \in Operation /\ TypeOK
  BY Blank, Zenon DEF SetL2, IInv
<1>2. log' = log \/ \E a : Appends(k, a)
  BY SetL2Justified, Zenon
<1>3. CASE Return(g) /\ log' = log /\ missed' = missed
  <2>1. op' = [op EXCEPT ![g] = NoOp]
    BY <1>3, Zenon DEF Return, Goto
  <2> HIDE DEF NoOp
  <2> QED BY <1>1, <1>3, <2>1, WriterCalm, Zenon DEF Past
<1>4. ASSUME NEW a, Appends(k, a), Return(g), Miss(Instances, {<<k, NextVersion(k)>>})
      PROVE  Calm
  <2>1. op' = [op EXCEPT ![g] = NoOp] /\ a \in Accepted
    BY <1>4, Zenon DEF Return, Goto, Appends
  <2>2. \A j \in Instances : missed[j] \subseteq missed'[j] /\ <<k, a.ver>> \in missed'[j]
    BY <1>4, MissedByAll, Zenon
  <2> HIDE DEF NoOp
  <2> QED BY <1>1, <1>4, <2>1, <2>2, WriterCalm, Zenon DEF Past
<1>5. ASSUME NEW a, Appends(k, a), Install(g, EntryOf(L2!Latest(k)')), missed' = missed
      PROVE  Calm
  <2>1. L2!Latest(k)' = a /\ a \in Accepted
    BY <1>1, <1>5, AppendsLog, Zenon DEF Appends
  <2>2. PICK rec : rec = [NoOp EXCEPT !.pc = "install", !.ent = EntryOf(a)]
    BY Zenon
  <2>3. op' = [op EXCEPT ![g] = rec]
    BY <1>5, <2>1, <2>2, Zenon DEF Install, Goto
  <2>4. rec.pc = "install" /\ rec.ent.ver = a.ver
    <3>1. EntryOf(a).ver = a.ver
      BY <2>1, EntryOfFields, Zenon
    <3>2. rec.pc = "install" /\ rec.ent = EntryOf(a)
      BY ONLY <1>1, <2>2, PastFields, Zenon
    <3> QED BY <3>1, <3>2, Zenon
  <2> QED BY <1>1, <1>5, <2>1, <2>3, <2>4, WriterCalm, Zenon DEF Past
<1>6. \/ Return(g) /\ log' = log /\ missed' = missed
      \/ /\ \E w \in window(op[g].at) : SetCAS(i, k, op[g], w, ForceVersion)
         /\ \/ Install(g, EntryOf(L2!Latest(k)')) /\ missed' = missed
            \/ Return(g) /\ Miss(Instances, {<<k, NextVersion(k)>>})
  BY Zenon DEF SetL2
<1>7. ASSUME \E w \in window(op[g].at) : SetCAS(i, k, op[g], w, ForceVersion)
      PROVE  \E a : Appends(k, a)
  <2>1. /\ op[g].rev \in Nat /\ op[g].rev <= origin[k] /\ op[g].read \in Nat
        /\ op[g].at \in Nat /\ op[g].at <= now + MaxSkew
    BY OpFacts, Zenon
  <2> QED BY <1>1, <1>7, <2>1, SetCASAppends, Zenon
<1> QED BY <1>3, <1>4, <1>5, <1>6, <1>7, Zenon

\* Invalidate: so does the tombstone.
LEMMA InvalidateL2Calm ==
    ASSUME IInv, NEW i \in Instances, NEW k \in Keys, NEW p \in Writers, InvalidateL2(i, k, p)
    PROVE  Calm
<1> DEFINE g == <<i, k, p>>
<1>1. /\ op[g].pc = "idle" /\ UNCHANGED <<bus, seen>> /\ NoOp \in Operation /\ TypeOK
  BY Blank, Zenon DEF InvalidateL2, IInv
<1>2. PICK a : Appends(k, a)
  BY InvalidateL2Justified, Zenon
<1>3. L2!Latest(k)' = a /\ a \in Accepted
  BY <1>1, <1>2, AppendsLog, Zenon DEF Appends
<1>4. CASE op' = op /\ Miss(Instances, {<<k, NextVersion(k)>>})
  <2>1. PICK rec : rec = op[g]
    BY Zenon
  <2>2. op' = [op EXCEPT ![g] = rec]
    BY <1>1, <1>4, <2>1, Zenon DEF TypeOK
  <2>3. \A j \in Instances : missed[j] \subseteq missed'[j] /\ <<k, a.ver>> \in missed'[j]
    BY <1>2, <1>4, MissedByAll, Zenon
  <2> QED BY <1>1, <1>2, <1>3, <2>1, <2>2, <2>3, WriterCalm, Zenon DEF Past
<1>5. CASE /\ Goto(g, [NoOp EXCEPT !.pc = "delete", !.ent = EntryOf(L2!Latest(k)')])
           /\ missed' = missed
  <2>1. PICK rec : rec = [NoOp EXCEPT !.pc = "delete", !.ent = EntryOf(a)]
    BY Zenon
  <2>2. op' = [op EXCEPT ![g] = rec]
    BY <1>3, <1>5, <2>1, Zenon DEF Goto
  <2>3. rec.pc = "delete" /\ rec.ent.ver = a.ver
    <3>1. EntryOf(a).ver = a.ver
      BY <1>3, EntryOfFields, Zenon
    <3>2. rec.pc = "delete" /\ rec.ent = EntryOf(a)
      BY ONLY <1>1, <2>1, PastFields, Zenon
    <3> QED BY <3>1, <3>2, Zenon
  <2> QED BY <1>1, <1>2, <1>3, <1>5, <2>2, <2>3, WriterCalm, Zenon DEF Past
<1> QED BY <1>4, <1>5, Zenon DEF InvalidateL2

\* A write that takes effect at an instance covers what is in hand there.
LEMMA OvertakeCovers ==
    ASSUME IInv, NEW i \in Instances, NEW k \in Keys, NEW v \in Nat, Overtake(i, k, v),
           missed' = missed,
           l1'[i][k] = NoEntry \/ l1'[i][k].ver >= v,
           \A r \in Fills \cup Writers :
               op'[<<i, k, r>>].pc = "install" => op'[<<i, k, r>>] = op[<<i, k, r>>]
    PROVE  Covered(i, k, v)'
BY OvertakeKept, Zenon DEF Covered, Spared

\* A write takes effect in the L1 of its own instance before it is broadcast.
LEMMA ToPublishCalm ==
    ASSUME IInv, NEW i \in Instances, NEW k \in Keys, NEW p \in Writers,
           Goto(<<i, k, p>>, [op[<<i, k, p>>] EXCEPT !.pc = "publish"]),
           UNCHANGED <<log, bus, seen, missed>>,
           Overtake(i, k, op[<<i, k, p>>].ent.ver),
           l1'[i][k] = NoEntry \/ l1'[i][k].ver >= op[<<i, k, p>>].ent.ver
    PROVE  Calm
<1> DEFINE g == <<i, k, p>>
<1>1. op[g] \in Operation /\ op[g].ent \in Entry /\ g \in Procs /\ op \in [Procs -> Operation]
  BY OpFacts, ProcIn, Zenon DEF IInv, TypeOK
<1>2. PICK rec : rec = [op[g] EXCEPT !.pc = "publish"]
  BY Zenon
<1>3. op' = [op EXCEPT ![g] = rec] /\ rec.pc = "publish" /\ rec.ent = op[g].ent
  BY <1>1, <1>2, PastFields, Zenon DEF Goto
<1>4. PICK v \in Nat : v = op[g].ent.ver
  BY <1>1, Zenon DEF Entry
<1>5. ASSUME NEW r \in Fills \cup Writers, op'[<<i, k, r>>].pc = "install"
      PROVE  op'[<<i, k, r>>] = op[<<i, k, r>>]
  BY <1>1, <1>3, <1>5, ProcIn, Zenon
<1>6. Covered(i, k, v)'
  BY <1>4, <1>5, OvertakeCovers, Zenon
<1>7. Covered(i, k, rec.ent.ver)'
  BY <1>3, <1>4, <1>6, Zenon
<1> QED BY <1>3, <1>7, WriterCalm, Zenon DEF Past

\* Set: the gated install takes effect, whichever of the two entries is newer.
LEMMA SetInstallCalm ==
    ASSUME IInv, NEW i \in Instances, NEW k \in Keys, NEW p \in Writers, SetInstall(i, k, p)
    PROVE  Calm
<1> DEFINE ent == op[<<i, k, p>>].ent
           x == AfterInstall(i, k, ent)
<1>1. ent \in Entry /\ ent.ver \in Nat /\ installL1(i, k, ent)
  BY OpFacts, Zenon DEF Entry, SetInstall
<1>2. l1' = [l1 EXCEPT ![i][k] = x] /\ l1 \in [Instances -> [Keys -> Entry]]
  BY <1>1, Installed DEF IInv, TypeOK
<1>3. x.ver >= ent.ver
  BY <1>1 DEF AfterInstall
<1> HIDE DEF x
<1>4. l1'[i][k] = x
  BY <1>2, Zenon
<1> QED BY <1>3, <1>4, ToPublishCalm, Zenon DEF SetInstall

\* Invalidate: so does the local eviction.
LEMMA InvalidateL1Calm ==
    ASSUME IInv, NEW i \in Instances, NEW k \in Keys, NEW p \in Writers, InvalidateL1(i, k, p)
    PROVE  Calm
<1>1. l1'[i][k] = NoEntry
  BY Zenon DEF InvalidateL1, IInv, TypeOK
<1> QED BY <1>1, ToPublishCalm, Zenon DEF InvalidateL1

\* Set: computing the deadlines.
LEMMA SetBeginCalm ==
    ASSUME IInv, NEW i \in Instances, NEW k \in Keys, NEW p \in Writers, SetBegin(i, k, p)
    PROVE  Calm
<1>1. PICK rec : rec = [NoOp EXCEPT !.pc = "set", !.rev = origin[k], !.at = Clock(i)]
  BY Zenon
<1>2. op' = [op EXCEPT ![<<i, k, p>>] = rec] /\ op[<<i, k, p>>].pc = "idle"
  BY <1>1, Zenon DEF SetBegin, Goto
<1>3. rec.pc = "set"
  BY <1>1, Zenon DEF NoOp
<1> QED BY <1>2, <1>3, WriterCalm, Zenon DEF SetBegin, Past

\* publish: whoever the broadcast does not reach has missed it; its own instance
\* has seen the write take effect.
LEMMA PublishDelivers ==
    ASSUME IInv, Keeps, DInv, NEW i \in Instances, NEW k \in Keys, NEW p \in Writers,
           Publish(i, k, p)
    PROVE  DInv'
<1> DEFINE g == <<i, k, p>>
<1>0. Covers /\ AppliedOK /\ PublishOK /\ OwnOK /\ SettledOK
  BY Zenon DEF Keeps, DInv
<1>1. /\ op[g].pc = "publish" /\ op' = [op EXCEPT ![g] = NoOp] /\ UNCHANGED <<log, seen>>
      /\ g \in Procs /\ op \in [Procs -> Operation]
  BY ProcIn, Zenon DEF Publish, Return, Goto, IInv, TypeOK
<1>2. PICK v : v = op[g].ent.ver
  BY Zenon
<1>3. PICK e : e = [key |-> k, ver |-> v, from |-> i]
  BY Zenon
<1>4. PICK to \in SUBSET Instances :
         /\ bus' = [j \in Instances |-> IF j \in to THEN bus[j] \cup {e} ELSE bus[j]]
         /\ Miss(Instances \ (to \cup {i}), {EventID(e)})
  BY <1>2, <1>3, Zenon DEF Publish
<1>5. e.key = k /\ e.ver = v /\ e.from = i /\ EventID(e) = <<k, v>>
  BY <1>3, Zenon DEF EventID
<1>6. v \in 1..Len(log[k]) /\ Covered(i, k, v)
  BY <1>0, <1>1, <1>2, InLog, Zenon DEF Past, PublishOK
<1>7. Covered(i, k, v)'
  BY <1>0, <1>6, Zenon DEF Covers
<1>8. \A f \in Procs : op'[f] = op[f] \/ (f = g /\ op'[f] = NoOp)
  BY <1>1, Zenon
<1>9. AppliedOK'
  BY <1>0, <1>1, InLog, Zenon DEF AppliedOK, Covers
<1>10. PublishOK'
  <2>1. SUFFICES ASSUME NEW j \in Instances, NEW q \in Keys, NEW s \in Writers,
                        op'[<<j, q, s>>].pc = "publish"
                 PROVE  Covered(j, q, op[<<j, q, s>>].ent.ver)'
    BY Zenon DEF PublishOK
  <2>2. op'[<<j, q, s>>] = op[<<j, q, s>>]
    BY <1>8, <2>1, ProcIn, Blank, Zenon
  <2>3. PICK u : u = op[<<j, q, s>>].ent.ver
    BY Zenon
  <2>4. u \in 1..Len(log[q]) /\ Covered(j, q, u)
    BY <1>0, <2>1, <2>2, <2>3, InLog, Zenon DEF Past, PublishOK
  <2>5. Covered(j, q, u)'
    BY <1>0, <2>4, Zenon DEF Covers
  <2> QED BY <2>2, <2>3, <2>5, Zenon
<1>11. OwnOK'
  <2>1. SUFFICES ASSUME NEW j \in Instances, NEW x \in bus'[j], x.from = j
                 PROVE  Covered(j, x.key, x.ver)'
    BY Zenon DEF OwnOK
  <2>2. CASE x \in bus[j]
    BY <1>0, <2>1, <2>2, InLog, Zenon DEF OwnOK, Covers
  <2>3. CASE x = e
    BY <1>5, <1>7, <2>1, <2>3, Zenon
  <2> QED BY <1>4, <2>1, <2>2, <2>3, Zenon
<1>12. ASSUME NEW j \in Instances, NEW q \in Keys, NEW n \in 1..Len(log[q]), Settled(j, q, n)
       PROVE  Settled(j, q, n)'
  <2>1. Covered(j, q, n) => Covered(j, q, n)'
    BY <1>0, Zenon DEF Covers
  <2>2. <<q, n>> \in missed[j] => <<q, n>> \in missed'[j]
    BY <1>4, Zenon DEF Miss
  <2>3. Coming(j, q, n) => Coming(j, q, n)'
    BY <1>4, Zenon DEF Coming
  <2>4. ASSUME Pending(q, n) PROVE Settled(j, q, n)'
    <3>1. PICK y \in Instances, s \in Writers :
             op[<<y, q, s>>].pc \in Past /\ op[<<y, q, s>>].ent.ver = n
      BY <2>4, Zenon DEF Pending
    <3>2. CASE op'[<<y, q, s>>] = op[<<y, q, s>>]
      <4>1. Pending(q, n)'
        BY <3>1, <3>2, Zenon DEF Pending
      <4> QED BY <4>1, Zenon DEF Settled
    <3>3. CASE <<y, q, s>> = g
      <4>1. q = k /\ n = v
        BY <1>2, <3>1, <3>3, Zenon
      <4>2. CASE j = i
        BY <1>7, <4>1, <4>2, Zenon DEF Settled
      <4>3. CASE j \in to
        <5>1. e \in bus'[j]
          BY <1>4, <4>3, Zenon
        <5>2. Coming(j, q, n)'
          BY <1>5, <4>1, <5>1, Zenon DEF Coming
        <5> QED BY <5>2, Zenon DEF Settled
      <4>4. CASE j \in Instances \ (to \cup {i})
        <5>1. <<q, n>> \in missed'[j]
          BY <1>4, <1>5, <4>1, <4>4, Zenon DEF Miss
        <5> QED BY <5>1, Zenon DEF Settled
      <4> QED BY <4>2, <4>3, <4>4, Zenon
    <3> QED BY <1>8, <3>2, <3>3, ProcIn, Zenon
  <2> QED BY <1>12, <2>1, <2>2, <2>3, <2>4, Zenon DEF Settled
<1>13. SettledOK'
  BY <1>0, <1>1, <1>12, Zenon DEF SettledOK
<1> QED BY <1>9, <1>10, <1>11, <1>13, Zenon DEF DInv

\* onEvent: a handled event took effect: now, before, or when it was written here.
LEMMA HandledCovers ==
    ASSUME IInv, Keeps, DInv, NEW i \in Instances, NEW e \in bus[i], onEvent(i, e)
    PROVE  Covered(i, e.key, e.ver)'
<1>1. e.key \in Keys /\ e.ver \in 1..Len(log[e.key]) /\ Len(log[e.key]) \in Nat
  BY InLog, Types, Zenon
<1>2. e.ver \in Nat
  BY <1>1
<1>3. CASE e.from = i
  BY <1>1, <1>3, Zenon DEF Keeps, DInv, OwnOK, Covers
<1>4. CASE EventID(e) \in seen[i]
  BY <1>1, <1>2, <1>4, Zenon DEF Keeps, DInv, AppliedOK, Covers, EventID
<1>5. CASE e.from # i /\ EventID(e) \notin seen[i]
  <2>1. /\ l1' = [l1 EXCEPT ![i][e.key] = NoEntry] /\ Overtake(i, e.key, e.ver)
        /\ op' = op /\ missed' = missed
    BY <1>5, Zenon DEF onEvent
  <2>2. l1'[i][e.key] = NoEntry
    BY <1>1, <2>1, Zenon DEF IInv, TypeOK
  <2> QED BY <1>1, <1>2, <2>1, <2>2, OvertakeCovers, Zenon
<1> QED BY <1>3, <1>4, <1>5, Zenon

\* onEvent loses no write: what it takes off the bus is in effect, or was before.
LEMMA onEventDelivers ==
    ASSUME IInv, Keeps, DInv, NEW i \in Instances, NEW e \in bus[i], onEvent(i, e)
    PROVE  DInv'
<1>0. Covers /\ AppliedOK /\ PublishOK /\ OwnOK /\ SettledOK
  BY Zenon DEF Keeps, DInv
<1>1. UNCHANGED <<log, op, missed>> /\ bus \in [Instances -> SUBSET Event]
      /\ seen \in [Instances -> SUBSET (Keys \X Nat)]
  BY Zenon DEF onEvent, IInv, TypeOK
<1>2. Covered(i, e.key, e.ver)'
  BY HandledCovers, Zenon
<1>3. bus' = bus \/ bus' = [bus EXCEPT ![i] = @ \ {e}]
  BY <1>1, Zenon DEF onEvent
<1>4. \A j \in Instances : /\ bus'[j] \subseteq bus[j]
                           /\ \A x \in bus[j] : x \in bus'[j] \/ (j = i /\ x = e)
  BY <1>1, <1>3, Zenon
<1>5. \A j \in Instances, q \in Keys, u \in Nat :
         <<q, u>> \in seen'[j] => <<q, u>> \in seen[j] \/ (j = i /\ q = e.key /\ u = e.ver)
  <2>1. seen' = seen \/ seen' = [seen EXCEPT ![i] = @ \cup {<<e.key, e.ver>>}]
    BY Zenon DEF onEvent, EventID
  <2> QED BY <1>1, <2>1
<1>6. AppliedOK'
  <2>1. SUFFICES ASSUME NEW j \in Instances, NEW q \in Keys, NEW u \in Nat, <<q, u>> \in seen'[j]
                 PROVE  Covered(j, q, u)'
    BY Zenon DEF AppliedOK
  <2>2. CASE <<q, u>> \in seen[j]
    BY <1>0, <2>2, InLog, Zenon DEF AppliedOK, Covers
  <2> QED BY <1>2, <1>5, <2>1, <2>2, Zenon
<1>7. PublishOK'
  <2>1. SUFFICES ASSUME NEW j \in Instances, NEW q \in Keys, NEW s \in Writers,
                        op[<<j, q, s>>].pc = "publish"
                 PROVE  Covered(j, q, op[<<j, q, s>>].ent.ver)'
    BY <1>1, Zenon DEF PublishOK
  <2>2. PICK u : u = op[<<j, q, s>>].ent.ver
    BY Zenon
  <2>3. Covered(j, q, u)'
    BY <1>0, <2>1, <2>2, InLog, Zenon DEF Past, PublishOK, Covers
  <2> QED BY <1>1, <2>2, <2>3, Zenon
<1>8. OwnOK'
  <2>1. SUFFICES ASSUME NEW j \in Instances, NEW x \in bus[j], x.from = j
                 PROVE  Covered(j, x.key, x.ver)'
    BY <1>4, Zenon DEF OwnOK
  <2> QED BY <1>0, <2>1, InLog, Zenon DEF OwnOK, Covers
<1>9. ASSUME NEW j \in Instances, NEW q \in Keys, NEW n \in 1..Len(log[q]), Settled(j, q, n)
      PROVE  Settled(j, q, n)'
  <2>1. Covered(j, q, n) => Covered(j, q, n)'
    BY <1>0, Zenon DEF Covers
  <2>2. <<q, n>> \in missed[j] => <<q, n>> \in missed'[j]
    BY <1>1, Zenon
  <2>3. ASSUME Coming(j, q, n) PROVE Settled(j, q, n)'
    <3>1. PICK x \in bus[j] : x.key = q /\ x.ver = n
      BY <2>3, Zenon DEF Coming
    <3>2. CASE x \in bus'[j]
      BY <3>1, <3>2, Zenon DEF Settled, Coming
    <3>3. CASE j = i /\ x = e
      BY <1>2, <3>1, <3>3, Zenon DEF Settled
    <3> QED BY <1>4, <3>2, <3>3, Zenon
  <2>4. Pending(q, n) => Pending(q, n)'
    BY <1>1, Zenon DEF Pending
  <2> QED BY <1>9, <2>1, <2>2, <2>3, <2>4, Zenon DEF Settled
<1>10. SettledOK'
  BY <1>0, <1>1, <1>9, Zenon DEF SettledOK
<1> QED BY <1>6, <1>7, <1>8, <1>10, Zenon DEF DInv

\* A restarted instance holds nothing; the others miss what it had not broadcast.
LEMMA RestartDelivers ==
    ASSUME IInv, Keeps, DInv, NEW i \in Instances, Restart(i)
    PROVE  DInv'
<1>0. Covers /\ AppliedOK /\ PublishOK /\ OwnOK /\ SettledOK /\ TypeOK
  BY Zenon DEF Keeps, DInv, IInv
<1>1. log' = log /\ \A k \in Keys : l1'[i][k] = NoEntry
  BY <1>0, Zenon DEF Restart, TypeOK
<1>2. \A f \in Procs : op'[f] = IF f[1] = i THEN NoOp ELSE op[f]
  BY Zenon DEF Restart
<1>3. \A j \in Instances : seen'[j] \subseteq seen[j]
  BY <1>0, Zenon DEF Restart, TypeOK
<1>4. ASSUME NEW k \in Keys, NEW n PROVE Covered(i, k, n)'
  <2>1. ASSUME NEW r \in Fills \cup Writers PROVE op'[<<i, k, r>>].pc # "install"
    BY <1>2, ProcIn, Blank, Zenon
  <2> QED BY <1>1, <2>1, Zenon DEF Covered
<1>5. AppliedOK'
  BY <1>0, <1>3, InLog, Zenon DEF AppliedOK, Covers
<1>6. ASSUME NEW j \in Instances, NEW q \in Keys, NEW s \in Writers,
             op'[<<j, q, s>>].pc # "idle"
      PROVE  op'[<<j, q, s>>] = op[<<j, q, s>>]
  BY <1>2, <1>6, ProcIn, Blank, Zenon
<1>7. PublishOK'
  <2>1. SUFFICES ASSUME NEW j \in Instances, NEW q \in Keys, NEW s \in Writers,
                        op'[<<j, q, s>>].pc = "publish"
                 PROVE  Covered(j, q, op[<<j, q, s>>].ent.ver)'
    BY Zenon DEF PublishOK
  <2>2. op'[<<j, q, s>>] = op[<<j, q, s>>]
    BY <1>6, <2>1, Zenon
  <2>3. PICK u : u = op[<<j, q, s>>].ent.ver
    BY Zenon
  <2>4. Covered(j, q, u)'
    BY <1>0, <2>1, <2>2, <2>3, InLog, Zenon DEF Past, PublishOK, Covers
  <2> QED BY <2>2, <2>3, <2>4, Zenon
<1>8. OwnOK'
  <2>1. SUFFICES ASSUME NEW j \in Instances, NEW x \in bus'[j], x.from = j
                 PROVE  Covered(j, x.key, x.ver)'
    BY Zenon DEF OwnOK
  <2>2. PICK e \in bus[j] : x = IF e.from = i THEN [e EXCEPT !.from = "retired"] ELSE e
    BY Zenon DEF Restart
  <2>3. e \in Event
    BY <1>0, Zenon DEF TypeOK
  <2>4. e.from # i
    <3>1. [e EXCEPT !.from = "retired"].from = "retired"
      BY <2>3, Zenon DEF Event
    <3> QED BY <2>1, <2>2, <3>1, SizeAssumption, Zenon
  <2> QED BY <1>0, <2>1, <2>2, <2>4, InLog, Zenon DEF OwnOK, Covers
<1>9. ASSUME NEW j \in Instances, NEW q \in Keys, NEW n \in 1..Len(log[q]), Settled(j, q, n), j # i
      PROVE  Settled(j, q, n)'
  <2>1. Covered(j, q, n) => Covered(j, q, n)'
    BY <1>0, Zenon DEF Covers
  <2>2. missed'[j] = missed[j] \cup Unsent(i)
    BY <1>9, Zenon DEF Restart
  <2>3. ASSUME Coming(j, q, n) PROVE Coming(j, q, n)'
    <3>1. PICK e \in bus[j] : e.key = q /\ e.ver = n
      BY <2>3, Zenon DEF Coming
    <3>2. PICK x : x = IF e.from = i THEN [e EXCEPT !.from = "retired"] ELSE e
      BY Zenon
    <3>3. x \in bus'[j]
      BY <3>2, Zenon DEF Restart
    <3>4. e \in Event
      BY <1>0, Zenon DEF TypeOK
    <3>5. x.key = q /\ x.ver = n
      BY <3>1, <3>2, <3>4, Zenon DEF Event
    <3> QED BY <3>3, <3>5, Zenon DEF Coming
  <2>4. ASSUME Pending(q, n) PROVE Settled(j, q, n)'
    <3>1. PICK y \in Instances, s \in Writers :
             op[<<y, q, s>>].pc \in Past /\ op[<<y, q, s>>].ent.ver = n
      BY <2>4, Zenon DEF Pending
    <3>2. <<y, q, s>> \in Procs /\ <<y, q, s>>[1] = y /\ <<y, q, s>>[2] = q
      BY ProcIn, Zenon
    <3>3. CASE y = i
      <4>1. <<q, n>> \in Unsent(i)
        <5> DEFINE g == <<i, q, s>>
        <5>1. g \in {i} \X Keys \X Writers /\ g[2] = q
          BY Zenon
        <5>2. op[g].pc \in Past /\ op[g].ent.ver = n
          BY <3>1, <3>3, Zenon
        <5> HIDE DEF g
        <5> QED BY <5>1, <5>2, Zenon DEF Unsent, Past
      <4> QED BY <2>2, <4>1, Zenon DEF Settled
    <3>4. CASE y # i
      <4>1. op'[<<y, q, s>>] = op[<<y, q, s>>]
        BY <1>2, <3>2, <3>4, Zenon
      <4>2. Pending(q, n)'
        BY <3>1, <4>1, Zenon DEF Pending
      <4> QED BY <4>2, Zenon DEF Settled
    <3> QED BY <3>3, <3>4, Zenon
  <2> QED BY <1>9, <2>1, <2>2, <2>3, <2>4, Zenon DEF Settled
<1>10. SettledOK'
  <2>1. SUFFICES ASSUME NEW j \in Instances, NEW q \in Keys, NEW n \in 1..Len(log[q]),
                        log[q][n].expect = ForceVersion
                 PROVE  Settled(j, q, n)'
    BY <1>1, Zenon DEF SettledOK
  <2>2. CASE j = i
    BY <1>4, <2>2, Zenon DEF Settled
  <2> QED BY <1>0, <1>9, <2>1, <2>2, Zenon DEF SettledOK
<1> QED BY <1>5, <1>7, <1>8, <1>10, Zenon DEF DInv

\* Every step loses no write.
LEMMA NextDelivers ==
    ASSUME IInv, DInv, [Next]_vars
    PROVE  DInv'
<1>0. Keeps
  BY NextKeeps, Zenon
<1>1. ASSUME UNCHANGED <<log, op, bus, seen, missed>> PROVE Calm
  BY <1>1, Zenon DEF Calm
<1>2. ASSUME NEW i \in Instances, NEW k \in Keys, GetOrLoadMiss(i, k) \/ GetOrLoadStale(i, k)
      PROVE  Calm
  <2>1. PICK r \in Fills : StartFill(<<i, k, r>>) /\ UNCHANGED <<log, bus, seen, missed>>
    BY <1>2, Zenon DEF GetOrLoadMiss, GetOrLoadStale, Fills
  <2> QED BY <2>1, FillCalm, Zenon DEF StartFill, Goto
<1>3. ASSUME NEW i \in Instances, NEW k \in Keys,
             \/ Get(i, k) \/ GetOrLoadMiss(i, k) \/ GetOrLoadStale(i, k)
             \/ \E r \in Fills : Fill(i, k, r)
             \/ EvictLRU(i, k)
      PROVE  Calm
  BY <1>1, <1>2, <1>3, FillIsCalm, Zenon DEF Get, EvictLRU
<1>4. ASSUME NEW i \in Instances, NEW k \in Keys, NEW p \in Writers, Write(i, k, p)
      PROVE  Calm \/ Publish(i, k, p)
  BY <1>4, SetBeginCalm, SetL2Calm, SetInstallCalm, InvalidateL2Calm, InvalidateL1Calm, Zenon DEF Write
<1>5. (Tick => Calm) /\ \A k \in Keys : OriginWrite(k) => Calm
  BY <1>1, Zenon DEF Tick, OriginWrite
<1>6. UNCHANGED vars => Calm
  BY <1>1, Zenon DEF vars
<1>7. CASE Calm
  BY <1>0, <1>7, CalmStep, Zenon
<1>8. CASE ~Calm
  <2>1. Next
    BY <1>6, <1>8, Zenon
  <2>2. \/ \E i \in Instances, k \in Keys, p \in Writers : Publish(i, k, p)
        \/ \E i \in Instances : Restart(i) \/ \E e \in bus[i] : onEvent(i, e)
    BY <1>3, <1>4, <1>5, <1>8, <2>1, Zenon DEF Next
  <2> QED BY <1>0, <2>2, PublishDelivers, RestartDelivers, onEventDelivers, Zenon
<1> QED BY <1>7, <1>8, Zenon

\* Nothing has been written initially.
LEMMA InitDInv ==
    ASSUME Init
    PROVE  DInv
<1>1. /\ \A k \in Keys : Len(log[k]) = 0
      /\ \A f \in Procs : op[f] = NoOp
      /\ \A i \in Instances : bus[i] = {} /\ seen[i] = {}
  BY Zenon DEF Init, L2!Init
<1>2. \A i \in Instances, k \in Keys, p \in Writers : op[<<i, k, p>>].pc = "idle"
  BY <1>1, ProcIn, Blank, Zenon
<1>3. SettledOK
  BY <1>1 DEF SettledOK
<1> QED BY <1>1, <1>2, <1>3, Zenon DEF DInv, AppliedOK, PublishOK, OwnOK

-----------------------------------------------------------------------------
(* The theorems *)

\* The inductive invariant holds of every reachable state of the composed cache.
THEOREM Invariance == Spec => []IInv
<1>1. Init => IInv
  BY InitIInv, Zenon
<1>2. IInv /\ [Next]_vars => IInv'
  BY NextKeeps, Zenon DEF Keeps
<1> QED BY <1>1, <1>2, PTL DEF Spec

\* Every variable keeps its type, for every configuration of TTLs, timeouts,
\* clock skew and faults: the state of cache.go, its L2, bus and callers.
THEOREM TypeCorrect == Spec => []TypeOK
<1>1. IInv => TypeOK
  BY Zenon DEF IInv
<1> QED BY <1>1, Invariance, PTL

\* The fill invariant: no L1 holds anything but what L2 accepted under the
\* version of the entry (fill, Set, installL1), whatever fails or restarts.
THEOREM MintedEntries == Spec => []EntryIsMinted
<1>1. IInv => EntryIsMinted
  BY Zenon DEF IInv
<1> QED BY <1>1, Invariance, PTL

\* Every Set and Invalidate that L2 accepted has taken effect at an instance, is on
\* its way there, is still to be broadcast, or is on record as missed there.
THEOREM Delivery == Spec => []DInv
<1>1. Init => DInv
  BY InitDInv, Zenon
<1>2. IInv /\ DInv /\ [Next]_vars => DInv'
  BY NextDelivers, Zenon
<1> QED BY <1>1, <1>2, Invariance, PTL DEF Spec

\* An applied invalidation event sticks (onEvent), except for what was already
\* past L2 on its way to L1, with lost and repeated events and restarts.
THEOREM EvictionSoundness == Spec => []EvictionSticks
<1>1. ASSUME DInv PROVE EvictionSticks
  <2>1. SUFFICES ASSUME NEW i \in Instances, NEW k \in Keys, NEW v \in 1..Len(log[k]),
                        <<k, v>> \in seen[i], l1[i][k] # NoEntry
                 PROVE  l1[i][k].ver >= v \/ <<l1[i][k].ver, v>> \in late[i][k]
    BY Zenon DEF EvictionSticks
  <2>2. v \in Nat
    OBVIOUS
  <2>3. Covered(i, k, v)
    BY <1>1, <2>1, <2>2, Zenon DEF DInv, AppliedOK
  <2> QED BY <2>1, <2>3, Zenon DEF Covered, Spared
<1> QED BY <1>1, Delivery, PTL

\* Convergence (Set, Invalidate, onEvent): when everything has returned and been
\* handled, an L1 is behind a Set or Invalidate only if the broadcast was lost on
\* its way there, or if the entry was past L2 when that write took effect there.
THEOREM Convergence == Spec => []ConvergedUpToLate
<1>1. ASSUME DInv PROVE ConvergedUpToLate
  <2>1. SUFFICES ASSUME Quiet, NEW i \in Instances, NEW k \in Keys, NEW n \in 1..Len(log[k]),
                        log[k][n].expect = ForceVersion, l1[i][k] # NoEntry
                 PROVE  \/ l1[i][k].ver >= n
                        \/ <<l1[i][k].ver, n>> \in late[i][k]
                        \/ <<k, n>> \in missed[i]
    BY Zenon DEF ConvergedUpToLate
  <2>2. Settled(i, k, n)
    BY <1>1, <2>1, Zenon DEF DInv, SettledOK
  <2>3. ~Coming(i, k, n)
    BY <2>1, Zenon DEF Quiet, Coming
  <2>4. ~Pending(k, n)
    BY <2>1, ProcIn, Zenon DEF Quiet, Pending, Past
  <2> QED BY <2>1, <2>2, <2>3, <2>4, Zenon DEF Settled, Covered, Spared
<1> QED BY <1>1, Delivery, PTL

\* An entry's deadline, counted from a later write.
LEMMA AgeBound ==
    ASSUME NEW su \in Nat, NEW at \in Nat, NEW age \in Nat, NEW skew \in Nat, NEW next \in Nat,
           su <= at + age + skew, at <= next
    PROVE  su <= next + age + skew
OBVIOUS

\* A superseded entry is served at most for its TTL and the clock skew after the
\* write that superseded it (window, negativeEntry, fill), without any event.
THEOREM StalenessBound == Spec => []BoundedStaleness
<1>1. ASSUME IInv PROVE BoundedStaleness
  <2>1. SUFFICES ASSUME NEW i \in Instances, NEW k \in Keys,
                        l1[i][k].ver \in 1..(Len(log[k]) - 1)
                 PROVE  l1[i][k].su <= log[k][l1[i][k].ver + 1].at
                                         + MaxAge(l1[i][k].neg) + MaxSkew
    BY Zenon DEF BoundedStaleness
  <2> DEFINE e == l1[i][k]
             w == log[k][e.ver]
             next == log[k][e.ver + 1]
  <2>2. LogOK /\ log[k] \in Seq(Accepted) /\ Len(log[k]) \in Nat /\ MaxSkew \in Nat
    BY <1>1, Types, Zenon
  <2>3. e # NoEntry
    BY <2>1, <2>2, Blank
  <2>4. e = EntryOf(w)
    BY <1>1, <2>3, Zenon DEF IInv, EntryIsMinted
  <2>5. /\ e.ver \in 1..Len(log[k]) /\ e.ver + 1 \in 1..Len(log[k])
        /\ e.ver \in 1..(e.ver + 1)
    BY <2>1, <2>2
  <2>6. w \in Accepted /\ next \in Accepted
    BY <2>2, <2>5, SeqElement, Zenon
  <2>7. w.pay.su <= w.at + MaxAge(w.del) + MaxSkew /\ w.at <= next.at
    BY <2>2, <2>5, Zenon DEF LogOK
  <2> HIDE DEF w, next
  <2>8. w.pay.su \in Nat /\ w.at \in Nat /\ w.del \in BOOLEAN /\ next.at \in Nat
    BY <2>6, Zenon DEF Accepted
  <2>9. MaxAge(w.del) \in Nat
    BY <2>8, TimeAssumption, SizeAssumption DEF MaxAge, negative, Capped, NoExpiry
  <2>10. w.pay.su <= next.at + MaxAge(w.del) + MaxSkew
    BY <2>2, <2>7, <2>8, <2>9, AgeBound, Zenon
  <2>11. e.su = w.pay.su /\ e.neg = w.del
    BY <2>4 DEF EntryOf
  <2> QED BY <2>10, <2>11, Zenon DEF next
<1> QED BY <1>1, Invariance, PTL

\* No fill-after-invalidate: no fill overwrites what is newer than its loader's
\* answer, unless it held the version it compares with for longer than L2 kept
\* the write before its own (fill, setCAS, compareAndDelete).
THEOREM FillCurrency == Spec => []FillsAreCurrent
<1>1. ASSUME Init PROVE Retained /\ FillsAreCurrent
  <2>1. \A k \in Keys : Len(log[k]) = 0
    BY <1>1, Zenon DEF Init, L2!Init
  <2> QED BY <2>1 DEF Retained, FillsAreCurrent
<1>2. IInv /\ (Retained /\ FillsAreCurrent) /\ [Next]_vars => (Retained /\ FillsAreCurrent)'
  BY CurrentStep, Zenon
<1> QED BY <1>1, <1>2, Invariance, PTL DEF Spec
=============================================================================
