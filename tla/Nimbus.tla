------------------------------- MODULE Nimbus -------------------------------
(***************************************************************************)
(* The two-tier cache of cache.go: several instances, each with its own L1, *)
(* over one shared versioned L2 and an invalidation bus.                    *)
(*                                                                          *)
(* An operation runs as a sequence of steps, one for each L2 command,       *)
(* loader call, L1 access or broadcast, and the steps of all operations of  *)
(* all instances interleave.  Per instance and key there is at most one     *)
(* fill led by a reader (singleflight collapses the others), at most one    *)
(* revalidation (the refresher deduplicates by key), and one Set or         *)
(* Invalidate per writer.                                                   *)
(*                                                                          *)
(* The origin is a counter of revisions per key: the loader returns the     *)
(* current revision, or ErrNotFound while the row does not exist.  Values   *)
(* are the revisions they were computed from.                               *)
(***************************************************************************)
EXTENDS Integers, Sequences, FiniteSets

CONSTANTS
    Instances, Keys,
    Writers,          \* callers of Set and Invalidate, per instance and key
    Rows,             \* the revisions at which the origin has the row
    Fresh, Jitter,    \* fresh TTL and the most that jitter adds or takes away
    StaleWindow,      \* stale-while-revalidate window
    MaxTTL,           \* Builder.MaxTTL; 0: no cap
    NegTTL,           \* Builder.NegativeTTL; 0: the fresh TTL
    TTLFloor,         \* least retention of a live entry in L2
    TombstoneTTL,     \* retention of a tombstone in L2
    Conditional,      \* the instances whose L1 is a store.ConditionalStore
    Skew, MaxSkew,    \* Skew[i]: how far the clock of instance i runs ahead
    Faults,           \* which faults happen, see FaultKinds
    ForceVersion,     \* store.ForceVersion
    MaxRev, MaxTime, MaxMints   \* bounds: revisions, clock, versions per key

\* l2err: an L2 command fails and has no effect     l2lost: it takes effect and
\* the reply is lost     loader: the loader fails     lose: broadcasts get lost
\* dup: events are redelivered     crash: instances restart     evict: L1 is full
\* A context that ends, the reader's own or that of a revalidation, is an l2err, an
\* l2lost or a loader fault of the fill that runs under it.
FaultKinds == {"l2err", "l2lost", "loader", "lose", "dup", "crash", "evict"}

Fills == {"miss", "refresh"}

ASSUME SizeAssumption ==
    /\ Rows \subseteq Nat /\ Faults \subseteq FaultKinds
    /\ Writers \cap Fills = {} /\ "retired" \notin Instances /\ Conditional \subseteq Instances
    /\ MaxRev \in Nat /\ MaxTime \in Nat /\ MaxMints \in Nat
ASSUME TimeAssumption ==
    /\ Fresh \in Nat /\ Jitter \in 0..Fresh /\ StaleWindow \in Nat
    /\ MaxTTL \in Nat /\ NegTTL \in Nat
    /\ TTLFloor \in Nat \ {0} /\ TombstoneTTL \in Nat
    /\ MaxSkew \in Nat /\ Skew \in [Instances -> 0..MaxSkew]
ASSUME ForceAssumption == ForceVersion \notin Nat

VARIABLES
    now,      \* real time, which is also the clock of L2
    log,      \* the versioned L2: the writes it accepted, see VersionedStore
    origin,   \* origin[k]: the current revision of k in the system of record
    l1,       \* l1[i][k]: the entry of k in the L1 of instance i
    op,       \* op[<<i, k, r>>]: the operation of role r on k at instance i
    bus,      \* bus[i]: the events on their way to instance i
    seen,     \* seen[i]: the event IDs in the Dedupe of instance i
    late,     \* late[i][k]: history, <<u, v>> if version u was about to enter the
              \* L1 of i when the newer write v of k took effect there
    missed    \* missed[i]: history, the Sets and Invalidates whose broadcast does
              \* not reach instance i, as key and version

vars == <<now, log, origin, l1, op, bus, seen, late, missed>>

L2 == INSTANCE VersionedStore

-----------------------------------------------------------------------------
(* Entries *)

\* The zero store.Entry, which L1 and L2 return when they have none.
NoEntry == [ver |-> 0, rev |-> 0, neg |-> FALSE, fu |-> 0, su |-> 0]

Clock(i) == now + Skew[i]

IsFresh(e, t) == t < e.fu
IsStale(e, t) == ~IsFresh(e, t) /\ t < e.su
IsExpired(e, t) == ~(t < e.su)

\* What an L1 lookup at time t finds: an expired entry is removed on the way.
Peek(i, k) == IF IsExpired(l1[i][k], Clock(i)) THEN NoEntry ELSE l1[i][k]

\* The entry the write w stands for, in L2 and in every L1 that holds it.
EntryOf(w) == [ver |-> w.ver, rev |-> w.pay.rev, neg |-> w.del,
               fu |-> w.pay.fu, su |-> w.pay.su]

NoExpiry == MaxTime + 100

\* applyJitter: every fresh TTL the spread allows.
FreshTTLs == IF Fresh = 0 THEN {NoExpiry} ELSE (Fresh - Jitter)..(Fresh + Jitter)

Capped(t, deadline) == IF MaxTTL > 0 /\ deadline > t + MaxTTL THEN t + MaxTTL ELSE deadline

\* window: the deadlines of a value written at local time t.
window(t) == {[fu |-> Capped(t, t + f), su |-> Capped(t, t + f + StaleWindow)] : f \in FreshTTLs}

\* negativeEntry: one deadline, no stale window, no jitter and no cap.
negative(t) == t + (IF NegTTL > 0 THEN NegTTL ELSE IF Fresh > 0 THEN Fresh ELSE NoExpiry)

-----------------------------------------------------------------------------
(* L2 as the cache uses it *)

NextVersion(k) == Len(log[k]) + 1

redisTTL(su, t) == IF su - t < TTLFloor THEN TTLFloor ELSE su - t

Retain(ttl) == IF ttl = 0 THEN 0 ELSE now + ttl

\* What o writes.  read is history: when o read the version it compares with.
Payload(o, w) == [rev |-> o.rev, fu |-> w.fu, su |-> w.su, read |-> o.read]

SetCAS(i, k, o, w, expect) ==
    L2!SetCAS(k, NextVersion(k), Payload(o, w), expect, Retain(redisTTL(w.su, Clock(i))))

\* The revision and the deadline of a tombstone are history: Redis keeps neither.
CompareAndDelete(k, o, until, expect) ==
    L2!CompareAndDelete(k, NextVersion(k), Payload(o, [fu |-> until, su |-> until]),
                        expect, Retain(TombstoneTTL))

-----------------------------------------------------------------------------
(* L1 and operations *)

Procs == Instances \X Keys \X (Fills \cup Writers)

\* nth and read are history: how many writes L2 had accepted when the fill read
\* it, and when that was.
NoOp == [pc |-> "idle", expect |-> 0, nth |-> 0, read |-> 0, at |-> 0, rev |-> 0,
         ent |-> NoEntry]

\* An install that counts the TTL from now and not from the write.
InstallRenewed(i, k, e) ==
    \E w \in window(Clock(i)) : l1' = [l1 EXCEPT ![i][k] =
        IF i \in Conditional /\ ~IsExpired(@, Clock(i)) /\ @.ver >= e.ver THEN @
        ELSE [e EXCEPT !.fu = w.fu, !.su = w.su]]

\* installL1: SetIfNewer if the L1 has it, which replaces an expired entry in any
\* case, and else Set.
installL1(i, k, e) ==
    l1' = [l1 EXCEPT ![i][k] =
             IF i \in Conditional /\ ~IsExpired(@, Clock(i)) /\ @.ver >= e.ver THEN @ ELSE e]

\* Bounds: an operation starts only if every mint it may lead to has room.
Room(k) ==
    Len(log[k]) + Cardinality({f \in Procs :
        f[2] = k /\ op[f].pc \in {"load", "loader", "setcas", "cad", "set"}}) < MaxMints

Goto(f, rec) == op' = [op EXCEPT ![f] = rec]

\* The operation returns; a flight lands and its key is free again.
Return(f) == Goto(f, NoOp)

\* The operation goes on with an entry it has to put into L1.
Install(f, e) == Goto(f, [NoOp EXCEPT !.pc = "install", !.ent = e])

\* The entries of key k that are past L2 at instance i and not yet in its L1.
InHand(i, k) == {op[<<i, k, r>>].ent.ver :
                    r \in {q \in Fills \cup Writers : op[<<i, k, q>>].pc = "install"}}

\* Write v of k takes effect in the L1 of i, too early for what is in hand.
Overtake(i, k, v) ==
    late' = [late EXCEPT ![i][k] = @ \cup {<<u, v>> : u \in {x \in InHand(i, k) : x < v}}]

\* The writes ids are not broadcast to the instances in to.
Miss(to, ids) ==
    missed' = [j \in Instances |-> IF j \in to THEN missed[j] \cup ids ELSE missed[j]]

-----------------------------------------------------------------------------
(* Reads *)

\* Get, and a GetOrLoad that is served from L1: at most an expired entry goes.
Get(i, k) ==
    /\ l1' = [l1 EXCEPT ![i][k] = Peek(i, k)]
    /\ UNCHANGED <<now, log, origin, op, bus, seen, late, missed>>

StartFill(f) == Goto(f, [NoOp EXCEPT !.pc = "load"])

\* GetOrLoad that found nothing to serve, at whatever time since the instance
\* started with an empty L1, and leads the singleflight of its key.
GetOrLoadMiss(i, k) ==
    LET f == <<i, k, "miss">>
    IN  /\ op[f].pc = "idle" /\ Room(k)
        /\ StartFill(f)
        /\ UNCHANGED <<now, log, origin, l1, bus, seen, late, missed>>

\* GetOrLoad that serves a stale value and schedules the revalidation.
GetOrLoadStale(i, k) ==
    LET f == <<i, k, "refresh">>
    IN  /\ ~l1[i][k].neg /\ IsStale(l1[i][k], Clock(i))
        /\ op[f].pc = "idle" /\ Room(k)
        /\ StartFill(f)
        /\ UNCHANGED <<now, log, origin, l1, bus, seen, late, missed>>

-----------------------------------------------------------------------------
(* fill *)

\* Load finds a fresh entry: promote it to L1.
FillLoadFresh(i, k, r) ==
    LET f == <<i, k, r>>
        e == EntryOf(L2!Latest(k))
    IN  /\ op[f].pc = "load"
        /\ L2!Found(k) /\ IsFresh(e, Clock(i))
        /\ Install(f, e)
        /\ UNCHANGED <<now, log, origin, l1, bus, seen, late, missed>>

ToLoader(f, v) ==
    Goto(f, [op[f] EXCEPT !.pc = "loader", !.expect = v, !.nth = Len(log[f[2]]), !.read = now])

\* Load finds nothing fresh: call the loader, holding the version read.
FillLoadMiss(i, k, r) ==
    LET f == <<i, k, r>>
    IN  /\ op[f].pc = "load"
        /\ ~(L2!Found(k) /\ IsFresh(EntryOf(L2!Latest(k)), Clock(i)))
        /\ ToLoader(f, L2!Version(k))
        /\ UNCHANGED <<now, log, origin, l1, bus, seen, late, missed>>

\* Load fails and its error is ignored: the version is 0, or the stored one
\* when only the value did not decode.
FillLoadError(i, k, r) ==
    LET f == <<i, k, r>>
    IN  /\ op[f].pc = "load"
        /\ "l2err" \in Faults
        /\ \E v \in {0, L2!Version(k)} : ToLoader(f, v)
        /\ UNCHANGED <<now, log, origin, l1, bus, seen, late, missed>>

\* The loader reads the origin; time.Now is taken when it returns.
FillLoader(i, k, r) ==
    LET f == <<i, k, r>>
    IN  /\ op[f].pc = "loader"
        /\ \/ Goto(f, [op[f] EXCEPT !.pc = IF origin[k] \in Rows THEN "setcas" ELSE "cad",
                                    !.rev = origin[k], !.at = Clock(i)])
           \/ "loader" \in Faults /\ Return(f)
        /\ UNCHANGED <<now, log, origin, l1, bus, seen, late, missed>>

\* SetCAS, accepted.  If the reply is lost the caller gets the value uncached.
FillSetCAS(i, k, r) ==
    LET f == <<i, k, r>>
    IN  /\ op[f].pc = "setcas"
        /\ \E w \in window(op[f].at) :
              /\ SetCAS(i, k, op[f], w, op[f].expect)
              /\ \/ Install(f, EntryOf(L2!Latest(k)'))
                 \/ "l2lost" \in Faults /\ Return(f)
        /\ UNCHANGED <<now, origin, l1, bus, seen, late, missed>>

\* The negative install, gated on the version the fill read.
FillDelete(i, k, r) ==
    LET f == <<i, k, r>>
    IN  /\ op[f].pc = "cad"
        /\ CompareAndDelete(k, op[f], negative(op[f].at), op[f].expect)
        /\ \/ Install(f, EntryOf(L2!Latest(k)'))
           \/ "l2lost" \in Faults /\ Return(f)
        /\ UNCHANGED <<now, origin, l1, bus, seen, late, missed>>

\* A conflict answered by trying again with the version that won.
FillConflictRetry(i, k, r) ==
    LET f == <<i, k, r>>
    IN  /\ op[f].pc = "setcas" /\ ~L2!SetAllowed(k, op[f].expect)
        /\ Goto(f, [op[f] EXCEPT !.expect = L2!Version(k)])
        /\ UNCHANGED <<now, log, origin, l1, bus, seen, late, missed>>

\* The fill lost its race: read what won.
FillConflict(i, k, r) ==
    LET f == <<i, k, r>>
    IN  /\ \/ op[f].pc = "setcas" /\ ~L2!SetAllowed(k, op[f].expect)
           \/ op[f].pc = "cad" /\ ~L2!DeleteAllowed(k, op[f].expect)
        /\ Goto(f, [op[f] EXCEPT !.pc = "reload", !.at = 0])
        /\ UNCHANGED <<now, log, origin, l1, bus, seen, late, missed>>

\* A degraded fill that caches its value under the version it read.
FillDegradedCached(i, k, r) ==
    LET f == <<i, k, r>>
    IN  /\ op[f].pc = "setcas"
        /\ "l2err" \in Faults
        /\ \E w \in window(op[f].at) :
              Install(f, [ver |-> op[f].expect, rev |-> op[f].rev, neg |-> FALSE,
                          fu |-> w.fu, su |-> w.su])
        /\ UNCHANGED <<now, log, origin, l1, bus, seen, late, missed>>

\* Degraded mode: the loader's answer goes to the caller and into no tier.
FillDegraded(i, k, r) ==
    LET f == <<i, k, r>>
    IN  /\ op[f].pc \in {"setcas", "cad", "reload"}
        /\ "l2err" \in Faults
        /\ Return(f)
        /\ UNCHANGED <<now, log, origin, l1, bus, seen, late, missed>>

\* Serve the winner, or report not found when there is none to serve.
FillReload(i, k, r) ==
    LET f == <<i, k, r>>
    IN  /\ op[f].pc = "reload"
        /\ IF L2!Found(k)
           THEN Install(f, EntryOf(L2!Latest(k)))
           ELSE Return(f)
        /\ UNCHANGED <<now, log, origin, l1, bus, seen, late, missed>>

FillInstall(i, k, r) ==
    LET f == <<i, k, r>>
    IN  /\ op[f].pc = "install"
        /\ installL1(i, k, op[f].ent)
        /\ Return(f)
        /\ UNCHANGED <<now, log, origin, bus, seen, late, missed>>

Fill(i, k, r) ==
    \/ FillLoadFresh(i, k, r) \/ FillLoadMiss(i, k, r) \/ FillLoadError(i, k, r)
    \/ FillLoader(i, k, r) \/ FillSetCAS(i, k, r) \/ FillDelete(i, k, r)
    \/ FillConflict(i, k, r) \/ FillReload(i, k, r) \/ FillDegraded(i, k, r)
    \/ FillInstall(i, k, r)

-----------------------------------------------------------------------------
(* Set and Invalidate *)

\* Set computes its deadlines before it talks to L2.
SetBegin(i, k, p) ==
    LET f == <<i, k, p>>
    IN  /\ op[f].pc = "idle" /\ Room(k) /\ origin[k] \in Rows
        /\ Goto(f, [NoOp EXCEPT !.pc = "set", !.rev = origin[k], !.at = Clock(i)])
        /\ UNCHANGED <<now, log, origin, l1, bus, seen, late, missed>>

\* The blind write to L2.  On an error Set returns: L1 and the bus are left alone,
\* whether the write took effect or not.
SetL2(i, k, p) ==
    LET f == <<i, k, p>>
    IN  /\ op[f].pc = "set"
        /\ \/ \E w \in window(op[f].at) :
                 /\ SetCAS(i, k, op[f], w, ForceVersion)
                 /\ \/ Install(f, EntryOf(L2!Latest(k)')) /\ UNCHANGED missed
                    \/ "l2lost" \in Faults /\ Return(f) /\ Miss(Instances, {<<k, NextVersion(k)>>})
           \/ "l2err" \in Faults /\ Return(f) /\ UNCHANGED <<log, missed>>
        /\ UNCHANGED <<now, origin, l1, bus, seen, late>>

SetInstall(i, k, p) ==
    LET f == <<i, k, p>>
    IN  /\ op[f].pc = "install"
        /\ installL1(i, k, op[f].ent)
        /\ Overtake(i, k, op[f].ent.ver)
        /\ Goto(f, [op[f] EXCEPT !.pc = "publish"])
        /\ UNCHANGED <<now, log, origin, bus, seen, missed>>

\* The tombstone: a blind write too.  An error without effect changes nothing.
InvalidateL2(i, k, p) ==
    LET f == <<i, k, p>>
    IN  /\ op[f].pc = "idle" /\ Room(k)
        /\ CompareAndDelete(k, [NoOp EXCEPT !.rev = origin[k]], 0, ForceVersion)
        /\ \/ /\ Goto(f, [NoOp EXCEPT !.pc = "delete", !.ent = EntryOf(L2!Latest(k)')])
              /\ UNCHANGED missed
           \/ "l2lost" \in Faults /\ UNCHANGED op /\ Miss(Instances, {<<k, NextVersion(k)>>})
        /\ UNCHANGED <<now, origin, l1, bus, seen, late>>

\* An Invalidate that leaves its own L1 to the broadcast.
InvalidateL1Skipped(i, k, p) ==
    LET f == <<i, k, p>>
    IN  /\ op[f].pc = "delete"
        /\ Overtake(i, k, op[f].ent.ver)
        /\ Goto(f, [op[f] EXCEPT !.pc = "publish"])
        /\ UNCHANGED <<now, log, origin, l1, bus, seen, missed>>

InvalidateL1(i, k, p) ==
    LET f == <<i, k, p>>
    IN  /\ op[f].pc = "delete"
        /\ l1' = [l1 EXCEPT ![i][k] = NoEntry]
        /\ Overtake(i, k, op[f].ent.ver)
        /\ Goto(f, [op[f] EXCEPT !.pc = "publish"])
        /\ UNCHANGED <<now, log, origin, bus, seen, missed>>

EventID(e) == <<e.key, e.ver>>

\* The best-effort broadcast.  Each write has one event; its key and version
\* stand for the random event ID.
Publish(i, k, p) ==
    LET f == <<i, k, p>>
        e == [key |-> k, ver |-> op[f].ent.ver, from |-> i]
    IN  /\ op[f].pc = "publish"
        /\ \E to \in IF "lose" \in Faults THEN SUBSET Instances ELSE {Instances} :
              /\ bus' = [j \in Instances |-> IF j \in to THEN bus[j] \cup {e} ELSE bus[j]]
              /\ Miss(Instances \ (to \cup {i}), {EventID(e)})
        /\ Return(f)
        /\ UNCHANGED <<now, log, origin, l1, seen, late>>

Write(i, k, p) ==
    \/ SetBegin(i, k, p) \/ SetL2(i, k, p) \/ SetInstall(i, k, p)
    \/ InvalidateL2(i, k, p) \/ InvalidateL1(i, k, p)
    \/ Publish(i, k, p)

-----------------------------------------------------------------------------
(* The bus handler and the environment *)

\* A handler that drops the entry only if it has the version of the event.
onEventSameVersion(i, e) ==
    /\ bus' = [bus EXCEPT ![i] = @ \ {e}]
    /\ e.from # i
    /\ seen' = [seen EXCEPT ![i] = @ \cup {EventID(e)}]
    /\ l1' = [l1 EXCEPT ![i][e.key] = IF @.ver = e.ver THEN NoEntry ELSE @]
    /\ UNCHANGED <<now, log, origin, op, late, missed>>

\* onEvent: skip our own broadcasts and redeliveries, else drop the key from L1
\* whatever its version.  A redelivered event stays on the bus.
onEvent(i, e) ==
    /\ \E again \in IF "dup" \in Faults THEN BOOLEAN ELSE {FALSE} :
          bus' = [bus EXCEPT ![i] = IF again THEN @ ELSE @ \ {e}]
    /\ IF e.from = i \/ EventID(e) \in seen[i]
       THEN UNCHANGED <<l1, seen, late>>
       ELSE /\ seen' = [seen EXCEPT ![i] = @ \cup {EventID(e)}]
            /\ l1' = [l1 EXCEPT ![i][e.key] = NoEntry]
            /\ Overtake(i, e.key, e.ver)
    /\ UNCHANGED <<now, log, origin, op, missed>>

\* Another key needs the room: the L1 drops its least recently used entry.
EvictLRU(i, k) ==
    /\ "evict" \in Faults /\ l1[i][k] # NoEntry
    /\ l1' = [l1 EXCEPT ![i][k] = NoEntry]
    /\ UNCHANGED <<now, log, origin, op, bus, seen, late, missed>>

\* The writes of instance i that are past L2 and not yet broadcast.
Unsent(i) == {<<f[2], op[f].ent.ver>> :
                 f \in {g \in {i} \X Keys \X Writers :
                          op[g].pc \in {"install", "delete", "publish"}}}

\* The instance is replaced: its memory is gone, its operations stop where they
\* are, and the new one has a new origin ID.
Restart(i) ==
    /\ "crash" \in Faults
    /\ l1' = [l1 EXCEPT ![i] = [k \in Keys |-> NoEntry]]
    /\ op' = [f \in Procs |-> IF f[1] = i THEN NoOp ELSE op[f]]
    /\ bus' = [j \in Instances |->
                 {IF e.from = i THEN [e EXCEPT !.from = "retired"] ELSE e : e \in bus[j]}]
    /\ seen' = [seen EXCEPT ![i] = {}]
    /\ late' = [late EXCEPT ![i] = [k \in Keys |-> {}]]
    /\ missed' = [j \in Instances |-> IF j = i THEN {} ELSE missed[j] \cup Unsent(i)]
    /\ UNCHANGED <<now, log, origin>>

\* The application changes the row in the system of record.
OriginWrite(k) ==
    /\ origin[k] < MaxRev
    /\ origin' = [origin EXCEPT ![k] = @ + 1]
    /\ UNCHANGED <<now, log, l1, op, bus, seen, late, missed>>

Tick ==
    /\ now < MaxTime
    /\ L2!Tick
    /\ UNCHANGED <<log, origin, l1, op, bus, seen, late, missed>>

-----------------------------------------------------------------------------
Init ==
    /\ L2!Init
    /\ origin = [k \in Keys |-> 0]
    /\ l1 = [i \in Instances |-> [k \in Keys |-> NoEntry]]
    /\ op = [f \in Procs |-> NoOp]
    /\ bus = [i \in Instances |-> {}]
    /\ seen = [i \in Instances |-> {}]
    /\ late = [i \in Instances |-> [k \in Keys |-> {}]]
    /\ missed = [i \in Instances |-> {}]

Next ==
    \/ \E i \in Instances, k \in Keys :
          \/ Get(i, k) \/ GetOrLoadMiss(i, k) \/ GetOrLoadStale(i, k)
          \/ \E r \in Fills : Fill(i, k, r)
          \/ \E p \in Writers : Write(i, k, p)
          \/ EvictLRU(i, k)
    \/ \E i \in Instances : Restart(i) \/ \E e \in bus[i] : onEvent(i, e)
    \/ \E k \in Keys : OriginWrite(k)
    \/ Tick

Spec == Init /\ [][Next]_vars

-----------------------------------------------------------------------------
(* Properties *)

Entry == [ver : Nat, rev : Nat, neg : BOOLEAN, fu : Nat, su : Nat]

Accepted == [ver : Nat, pay : [rev : Nat, fu : Nat, su : Nat, read : Nat], del : BOOLEAN,
             expect : Nat \cup {ForceVersion}, at : Nat, exp : Nat]

Operation == [pc : {"idle", "load", "loader", "setcas", "cad", "reload", "install",
                    "set", "delete", "publish"},
              expect : Nat, nth : Nat, read : Nat, at : Nat, rev : Nat, ent : Entry]

Event == [key : Keys, ver : Nat, from : Instances \cup {"retired"}]

\* The types of L2, the L1s, the operations and the bus.
TypeOK ==
    /\ now \in Nat
    /\ log \in [Keys -> Seq(Accepted)]
    /\ origin \in [Keys -> Nat]
    /\ l1 \in [Instances -> [Keys -> Entry]]
    /\ op \in [Procs -> Operation]
    /\ bus \in [Instances -> SUBSET Event]
    /\ seen \in [Instances -> SUBSET (Keys \X Nat)]
    /\ late \in [Instances -> [Keys -> SUBSET (Nat \X Nat)]]
    /\ missed \in [Instances -> SUBSET (Keys \X Nat)]

\* The fill invariant (DESIGN.md, cache.go fill, Set): nothing is in an L1 except,
\* verbatim, what L2 accepted under the entry's version, so that two L1s with
\* the same version of a key hold the same value and the same deadlines.
EntryIsMinted ==
    \A i \in Instances, k \in Keys :
        LET e == l1[i][k]
        IN  e # NoEntry => /\ e.ver \in 1..Len(log[k])
                           /\ e = EntryOf(log[k][e.ver])

\* How long L2 retains the write w at least (redisTTL, WithTombstoneTTL); 0: for good.
Retention(w) == IF w.del THEN TombstoneTTL ELSE TTLFloor

\* The fill that made write n of k held the version it compared with for longer
\* than L2 retained the write before, which it had not seen.
Overstayed(k, n) ==
    LET last == log[k][n - 1]
        fill == log[k][n]
    IN  /\ fill.pay.read <= last.at
        /\ Retention(last) > 0 /\ fill.at > last.at + Retention(last)

\* No fill-after-invalidate (fill, setCAS, compareAndDelete): what a fill writes
\* to L2, value or tombstone, is at least as recent a revision of the origin as
\* everything accepted before it, unless it overstayed: a fill that is through
\* within TTLFloor (1 s in redisTTL) and TombstoneTTL of reading L2 is safe.
FillsAreCurrent ==
    \A k \in Keys : \A m, n \in 1..Len(log[k]) :
        m < n /\ log[k][n].expect # ForceVersion =>
            log[k][m].pay.rev <= log[k][n].pay.rev \/ Overstayed(k, n)

\* The longest an entry is served after it was written.
MaxAge(neg) == IF neg THEN negative(0)
               ELSE Capped(0, (IF Fresh = 0 THEN NoExpiry ELSE Fresh + Jitter) + StaleWindow)

\* Bounded staleness (window, negativeEntry, fill's promotion): an entry that is
\* no longer the latest is served for at most its whole lifetime after the write
\* that superseded it, whatever happens to the bus.  The lifetime is the fresh TTL
\* with its jitter, the stale window and the clock skew, capped by MaxTTL; that of
\* a negative entry is its TTL, and not capped.
BoundedStaleness ==
    \A i \in Instances, k \in Keys :
        LET e == l1[i][k]
        IN  e.ver \in 1..(Len(log[k]) - 1) =>
               e.su <= log[k][e.ver + 1].at + MaxAge(e.neg) + MaxSkew

\* What an applied invalidation event achieves (onEvent): the L1 holds nothing
\* older than the event's write from then on, except an entry that an operation
\* had already read from L2, and not yet installed, when the event was applied.
EvictionSticks ==
    \A i \in Instances, k \in Keys : \A v \in 1..Len(log[k]) :
        <<k, v>> \in seen[i] /\ l1[i][k] # NoEntry =>
            l1[i][k].ver >= v \/ <<l1[i][k].ver, v>> \in late[i][k]

\* Every operation has returned and every event has been handled.
Quiet == (\A f \in Procs : op[f].pc = "idle") /\ (\A i \in Instances : bus[i] = {})

\* Convergence (Set, Invalidate, onEvent, installL1): once the system is quiet, an
\* L1 holds nothing older than any Set or Invalidate, of whichever instance, whose
\* broadcast reached it, except an entry that was past L2 and not yet in L1 when
\* that very write took effect there.
ConvergedUpToLate ==
    Quiet =>
        \A i \in Instances, k \in Keys : \A n \in 1..Len(log[k]) :
            log[k][n].expect = ForceVersion /\ l1[i][k] # NoEntry =>
                \/ l1[i][k].ver >= n
                \/ <<l1[i][k].ver, n>> \in late[i][k]
                \/ <<k, n>> \in missed[i]

-----------------------------------------------------------------------------
(* What the documentation says and the code does not do *)

\* "A fill whose version is not the latest at install time is discarded, not
\* cached" (DESIGN.md): once every operation has returned and every event has
\* been applied, no L1 serves an entry from before the last Set or Invalidate.
ConvergedWhenQuiet ==
    Quiet =>
        \A i \in Instances, k \in Keys : \A n \in 1..Len(log[k]) :
            log[k][n].expect = ForceVersion /\ ~IsExpired(l1[i][k], Clock(i)) =>
                l1[i][k].ver >= n

\* "If anything bumped the version in between (an invalidation, another writer), the
\* CAS fails and the loaded value is thrown away" (DESIGN.md): no fill overwrites a
\* newer revision, however long it takes.
StaleFillsAreDiscarded ==
    \A k \in Keys : \A m, n \in 1..Len(log[k]) :
        m < n /\ log[k][n].expect # ForceVersion => log[k][m].pay.rev <= log[k][n].pay.rev

\* "Bounded staleness, capped by the fresh TTL (and MaxTTL)" (DESIGN.md): what has
\* been superseded for the fresh TTL is not served any more.
StaleWithinFresh ==
    \A i \in Instances, k \in Keys :
        LET e == l1[i][k]
        IN  e.ver \in 1..(Len(log[k]) - 1) /\ ~IsExpired(e, Clock(i)) =>
               Clock(i) < log[k][e.ver + 1].at + Fresh

\* "MaxTTL caps the absolute lifetime of an entry" (builder.go): of a negative one too.
NegativesAreCapped ==
    \A i \in Instances, k \in Keys :
        LET e == l1[i][k]
        IN  MaxTTL > 0 /\ e.neg => e.su <= Clock(i) + MaxTTL

\* GetOrLoad "returns ErrNotFound on a negative hit" (cache.go): a fill whose
\* loader returned a value reports not found only if a tombstone was written
\* while it ran.
NotFoundIsEarned ==
    [][\A i \in Instances, k \in Keys, r \in Fills :
          LET f == <<i, k, r>>
          IN  op[f].rev \in Rows /\ FillReload(i, k, r) =>
                 L2!Found(k) \/ \E n \in (op[f].nth + 1)..Len(log[k]) : log[k][n].del]_vars

\* An expired entry "must not be served" (store/entry.go): nor must the winner a
\* fill reads after it lost its race.
WinnerIsServable ==
    [][\A i \in Instances, k \in Keys, r \in Fills :
          LET f == <<i, k, r>>
          IN  op[f].pc = "reload" /\ op'[f].pc = "install" =>
                 ~IsExpired(op'[f].ent, Clock(i))]_vars
=============================================================================
