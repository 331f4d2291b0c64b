----------------------------- MODULE LocalCache -----------------------------
(***************************************************************************)
(* The cache of cache.go without an L2: one instance, fills that go straight *)
(* to the loader, and a local tag index behind its own mutex.  A loader call *)
(* with the L1 write of its result, any other L1 access, and a critical     *)
(* section of the index are a step each.                                    *)
(*                                                                          *)
(* Readers that miss share a flight per key (internal/singleflight).  Of an  *)
(* entry are kept its age, in place of its deadlines, and whether a Set     *)
(* stored it with the tag.  A negative entry is one that never gets stale.  *)
(* There is one tag.  What a write broadcasts has no reader in this mode    *)
(* and is left out.                                                         *)
(***************************************************************************)
EXTENDS Keyspace

CONSTANTS Callers, NoCaller

ASSUME CallerAssumption == NoCaller \notin Callers

VARIABLES
    l1,       \* l1[k]: the entry of k
    tags,     \* the keys in the index of the tag
    flight,   \* flight[k]: the caller that leads the flight of k
    call,     \* call[x]: where a call is
    refresh   \* the keys with a revalidation in flight

localVars == <<l1, tags, flight, call, refresh>>

NoEntry == [age |-> "none", tagged |-> FALSE]
Stored(tagged) == [age |-> "fresh", tagged |-> tagged]

\* left: the keys a sweep has yet to delete     due: history, the keys whose
\* entry was reachable by the tag when the sweep began and is still there
NoCall == [pc |-> "idle", key |-> NoKey, left |-> {}, due |-> {}]

-----------------------------------------------------------------------------
Sweeping == {x \in Callers : call[x].pc = "sweep"}

\* The keys that sweeps have taken from the index and are yet to delete.
Taken == UNION {call[x].left : x \in Sweeping}

\* The keys the tag leads to.
Reachable == tags \cup Taken

\* An L1 write of k: what a sweep was to remove of it is no longer there.
Touch(calls, k) == [x \in Callers |-> [calls[x] EXCEPT !.due = @ \ {k}]]

Put(k, e) == l1' = [l1 EXCEPT ![k] = e]

Return(x) == [call EXCEPT ![x] = NoCall]

\* The flight lands: its leader and all who wait for it return.
Land(x, k) == [y \in Callers |->
                 IF y = x \/ (call[y].pc = "wait" /\ call[y].key = k) THEN NoCall ELSE call[y]]

-----------------------------------------------------------------------------
(* GetOrLoad *)

\* GetOrLoad finds nothing to serve in L1.
GetOrLoadMiss(x, k) ==
    /\ call[x] = NoCall /\ l1[k].age = "none"
    /\ call' = [call EXCEPT ![x] = [NoCall EXCEPT !.pc = "miss", !.key = k]]
    /\ UNCHANGED <<l1, tags, flight, refresh>>

\* A flight that is joined by nobody.
DoAlone(x) ==
    /\ call[x].pc = "miss"
    /\ call' = [call EXCEPT ![x].pc = "load"]
    /\ flight' = [flight EXCEPT ![call[x].key] = x]
    /\ UNCHANGED <<l1, tags, refresh>>

\* The miss leads the flight of its key, or joins it, whatever L1 has by now.
Do(x) ==
    /\ call[x].pc = "miss"
    /\ IF flight[call[x].key] = NoCaller
       THEN /\ call' = [call EXCEPT ![x].pc = "load"]
            /\ flight' = [flight EXCEPT ![call[x].key] = x]
       ELSE /\ call' = [call EXCEPT ![x].pc = "wait"]
            /\ UNCHANGED flight
    /\ UNCHANGED <<l1, tags, refresh>>

\* A stale value is served, and its revalidation scheduled if none is in flight.
GetOrLoadStale(k) ==
    /\ l1[k].age = "stale" /\ k \notin refresh
    /\ refresh' = refresh \cup {k}
    /\ UNCHANGED <<l1, tags, flight, call>>

\* fill: the loader fails, and so do all who wait, whatever their own context.
FillError(x) ==
    /\ call[x].pc = "load"
    /\ call' = Land(x, call[x].key)
    /\ flight' = [flight EXCEPT ![call[x].key] = NoCaller]
    /\ UNCHANGED <<l1, tags, refresh>>

\* fill: a value or ErrNotFound goes to L1 and to all who wait.
Fill(x) ==
    LET k == call[x].key
    IN  /\ call[x].pc = "load"
        /\ Put(k, Stored(FALSE))
        /\ call' = Touch(Land(x, k), k)
        /\ flight' = [flight EXCEPT ![k] = NoCaller]
        /\ UNCHANGED <<tags, refresh>>

\* The same fill on behalf of the refresher.
Refresh(k) ==
    /\ k \in refresh /\ refresh' = refresh \ {k}
    /\ \/ Put(k, Stored(FALSE)) /\ call' = Touch(call, k)
       \/ UNCHANGED <<l1, call>>
    /\ UNCHANGED <<tags, flight>>

-----------------------------------------------------------------------------
(* Set and Invalidate *)

\* Set stores its entry, and then indexes it.
Set(x, k, tagged) ==
    /\ call[x] = NoCall
    /\ Put(k, Stored(tagged))
    /\ call' = Touch(IF tagged THEN [call EXCEPT ![x] = [NoCall EXCEPT !.pc = "index", !.key = k]]
                     ELSE call, k)
    /\ UNCHANGED <<tags, flight, refresh>>

indexTags(x) ==
    /\ call[x].pc = "index"
    /\ tags' = tags \cup {call[x].key}
    /\ call' = Return(x)
    /\ UNCHANGED <<l1, flight, refresh>>

Invalidate(k) ==
    /\ Put(k, NoEntry)
    /\ call' = Touch(call, k)
    /\ UNCHANGED <<tags, flight, refresh>>

-----------------------------------------------------------------------------
(* InvalidateTag *)

Due == {k \in Reachable : l1[k].tagged}

\* The index of the tag is taken and dropped under the mutex ...
InvalidateTag(x) ==
    /\ call[x] = NoCall
    /\ call' = [call EXCEPT ![x] = [NoCall EXCEPT !.pc = "sweep", !.left = tags, !.due = Due]]
    /\ tags' = {}
    /\ UNCHANGED <<l1, flight, refresh>>

\* A sweep that ends with its first key.
SweepFirst(x, k) ==
    /\ call[x].pc = "sweep" /\ k \in call[x].left
    /\ Put(k, NoEntry)
    /\ call' = Touch([call EXCEPT ![x].left = {}], k)
    /\ UNCHANGED <<tags, flight, refresh>>

\* ... and its keys are deleted one by one after the unlock.
Sweep(x, k) ==
    /\ call[x].pc = "sweep" /\ k \in call[x].left
    /\ Put(k, NoEntry)
    /\ call' = Touch([call EXCEPT ![x].left = @ \ {k}], k)
    /\ UNCHANGED <<tags, flight, refresh>>

\* A sweep that drops the index when it is done, and not before.
SweepReturnDrops(x) ==
    /\ call[x].pc = "sweep" /\ call[x].left = {}
    /\ call' = Return(x)
    /\ tags' = {}
    /\ UNCHANGED <<l1, flight, refresh>>

SweepReturn(x) ==
    /\ call[x].pc = "sweep" /\ call[x].left = {}
    /\ call' = Return(x)
    /\ UNCHANGED <<l1, tags, flight, refresh>>

-----------------------------------------------------------------------------
(* The environment *)

\* A deadline passes, or the LRU drops the entry.
Age(k) ==
    /\ l1[k].age # "none"
    /\ \/ Put(k, NoEntry) /\ call' = Touch(call, k)
       \/ l1[k].age = "fresh" /\ Put(k, [l1[k] EXCEPT !.age = "stale"]) /\ UNCHANGED call
    /\ UNCHANGED <<tags, flight, refresh>>

LocalInit ==
    /\ l1 = [k \in Keys |-> NoEntry] /\ tags = {}
    /\ flight = [k \in Keys |-> NoCaller]
    /\ call = [x \in Callers |-> NoCall]
    /\ refresh = {}

Proceed(x) ==
    \/ Do(x) \/ Fill(x) \/ FillError(x) \/ indexTags(x)
    \/ (\E k \in Keys : Sweep(x, k)) \/ SweepReturn(x)

LocalNext ==
    \/ \E x \in Callers :
          \/ \E k \in Keys : GetOrLoadMiss(x, k) \/ \E tagged \in BOOLEAN : Set(x, k, tagged)
          \/ InvalidateTag(x) \/ Proceed(x)
    \/ \E k \in Keys : \/ GetOrLoadStale(k) \/ Refresh(k)
                       \/ Invalidate(k) \/ Age(k)

LocalSpec == LocalInit /\ [][LocalNext]_localVars

-----------------------------------------------------------------------------
\* The types of L1, the index, the flights and the calls.
LocalTypeOK ==
    /\ l1 \in [Keys -> [age : {"none", "fresh", "stale"}, tagged : BOOLEAN]]
    /\ tags \subseteq Keys
    /\ flight \in [Keys -> Callers \cup {NoCaller}]
    /\ call \in [Callers -> [pc : {"idle", "miss", "load", "wait", "index", "sweep"},
                             key : Keys \cup {NoKey},
                             left : SUBSET Keys, due : SUBSET Keys]]
    /\ refresh \subseteq Keys

\* The keys whose Set has not returned.
Indexing == {call[x].key : x \in {y \in Callers : call[y].pc = "index"}}

\* A tagged entry is never out of reach of its tag (Set, indexTags,
\* InvalidateTag): it is in the index, or on the list of a sweep that will delete
\* it, or its Set has not returned.
TaggedIsReachable == \A k \in Keys : l1[k].tagged => k \in Reachable \cup Indexing

\* "InvalidateTag evicts every key carrying tag" (cache.go): what could be reached
\* when it began, and has not been written since, is gone when it returns, unless
\* another sweep took it first and is about to delete it.
SweepIsComplete == \A x \in Sweeping : call[x].due \subseteq Taken

\* Stampede protection (GetOrLoad, singleflight): a key is loaded on a miss by
\* one caller at a time, the leader of its flight, and nobody waits for a flight
\* that has landed, even if the loader failed.
FlightsAreLed ==
    /\ \A x \in Callers : call[x].pc = "load" => flight[call[x].key] = x
    /\ \A x \in Callers : call[x].pc = "wait" => flight[call[x].key] # NoCaller
    /\ \A k \in Keys : flight[k] # NoCaller =>
          call[flight[k]].pc = "load" /\ call[flight[k]].key = k

\* "InvalidateTag evicts every key carrying tag" (cache.go), to the letter: what
\* could be reached when it began is gone when it returns.
SweepLeavesNothing ==
    \A x \in Sweeping : call[x].left = {} => call[x].due = {}
=============================================================================
