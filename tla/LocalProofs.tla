----------------------------- MODULE LocalProofs -----------------------------
(***************************************************************************)
(* Proofs about the parts of a cache within one process: RequestBound, the   *)
(* refresher, for every set of keys, goroutines and callers of Close and     *)
(* every cap, and LocalCache, the cache without an L2, for every set of keys *)
(* and callers.  The two share their keys and nothing else.                 *)
(***************************************************************************)
EXTENDS RequestBound, LocalCache, FiniteSetTheorems, TLAPS

-----------------------------------------------------------------------------
(* The refresher *)

\* The goroutines that have not returned, and those whose key is marked.
Alive == {g \in Tasks : task[g].pc # "none"}
Marking == {g \in Tasks : task[g].pc \in {"run", "unmark"}}

\* A goroutine that is gone has no key; one that has a key has one of Keys.
KeysOfTasks == \A g \in Tasks : IF task[g].pc = "none" THEN task[g] = Idle ELSE task[g].key \in Keys

\* A key is marked exactly while one goroutine is to unmark it.
MarksMatch ==
    /\ \A k \in Keys : k \in inflight <=> \E g \in Marking : task[g].key = k
    /\ \A g, h \in Marking : task[g].key = task[h].key => g = h

\* The WaitGroup counts the goroutines.
Counted == wg = Cardinality(Alive)

\* A Close that waits has shut the door, and one that returned has seen zero.
ClosersMatch == /\ (\E c \in Closers : closer[c] # "idle") => closed
                /\ (\E c \in Closers : closer[c] = "returned") => wg = 0

IInv == TypeOK /\ TokensBalance /\ KeysOfTasks /\ MarksMatch /\ Counted /\ ClosersMatch

\* The counted sets are finite.
LEMMA FiniteTasks ==
    /\ IsFiniteSet(Alive) /\ Cardinality(Alive) \in Nat
    /\ IsFiniteSet(Holding) /\ Cardinality(Holding) \in Nat
<1>1. IsFiniteSet(Alive) /\ IsFiniteSet(Holding)
  BY TaskAssumption, FS_Subset, Zenon DEF Alive, Holding
<1> QED BY <1>1, FS_CardinalityType, Zenon

\* A new refresher satisfies the invariant.
LEMMA InitInv == Init => IInv
<1> SUFFICES ASSUME Init PROVE IInv
  BY Zenon
<1>1. TypeOK
  <2>1. /\ task \in [Tasks -> [pc : {"none", "run", "unmark", "release", "done"}, key : Keys \cup {NoKey}]]
        /\ closer \in [Closers -> {"idle", "wait", "returned"}]
    BY Zenon DEF Init, Idle
  <2>2. inflight \subseteq Keys /\ sem \in 0..MaxConcurrent /\ wg \in Nat
    BY CapAssumption DEF Init
  <2>3. closed \in BOOLEAN
    BY Zenon DEF Init
  <2> QED BY <2>1, <2>2, <2>3, Zenon DEF TypeOK
<1>2. Alive = {} /\ Holding = {} /\ Marking = {}
  BY Zenon DEF Init, Alive, Holding, Marking, Idle
<1>3. TokensBalance /\ Counted
  BY <1>2, FS_EmptySet, Zenon DEF Init, TokensBalance, Counted
<1>4. KeysOfTasks /\ MarksMatch /\ ClosersMatch
  BY <1>2, Zenon DEF Init, KeysOfTasks, MarksMatch, ClosersMatch, Idle
<1> QED BY <1>1, <1>3, <1>4, Zenon DEF IInv

\* Which sets a goroutine is in depends on where it is.
LEMMA TaskStep ==
    ASSUME TypeOK, NEW g \in Tasks, NEW t \in [pc : {"none", "run", "unmark", "release", "done"},
                                               key : Keys \cup {NoKey}],
           task' = [task EXCEPT ![g] = t]
    PROVE  /\ task' \in [Tasks -> [pc : {"none", "run", "unmark", "release", "done"},
                                   key : Keys \cup {NoKey}]]
           /\ task'[g] = t /\ \A h \in Tasks \ {g} : task'[h] = task[h]
           /\ Alive' = IF t.pc # "none" THEN Alive \cup {g} ELSE Alive \ {g}
           /\ Holding' = IF t.pc \in {"run", "unmark", "release"} THEN Holding \cup {g} ELSE Holding \ {g}
           /\ Marking' = IF t.pc \in {"run", "unmark"} THEN Marking \cup {g} ELSE Marking \ {g}
<1>1. /\ task' \in [Tasks -> [pc : {"none", "run", "unmark", "release", "done"},
                              key : Keys \cup {NoKey}]]
      /\ task'[g] = t /\ \A h \in Tasks \ {g} : task'[h] = task[h]
  BY Zenon DEF TypeOK
<1>2. Alive' = IF t.pc # "none" THEN Alive \cup {g} ELSE Alive \ {g}
  BY <1>1, Zenon DEF Alive
<1>3. Holding' = IF t.pc \in {"run", "unmark", "release"} THEN Holding \cup {g} ELSE Holding \ {g}
  BY <1>1, Zenon DEF Holding
<1>4. Marking' = IF t.pc \in {"run", "unmark"} THEN Marking \cup {g} ELSE Marking \ {g}
  BY <1>1, Zenon DEF Marking
<1> QED BY <1>1, <1>2, <1>3, <1>4, Zenon

-----------------------------------------------------------------------------
\* Schedule takes a token, marks the key and counts the goroutine.
LEMMA ScheduleStep ==
    ASSUME IInv, NEW g \in Tasks, NEW k \in Keys, Schedule(g, k)
    PROVE  IInv'
<1> DEFINE t == [pc |-> "run", key |-> k]
<1> USE DEF IInv
<1>0. /\ task[g] = Idle /\ task[g].pc = "none" /\ ~closed /\ k \notin inflight /\ sem < MaxConcurrent
      /\ sem' = sem + 1 /\ inflight' = inflight \cup {k} /\ wg' = wg + 1
      /\ task' = [task EXCEPT ![g] = t] /\ UNCHANGED <<closed, closer>>
  BY DEF Schedule, Idle
<1>1. /\ task' \in [Tasks -> [pc : {"none", "run", "unmark", "release", "done"},
                              key : Keys \cup {NoKey}]]
      /\ task'[g] = t /\ \A h \in Tasks \ {g} : task'[h] = task[h]
      /\ Alive' = Alive \cup {g} /\ Holding' = Holding \cup {g} /\ Marking' = Marking \cup {g}
  BY <1>0, TaskStep, ZenonT(30)
<1>2. g \notin Alive /\ g \notin Holding /\ g \notin Marking
  BY <1>0, Zenon DEF Alive, Holding, Marking
<1>3. TokensBalance'
  BY <1>0, <1>1, <1>2, FiniteTasks, FS_AddElement, Zenon DEF TokensBalance
<1>4. Counted'
  BY <1>0, <1>1, <1>2, FiniteTasks, FS_AddElement, Zenon DEF Counted
<1>5. TypeOK'
  BY <1>0, <1>1, CapAssumption DEF TypeOK
<1>6. KeysOfTasks'
  BY <1>1 DEF KeysOfTasks
<1>7. MarksMatch'
  <2>1. \A h \in Marking : h # g /\ task'[h] = task[h] /\ task[h].key # k
    BY <1>0, <1>1, <1>2, Zenon DEF MarksMatch, Marking
  <2> QED BY <1>0, <1>1, <2>1 DEF MarksMatch
<1>8. ClosersMatch'
  BY <1>0, Zenon DEF ClosersMatch
<1> QED BY <1>3, <1>4, <1>5, <1>6, <1>7, <1>8, Zenon

\* A goroutine on its way out: it unmarks its key, hands back its token and is
\* counted out, in this order.
LEMMA StepStep ==
    ASSUME IInv, NEW g \in Tasks, Step(g)
    PROVE  IInv'
<1> USE DEF IInv
<1>0. task[g] \in [pc : {"none", "run", "unmark", "release", "done"}, key : Keys \cup {NoKey}]
  BY Zenon DEF TypeOK
<1>1. CASE Ran(g)
  <2>0. /\ task[g].pc = "run" /\ task' = [task EXCEPT ![g] = [pc |-> "unmark", key |-> task[g].key]]
        /\ UNCHANGED <<inflight, sem, closed, wg, closer>>
    BY <1>1, Zenon DEF Ran, Goto
  <2>1. g \in Alive /\ g \in Holding /\ g \in Marking
    BY <2>0, Zenon DEF Alive, Holding, Marking
  <2>2. /\ task' \in [Tasks -> [pc : {"none", "run", "unmark", "release", "done"}, key : Keys \cup {NoKey}]]
        /\ task'[g] = [pc |-> "unmark", key |-> task[g].key] /\ \A h \in Tasks \ {g} : task'[h] = task[h]
        /\ Alive' = Alive /\ Holding' = Holding /\ Marking' = Marking
    <3> DEFINE t == [pc |-> "unmark", key |-> task[g].key]
    <3>1. t \in [pc : {"none", "run", "unmark", "release", "done"}, key : Keys \cup {NoKey}] /\ t.pc = "unmark"
      BY <1>0, Zenon
    <3>2. task' = [task EXCEPT ![g] = t]
      BY <2>0, Zenon
    <3> HIDE DEF t
    <3>3. /\ task' \in [Tasks -> [pc : {"none", "run", "unmark", "release", "done"}, key : Keys \cup {NoKey}]]
          /\ task'[g] = t /\ \A h \in Tasks \ {g} : task'[h] = task[h]
          /\ Alive' = Alive \cup {g} /\ Holding' = Holding \cup {g} /\ Marking' = Marking \cup {g}
      BY <3>1, <3>2, TaskStep, Zenon
    <3> QED BY <2>1, <3>3, Zenon DEF t
  <2>3. TypeOK' /\ TokensBalance' /\ Counted' /\ ClosersMatch'
    BY <2>0, <2>2, Zenon DEF TypeOK, TokensBalance, Counted, ClosersMatch
  <2>4. \A h \in Tasks : task'[h].key = task[h].key
    BY <2>2
  <2>5. MarksMatch'
    BY <2>0, <2>2, <2>4 DEF MarksMatch, Marking
  <2>6. KeysOfTasks'
    BY <2>0, <2>2, Zenon DEF KeysOfTasks
  <2> QED BY <2>3, <2>5, <2>6, Zenon
<1>2. CASE Unmark(g)
  <2>0. /\ task[g].pc = "unmark" /\ task' = [task EXCEPT ![g] = [pc |-> "release", key |-> task[g].key]]
        /\ inflight' = inflight \ {task[g].key} /\ UNCHANGED <<sem, closed, wg, closer>>
    BY <1>2, Zenon DEF Unmark, Goto
  <2>1. g \in Alive /\ g \in Holding /\ g \in Marking
    BY <2>0, Zenon DEF Alive, Holding, Marking
  <2>2. /\ task' \in [Tasks -> [pc : {"none", "run", "unmark", "release", "done"}, key : Keys \cup {NoKey}]]
        /\ task'[g] = [pc |-> "release", key |-> task[g].key] /\ \A h \in Tasks \ {g} : task'[h] = task[h]
        /\ Alive' = Alive /\ Holding' = Holding /\ Marking' = Marking \ {g}
    <3> DEFINE t == [pc |-> "release", key |-> task[g].key]
    <3>1. t \in [pc : {"none", "run", "unmark", "release", "done"}, key : Keys \cup {NoKey}] /\ t.pc = "release"
      BY <1>0, Zenon
    <3>2. task' = [task EXCEPT ![g] = t]
      BY <2>0, Zenon
    <3> HIDE DEF t
    <3>3. /\ task' \in [Tasks -> [pc : {"none", "run", "unmark", "release", "done"}, key : Keys \cup {NoKey}]]
          /\ task'[g] = t /\ \A h \in Tasks \ {g} : task'[h] = task[h]
          /\ Alive' = Alive \cup {g} /\ Holding' = Holding \cup {g} /\ Marking' = Marking \ {g}
      BY <3>1, <3>2, TaskStep, Zenon
    <3> QED BY <2>1, <3>3, Zenon DEF t
  <2>3. TypeOK' /\ TokensBalance' /\ Counted' /\ ClosersMatch'
    BY <2>0, <2>2, Zenon DEF TypeOK, TokensBalance, Counted, ClosersMatch
  <2>4. \A h \in Marking \ {g} : task'[h] = task[h] /\ task[h].key # task[g].key
    BY <2>1, <2>2, Zenon DEF MarksMatch, Marking
  <2>5. MarksMatch'
    BY <2>0, <2>1, <2>2, <2>4 DEF MarksMatch
  <2>6. KeysOfTasks'
    BY <2>0, <2>2, Zenon DEF KeysOfTasks
  <2> QED BY <2>3, <2>5, <2>6
<1>3. CASE Release(g)
  <2>0. /\ task[g].pc = "release" /\ task' = [task EXCEPT ![g] = [pc |-> "done", key |-> task[g].key]]
        /\ sem > 0 /\ sem' = sem - 1 /\ UNCHANGED <<inflight, closed, wg, closer>>
    BY <1>3, Zenon DEF Release, Goto
  <2>1. g \in Alive /\ g \in Holding /\ g \notin Marking
    BY <2>0, Zenon DEF Alive, Holding, Marking
  <2>2. /\ task' \in [Tasks -> [pc : {"none", "run", "unmark", "release", "done"}, key : Keys \cup {NoKey}]]
        /\ task'[g] = [pc |-> "done", key |-> task[g].key] /\ \A h \in Tasks \ {g} : task'[h] = task[h]
        /\ Alive' = Alive /\ Holding' = Holding \ {g} /\ Marking' = Marking
    <3> DEFINE t == [pc |-> "done", key |-> task[g].key]
    <3>1. t \in [pc : {"none", "run", "unmark", "release", "done"}, key : Keys \cup {NoKey}] /\ t.pc = "done"
      BY <1>0, Zenon
    <3>2. task' = [task EXCEPT ![g] = t]
      BY <2>0, Zenon
    <3> HIDE DEF t
    <3>3. /\ task' \in [Tasks -> [pc : {"none", "run", "unmark", "release", "done"}, key : Keys \cup {NoKey}]]
          /\ task'[g] = t /\ \A h \in Tasks \ {g} : task'[h] = task[h]
          /\ Alive' = Alive \cup {g} /\ Holding' = Holding \ {g} /\ Marking' = Marking \ {g}
      BY <3>1, <3>2, TaskStep, Zenon
    <3> QED BY <2>1, <3>3, Zenon DEF t
  <2>3. TokensBalance'
    BY <2>0, <2>1, <2>2, FiniteTasks, FS_RemoveElement, Zenon DEF TokensBalance
  <2>4. TypeOK' /\ Counted' /\ ClosersMatch'
    BY <2>0, <2>2, CapAssumption DEF TypeOK, Counted, ClosersMatch
  <2>5. MarksMatch'
    BY <2>0, <2>1, <2>2 DEF MarksMatch, Marking
  <2>6. KeysOfTasks'
    BY <2>0, <2>2, Zenon DEF KeysOfTasks
  <2> QED BY <2>3, <2>4, <2>5, <2>6, Zenon
<1>4. CASE Done(g)
  <2>0. /\ task[g].pc = "done" /\ task' = [task EXCEPT ![g] = Idle]
        /\ wg' = wg - 1 /\ UNCHANGED <<inflight, sem, closed, closer>>
    BY <1>4, Zenon DEF Done
  <2>1. g \in Alive /\ g \notin Holding /\ g \notin Marking
    BY <2>0, Zenon DEF Alive, Holding, Marking
  <2>2. /\ task' \in [Tasks -> [pc : {"none", "run", "unmark", "release", "done"}, key : Keys \cup {NoKey}]]
        /\ task'[g] = Idle /\ \A h \in Tasks \ {g} : task'[h] = task[h]
        /\ Alive' = Alive \ {g} /\ Holding' = Holding /\ Marking' = Marking
    <3> DEFINE t == Idle
    <3>1. t \in [pc : {"none", "run", "unmark", "release", "done"}, key : Keys \cup {NoKey}] /\ t.pc = "none"
      BY <1>0, Zenon DEF Idle
    <3>2. task' = [task EXCEPT ![g] = t]
      BY <2>0, Zenon
    <3> HIDE DEF t
    <3>3. /\ task' \in [Tasks -> [pc : {"none", "run", "unmark", "release", "done"}, key : Keys \cup {NoKey}]]
          /\ task'[g] = t /\ \A h \in Tasks \ {g} : task'[h] = task[h]
          /\ Alive' = Alive \ {g} /\ Holding' = Holding \ {g} /\ Marking' = Marking \ {g}
      BY <3>1, <3>2, TaskStep, Zenon
    <3> QED BY <2>1, <3>3, Zenon DEF t
  <2>3. Cardinality(Alive \ {g}) = wg - 1 /\ Cardinality(Alive \ {g}) \in Nat
    BY <2>1, FiniteTasks, FS_RemoveElement, FS_CardinalityType, Zenon DEF Counted
  <2>4. TypeOK' /\ Counted' /\ TokensBalance'
    BY <2>0, <2>2, <2>3, Zenon DEF TypeOK, Counted, TokensBalance
  <2>5. ClosersMatch'
    <3>1. wg # 0
      BY <2>3 DEF TypeOK
    <3> QED BY <2>0, <3>1, Zenon DEF ClosersMatch
  <2>6. MarksMatch'
    BY <2>0, <2>1, <2>2 DEF MarksMatch, Marking
  <2>7. KeysOfTasks'
    BY <2>0, <2>2, Zenon DEF KeysOfTasks, Idle
  <2> QED BY <2>4, <2>5, <2>6, <2>7, Zenon
<1> QED BY <1>1, <1>2, <1>3, <1>4, Zenon DEF Step

\* Close shuts the door, and returns when the WaitGroup is at zero.
LEMMA CloseStep ==
    ASSUME IInv, NEW c \in Closers, Close(c) \/ CloseWait(c)
    PROVE  IInv'
<1> USE DEF IInv
<1>1. UNCHANGED <<inflight, sem, wg, task>> /\ closed' \in {closed, TRUE}
  BY Zenon DEF Close, CloseWait
<1>2. Alive' = Alive /\ Holding' = Holding /\ Marking' = Marking
  BY <1>1, Zenon DEF Alive, Holding, Marking
<1>3. TypeOK'
  BY <1>1, Zenon DEF TypeOK, Close, CloseWait
<1>4. ClosersMatch'
  BY Zenon DEF TypeOK, ClosersMatch, Close, CloseWait
<1> QED BY <1>1, <1>2, <1>3, <1>4, Zenon DEF TokensBalance, KeysOfTasks, MarksMatch, Counted

\* The invariant holds of every behaviour.
LEMMA Invariance == Spec => []IInv
<1>1. IInv /\ [Next]_vars => IInv'
  <2> SUFFICES ASSUME IInv, [Next]_vars PROVE IInv'
    BY Zenon
  <2>1. CASE UNCHANGED vars
    <3>1. Alive' = Alive /\ Holding' = Holding /\ Marking' = Marking
      BY <2>1, Zenon DEF vars, Alive, Holding, Marking
    <3> QED BY <2>1, <3>1, Zenon DEF vars, IInv, TypeOK, TokensBalance, KeysOfTasks, MarksMatch, Counted, ClosersMatch
  <2> QED BY <2>1, ScheduleStep, StepStep, CloseStep, Zenon DEF Next
<1> QED BY <1>1, InitInv, PTL DEF Spec

-----------------------------------------------------------------------------
\* The types of the fields of RequestBound; the semaphore stays within its cap.
THEOREM TypeCorrect == Spec => []TypeOK
BY Invariance, PTL DEF IInv

\* The tokens taken are those the goroutines hold (Schedule and its deferred
\* release): none is lost and none is handed back twice, whatever the cap.
THEOREM TokenBalance == Spec => []TokensBalance
BY Invariance, PTL DEF IInv

\* No key is revalidated twice at a time (Schedule, inflight).
THEOREM Deduplication == Spec => []OneRunPerKey
<1>1. IInv => OneRunPerKey
  BY Zenon DEF IInv, MarksMatch, Marking, OneRunPerKey
<1> QED BY <1>1, Invariance, PTL

\* When a Close has returned no goroutine is alive (Close, wg).
THEOREM CloseFinality == Spec => []CloseIsFinal
<1>1. IInv => CloseIsFinal
  <2> SUFFICES ASSUME IInv, \E c \in Closers : closer[c] = "returned"
               PROVE  closed /\ \A g \in Tasks : task[g] = Idle
    BY Zenon DEF CloseIsFinal
  <2>1. closed /\ Cardinality(Alive) = 0
    BY Zenon DEF IInv, ClosersMatch, Counted
  <2>2. Alive = {}
    BY <2>1, FiniteTasks, FS_EmptySet, Zenon
  <2> QED BY <2>1, <2>2, Zenon DEF Alive, IInv, KeysOfTasks
<1> QED BY <1>1, Invariance, PTL

\* The WaitGroup never grows while a Close waits for it (Schedule, Close), as
\* sync.WaitGroup demands.
THEOREM AddBeforeWait == Spec => NoAddDuringWait
<1>1. IInv /\ [Next]_vars => [(\E c \in Closers : closer[c] = "wait") => wg' <= wg]_vars
  <2> SUFFICES ASSUME IInv, Next, \E c \in Closers : closer[c] = "wait" PROVE wg' <= wg
    BY Zenon
  <2>1. closed /\ wg \in Nat
    BY Zenon DEF IInv, ClosersMatch, TypeOK
  <2>2. wg' \in {wg, wg - 1}
    BY <2>1, Zenon DEF Next, Schedule, Step, Ran, Unmark, Release, Done, Close, CloseWait
  <2> QED BY <2>1, <2>2
<1> QED BY <1>1, Invariance, PTL DEF Spec, NoAddDuringWait

\* The request-bound refresher is a Refresher: Schedule launches, the unmarking
\* of the key finishes, the first Close closes, and the first Close to return
\* finds nothing in flight.  Every other step leaves the contract's state alone.
THEOREM Refinement == Spec => ImplementsRefresher
<1>1. Init => Contract!Init
  BY Zenon DEF Init, Contract!Init, Phase
<1>2. IInv /\ [Next]_vars => [Contract!Next]_(Contract!vars)
  <2> SUFFICES ASSUME IInv, [Next]_vars PROVE Contract!Next \/ UNCHANGED Contract!vars
    BY Zenon
  <2> USE DEF IInv
  <2>1. ASSUME NEW g \in Tasks, NEW k \in Keys, Schedule(g, k) PROVE Contract!Next
    <3>1. Phase = "open" /\ Phase' = Phase
      BY <2>1, Zenon DEF Schedule, Phase, ClosersMatch
    <3>2. Contract!Launch(k)
      BY <2>1, <3>1, Zenon DEF Schedule, Contract!Launch
    <3> QED BY <3>2, Zenon DEF Contract!Next
  <2>2. ASSUME NEW g \in Tasks, Unmark(g) PROVE Contract!Next
    <3>1. Phase' = Phase
      BY <2>2, Zenon DEF Unmark, Phase
    <3>2. task[g].key \in Keys /\ g \in Marking
      BY <2>2, Zenon DEF Unmark, KeysOfTasks, Marking
    <3>3. task[g].key \in inflight
      BY <3>2, Zenon DEF MarksMatch
    <3>4. Contract!Finish(task[g].key)
      BY <2>2, <3>1, <3>3, Zenon DEF Unmark, Contract!Finish
    <3> QED BY <3>2, <3>4, Zenon DEF Contract!Next
  <2>3. ASSUME NEW g \in Tasks, Ran(g) \/ Release(g) \/ Done(g) PROVE UNCHANGED Contract!vars
    BY <2>3 DEF Ran, Release, Done, Phase, Contract!vars
  <2>4. ASSUME NEW c \in Closers, Close(c) PROVE Contract!Next \/ UNCHANGED Contract!vars
    <3>0. /\ closer[c] = "idle" /\ closer \in [Closers -> {"idle", "wait", "returned"}]
          /\ closer' = [closer EXCEPT ![c] = "wait"] /\ closed' = TRUE /\ inflight' = inflight
      BY <2>4, Zenon DEF Close, TypeOK
    <3>1. (\E d \in Closers : closer'[d] = "returned") <=> (\E d \in Closers : closer[d] = "returned")
      BY <3>0, Zenon
    <3>2. CASE closed
      BY <3>0, <3>1, <3>2, Zenon DEF Phase, Contract!vars
    <3>3. CASE ~closed
      <4>1. Phase = "open" /\ Phase' = "closing"
        BY <3>0, <3>1, <3>3, Zenon DEF Phase, ClosersMatch
      <4> QED BY <3>0, <4>1, Zenon DEF Contract!Next, Contract!Close
    <3> QED BY <3>2, <3>3, Zenon
  <2>5. ASSUME NEW c \in Closers, CloseWait(c) PROVE Contract!Next \/ UNCHANGED Contract!vars
    <3>0. /\ closer[c] = "wait" /\ closer \in [Closers -> {"idle", "wait", "returned"}] /\ wg = 0
          /\ closer' = [closer EXCEPT ![c] = "returned"] /\ UNCHANGED <<closed, inflight>>
      BY <2>5, Zenon DEF CloseWait, TypeOK
    <3>1. Phase' = "closed" /\ Phase \in {"closing", "closed"}
      BY <3>0, Zenon DEF Phase, ClosersMatch
    <3>2. Alive = {}
      BY <3>0, FiniteTasks, FS_EmptySet, Zenon DEF Counted
    <3>3. inflight = {}
      BY <3>2, Zenon DEF Alive, Marking, MarksMatch, TypeOK
    <3> QED BY <3>0, <3>1, <3>3, Zenon DEF Contract!Next, Contract!CloseReturns, Contract!vars
  <2>6. CASE UNCHANGED vars
    BY <2>6, Zenon DEF vars, Phase, Contract!vars
  <2> QED BY <2>1, <2>2, <2>3, <2>4, <2>5, <2>6, Zenon DEF Next, Step
<1> QED BY <1>1, <1>2, Invariance, PTL DEF Spec, Contract!Spec, ImplementsRefresher

-----------------------------------------------------------------------------
(* The cache *)

Call == [pc : {"idle", "miss", "load", "wait", "index", "sweep"}, key : Keys \cup {NoKey},
         left : SUBSET Keys, due : SUBSET Keys]
Item == [age : {"none", "fresh", "stale"}, tagged : BOOLEAN]

\* A call that has missed, loads, waits or indexes has a key.
LocalCallsHaveKeys == \A x \in Callers : call[x].pc \in {"miss", "load", "wait", "index"} => call[x].key \in Keys

LocalInv == LocalTypeOK /\ LocalCallsHaveKeys /\ TaggedIsReachable /\ SweepIsComplete /\ FlightsAreLed

\* A new cache satisfies the invariant.
LEMMA LocalStarts == LocalInit => LocalInv
<1> SUFFICES ASSUME LocalInit PROVE LocalInv
  OBVIOUS
<1>1. NoCall \in Call /\ NoCall.pc = "idle" /\ NoEntry \in Item /\ NoEntry.tagged = FALSE
  BY Zenon DEF NoCall, Call, NoEntry, Item
<1>2. call \in [Callers -> Call] /\ l1 \in [Keys -> Item] /\ flight \in [Keys -> Callers \cup {NoCaller}]
  BY <1>1, Zenon DEF LocalInit
<1>3. LocalTypeOK
  BY <1>2, Zenon DEF LocalInit, LocalTypeOK, Call, Item
<1>4. LocalCallsHaveKeys /\ FlightsAreLed /\ Sweeping = {}
  BY <1>1, Zenon DEF LocalInit, LocalCallsHaveKeys, FlightsAreLed, Sweeping
<1>5. TaggedIsReachable /\ SweepIsComplete
  BY <1>1, <1>4, Zenon DEF LocalInit, TaggedIsReachable, SweepIsComplete
<1> QED BY <1>3, <1>4, <1>5, Zenon DEF LocalInv

\* Who has the keys that the tag leads to, without the sets.
LEMMA Views ==
    /\ \A k : k \in Taken <=> \E x \in Callers : call[x].pc = "sweep" /\ k \in call[x].left
    /\ \A k : k \in Indexing <=> \E x \in Callers : call[x].pc = "index" /\ call[x].key = k
BY Zenon DEF Taken, Sweeping, Indexing

\* An L1 write forgets a key in what the sweeps still owe, and no more.
LEMMA TouchStep ==
    ASSUME NEW calls \in [Callers -> Call], NEW k
    PROVE  /\ Touch(calls, k) \in [Callers -> Call]
           /\ \A x \in Callers : /\ Touch(calls, k)[x].pc = calls[x].pc /\ Touch(calls, k)[x].key = calls[x].key
                                 /\ Touch(calls, k)[x].left = calls[x].left
                                 /\ Touch(calls, k)[x].due = calls[x].due \ {k}
<1>1. \A x \in Callers : calls[x] \in Call
  BY Zenon
<1>2. \A x \in Callers : /\ [calls[x] EXCEPT !.due = @ \ {k}] \in Call
                         /\ [calls[x] EXCEPT !.due = @ \ {k}].pc = calls[x].pc
                         /\ [calls[x] EXCEPT !.due = @ \ {k}].key = calls[x].key
                         /\ [calls[x] EXCEPT !.due = @ \ {k}].left = calls[x].left
                         /\ [calls[x] EXCEPT !.due = @ \ {k}].due = calls[x].due \ {k}
  BY <1>1, Zenon DEF Call
<1> QED BY <1>2, Zenon DEF Touch

\* A step that leaves flights and their members alone.
LEMMA FlightsKeep ==
    ASSUME FlightsAreLed, flight' = flight,
           \A x \in Callers : call[x].pc \in {"load", "wait"} \/ call'[x].pc \in {"load", "wait"} =>
                                 call'[x].pc = call[x].pc /\ call'[x].key = call[x].key,
           flight \in [Keys -> Callers \cup {NoCaller}]
    PROVE  FlightsAreLed'
<1>1. \A x \in Callers : call'[x].pc = "load" => flight'[call'[x].key] = x
  BY ZenonT(30) DEF FlightsAreLed
<1>2. \A x \in Callers : call'[x].pc = "wait" => flight'[call'[x].key] # NoCaller
  BY DEF FlightsAreLed
<1>3. \A k \in Keys : flight'[k] # NoCaller => call'[flight'[k]].pc = "load" /\ call'[flight'[k]].key = k
  BY DEF FlightsAreLed
<1> QED BY <1>1, <1>2, <1>3, Zenon DEF FlightsAreLed

\* A step that leaves the index, its writers and its sweeps alone, and stores
\* nothing with the tag.
LEMMA TagsKeep ==
    ASSUME TaggedIsReachable, SweepIsComplete, tags' = tags,
           \A k \in Keys : l1'[k].tagged => l1[k].tagged,
           \A x \in Callers : call[x].pc \in {"index", "sweep"} \/ call'[x].pc \in {"index", "sweep"} =>
              /\ call'[x].pc = call[x].pc /\ call'[x].key = call[x].key
              /\ call'[x].left = call[x].left /\ call'[x].due \subseteq call[x].due
    PROVE  TaggedIsReachable' /\ SweepIsComplete'
<1>0. /\ \A k : k \in Taken' <=> \E x \in Callers : call'[x].pc = "sweep" /\ k \in call'[x].left
      /\ \A k : k \in Indexing' <=> \E x \in Callers : call'[x].pc = "index" /\ call'[x].key = k
  BY Zenon DEF Taken, Sweeping, Indexing
<1>1. (\A k : k \in Taken' <=> k \in Taken) /\ (\A k : k \in Indexing' <=> k \in Indexing)
  BY <1>0, Views
<1>2. TaggedIsReachable'
  BY <1>1, Zenon DEF TaggedIsReachable, Reachable
<1>3. \A x \in Callers : call'[x].pc = "sweep" => call'[x].due \subseteq Taken'
  BY <1>1, Zenon DEF SweepIsComplete, Sweeping
<1> QED BY <1>2, <1>3, Zenon DEF SweepIsComplete, Sweeping

-----------------------------------------------------------------------------
\* Reads, fills and the flights they share.
LEMMA FlightStep ==
    ASSUME LocalInv,
           \/ \E x \in Callers : Do(x) \/ Fill(x) \/ FillError(x) \/ \E k \in Keys : GetOrLoadMiss(x, k)
    PROVE  LocalInv'
<1> USE DEF LocalInv
<1>0. /\ call \in [Callers -> Call] /\ l1 \in [Keys -> Item] /\ flight \in [Keys -> Callers \cup {NoCaller}]
      /\ tags \subseteq Keys /\ refresh \subseteq Keys
  BY Zenon DEF LocalTypeOK, Call, Item
<1>1. NoCall \in Call /\ NoCall.pc = "idle"
  BY Zenon DEF NoCall, Call
<1>2. ASSUME NEW x \in Callers, NEW k \in Keys, GetOrLoadMiss(x, k) PROVE LocalInv'
  <2>0. /\ call[x].pc = "idle" /\ UNCHANGED <<l1, tags, flight, refresh>>
    BY <1>1, <1>2, Zenon DEF GetOrLoadMiss
  <2>1. PICK c : c = [NoCall EXCEPT !.pc = "miss", !.key = k]
    BY Zenon
  <2>2. c \in Call /\ c.pc = "miss" /\ c.key = k
    BY <2>1, Zenon DEF NoCall, Call
  <2>3. call' = [call EXCEPT ![x] = c]
    BY <1>2, <2>1, Zenon DEF GetOrLoadMiss
  <2>4. /\ call' \in [Callers -> Call] /\ call'[x].pc = "miss" /\ call'[x].key = k
        /\ \A y \in Callers \ {x} : call'[y] = call[y]
    BY <1>0, <2>2, <2>3, Zenon
  <2>5. TaggedIsReachable' /\ SweepIsComplete'
    BY <2>0, <2>4, TagsKeep, Zenon
  <2>6. FlightsAreLed'
    BY <1>0, <2>0, <2>4, FlightsKeep, Zenon
  <2>7. LocalTypeOK' /\ LocalCallsHaveKeys'
    BY <1>0, <2>0, <2>4, Zenon DEF LocalTypeOK, Call, Item, LocalCallsHaveKeys
  <2> QED BY <2>5, <2>6, <2>7, Zenon
<1>4. ASSUME NEW x \in Callers, Do(x) PROVE LocalInv'
  <2>0. /\ call[x].pc = "miss" /\ UNCHANGED <<l1, tags, refresh>>
    BY <1>4, Zenon DEF Do
  <2> DEFINE k == call[x].key
  <2>1. k \in Keys
    BY <2>0, Zenon DEF LocalCallsHaveKeys
  <2>2. PICK pc \in {"load", "wait"} :
           /\ call' = [call EXCEPT ![x].pc = pc]
           /\ IF pc = "load" THEN flight[k] = NoCaller /\ flight' = [flight EXCEPT ![k] = x]
                             ELSE flight[k] # NoCaller /\ flight' = flight
    BY <1>4, Zenon DEF Do
  <2>3. /\ call' \in [Callers -> Call] /\ call'[x].pc = pc /\ call'[x].key = k
        /\ \A y \in Callers \ {x} : call'[y] = call[y]
    <3>1. PICK c : c = [call[x] EXCEPT !.pc = pc]
      BY Zenon
    <3>2. c \in Call /\ c.pc = pc /\ c.key = k
      BY <1>0, <3>1 DEF Call
    <3>3. call' = [call EXCEPT ![x] = c]
      BY <2>2, <3>1, Zenon
    <3> QED BY <1>0, <3>2, <3>3, Zenon
  <2> HIDE DEF k
  <2>4. TaggedIsReachable' /\ SweepIsComplete'
    BY <2>0, <2>3, TagsKeep, Zenon
  <2>5. flight' \in [Keys -> Callers \cup {NoCaller}]
    BY <1>0, <2>1, <2>2, Zenon
  <2>6. LocalTypeOK' /\ LocalCallsHaveKeys'
    BY <1>0, <2>0, <2>1, <2>3, <2>5, Zenon DEF LocalTypeOK, Call, Item, LocalCallsHaveKeys
  <2>7. FlightsAreLed'
    <3>1. CASE pc = "load"
      <4>1. /\ flight'[k] = x /\ \A q \in Keys \ {k} : flight'[q] = flight[q]
            /\ \A y \in Callers : call[y].pc \in {"load", "wait"} => call[y].key # k /\ y # x
            /\ \A q \in Keys : flight[q] # x
        BY <1>0, <2>0, <2>1, <2>2, <3>1, KeyAssumption, CallerAssumption DEF FlightsAreLed
      <4> QED BY <1>0, <2>1, <2>3, <3>1, <4>1, KeyAssumption, CallerAssumption DEF FlightsAreLed, LocalCallsHaveKeys
    <3>2. CASE pc = "wait"
      <4>1. \A q \in Keys : flight[q] # x
        BY <1>0, <2>0, KeyAssumption, CallerAssumption, Zenon DEF FlightsAreLed
      <4> QED BY <1>0, <2>1, <2>2, <2>3, <3>2, <4>1 DEF FlightsAreLed
    <3> QED BY <3>1, <3>2, Zenon
  <2> QED BY <2>4, <2>6, <2>7, Zenon
<1>3. ASSUME NEW x \in Callers, Fill(x) \/ FillError(x) PROVE LocalInv'
  <2> DEFINE k == call[x].key
             calls == Land(x, k)
  <2>0. k \in Keys /\ call[x].pc = "load" /\ flight[k] = x /\ UNCHANGED <<tags, refresh>>
        /\ flight' = [flight EXCEPT ![k] = NoCaller]
    BY <1>3, Zenon DEF Fill, FillError, LocalCallsHaveKeys, FlightsAreLed
  <2>1. calls \in [Callers -> Call]
    BY <1>0, <1>1, Zenon DEF Land
  <2>2. \A y \in Callers : calls[y] = IF y = x \/ (call[y].pc = "wait" /\ call[y].key = k) THEN NoCall ELSE call[y]
    BY Zenon DEF Land
  <2>3. call' = calls \/ call' = Touch(calls, k)
    BY <1>3, Zenon DEF Fill, FillError
  <2> HIDE DEF calls
  <2>4. /\ call' \in [Callers -> Call]
        /\ \A y \in Callers : /\ call'[y].pc = calls[y].pc /\ call'[y].key = calls[y].key
                              /\ call'[y].left = calls[y].left /\ call'[y].due \subseteq calls[y].due
    <3>1. CASE call' = calls
      BY <2>1, <3>1, Zenon
    <3>2. CASE call' = Touch(calls, k)
      BY <2>1, <3>2, TouchStep
    <3> QED BY <2>3, <3>1, <3>2, Zenon
  <2>5. l1' \in [Keys -> Item] /\ \A q \in Keys : l1'[q].tagged => l1[q].tagged
    <3>1. Stored(FALSE) \in Item /\ Stored(FALSE).tagged = FALSE
      BY Zenon DEF Stored, Item
    <3>2. CASE l1' = l1
      BY <1>0, <3>2, Zenon
    <3>3. CASE l1' = [l1 EXCEPT ![k] = Stored(FALSE)]
      BY <1>0, <2>0, <3>1, <3>3, Zenon
    <3> QED BY <1>3, <3>2, <3>3, Zenon DEF Fill, FillError, Put
  <2>6. \A y \in Callers : \/ call'[y].pc = "idle" /\ (y = x \/ (call[y].pc = "wait" /\ call[y].key = k))
                           \/ /\ y # x /\ ~(call[y].pc = "wait" /\ call[y].key = k)
                              /\ call'[y].pc = call[y].pc /\ call'[y].key = call[y].key
                              /\ call'[y].left = call[y].left /\ call'[y].due \subseteq call[y].due
    BY <1>1, <2>2, <2>4
  <2>7. TaggedIsReachable' /\ SweepIsComplete'
    BY <2>0, <2>5, <2>6, TagsKeep, Zenon
  <2>8. flight' \in [Keys -> Callers \cup {NoCaller}] /\ flight'[k] = NoCaller
        /\ \A q \in Keys \ {k} : flight'[q] = flight[q]
    BY <1>0, <2>0, Zenon
  <2>9. LocalTypeOK'
    BY <1>0, <2>0, <2>4, <2>5, <2>8, Zenon DEF LocalTypeOK, Call, Item
  <2>10. LocalCallsHaveKeys'
    BY <2>6, Zenon DEF LocalCallsHaveKeys
  <2>11. FlightsAreLed'
    <3>1. \A y \in Callers : call'[y].pc \in {"load", "wait"} =>
             /\ y # x /\ call'[y].pc = call[y].pc /\ call'[y].key = call[y].key /\ call[y].key # k
             /\ call[y].key \in Keys
      BY <2>0, <2>6 DEF FlightsAreLed, LocalCallsHaveKeys
    <3>2. \A q \in Keys \ {k} : flight[q] # NoCaller =>
             /\ flight[q] \in Callers /\ flight[q] # x /\ call[flight[q]].pc = "load"
             /\ call'[flight[q]].pc = "load" /\ call'[flight[q]].key = q
      BY <1>0, <2>0, <2>6 DEF FlightsAreLed
    <3> QED BY <2>8, <3>1, <3>2 DEF FlightsAreLed
  <2> QED BY <2>7, <2>9, <2>10, <2>11, Zenon
<1> QED BY <1>2, <1>3, <1>4, Zenon

\* What happens to L1 from outside the calls.
LEMMA EntryStep ==
    ASSUME LocalInv, NEW k \in Keys, GetOrLoadStale(k) \/ Refresh(k) \/ Invalidate(k) \/ Age(k)
    PROVE  LocalInv'
<1> USE DEF LocalInv
<1>0. /\ call \in [Callers -> Call] /\ l1 \in [Keys -> Item] /\ flight \in [Keys -> Callers \cup {NoCaller}]
      /\ l1[k] \in Item
  BY Zenon DEF LocalTypeOK, Call, Item
<1>1. UNCHANGED <<tags, flight>> /\ refresh' \subseteq Keys
  BY Zenon DEF GetOrLoadStale, Refresh, Invalidate, Age, LocalTypeOK
<1>2. call' = call \/ call' = Touch(call, k)
  BY Zenon DEF GetOrLoadStale, Refresh, Invalidate, Age
<1>3. /\ call' \in [Callers -> Call]
      /\ \A y \in Callers : /\ call'[y].pc = call[y].pc /\ call'[y].key = call[y].key
                            /\ call'[y].left = call[y].left /\ call'[y].due \subseteq call[y].due
  <2>1. CASE call' = call
    BY <1>0, <2>1, Zenon
  <2>2. CASE call' = Touch(call, k)
    BY <1>0, <2>2, TouchStep
  <2> QED BY <1>2, <2>1, <2>2, Zenon
<1>4. l1' \in [Keys -> Item] /\ \A q \in Keys : l1'[q].tagged => l1[q].tagged
  <2> DEFINE aged == [l1[k] EXCEPT !.age = "stale"]
  <2>1. /\ NoEntry \in Item /\ NoEntry.tagged = FALSE /\ Stored(FALSE) \in Item /\ Stored(FALSE).tagged = FALSE
        /\ aged \in Item /\ aged.tagged = l1[k].tagged
    BY <1>0, Zenon DEF NoEntry, Stored, Item
  <2>2. \/ l1' = l1
        \/ \E e \in {NoEntry, Stored(FALSE), aged} : l1' = [l1 EXCEPT ![k] = e]
    BY Zenon DEF GetOrLoadStale, Refresh, Invalidate, Age, Put
  <2> HIDE DEF aged
  <2> QED BY <1>0, <2>1, <2>2, Zenon
<1>5. TaggedIsReachable' /\ SweepIsComplete'
  BY <1>1, <1>3, <1>4, TagsKeep, Zenon
<1>6. FlightsAreLed'
  BY <1>0, <1>1, <1>3, FlightsKeep, Zenon
<1>7. LocalTypeOK' /\ LocalCallsHaveKeys'
  BY <1>0, <1>1, <1>3, <1>4, Zenon DEF LocalTypeOK, Call, Item, LocalCallsHaveKeys
<1> QED BY <1>5, <1>6, <1>7, Zenon

-----------------------------------------------------------------------------
\* Set, up to the L1 write.
LEMMA SetStep ==
    ASSUME LocalInv, NEW x \in Callers, NEW k \in Keys, NEW tagged \in BOOLEAN, Set(x, k, tagged)
    PROVE  LocalInv'
<1> USE DEF LocalInv
<1> DEFINE c == [NoCall EXCEPT !.pc = "index", !.key = k]
           calls == IF tagged THEN [call EXCEPT ![x] = c] ELSE call
<1>0. /\ call \in [Callers -> Call] /\ l1 \in [Keys -> Item] /\ flight \in [Keys -> Callers \cup {NoCaller}]
      /\ call[x].pc = "idle" /\ UNCHANGED <<tags, flight, refresh>> /\ call' = Touch(calls, k)
  BY DEF LocalTypeOK, Call, Item, Set, NoCall
<1>1. c \in Call /\ c.pc = "index" /\ c.key = k
  BY Zenon DEF NoCall, Call
<1>2. /\ calls \in [Callers -> Call] /\ \A y \in Callers \ {x} : calls[y] = call[y]
      /\ IF tagged THEN calls[x].pc = "index" /\ calls[x].key = k ELSE calls[x] = call[x]
  BY <1>0, <1>1, Zenon
<1> HIDE DEF c, calls
<1>3. /\ call' \in [Callers -> Call]
      /\ \A y \in Callers : /\ call'[y].pc = calls[y].pc /\ call'[y].key = calls[y].key
                            /\ call'[y].left = calls[y].left /\ call'[y].due = calls[y].due \ {k}
  BY <1>0, <1>2, TouchStep
<1>4. Stored(tagged) \in Item /\ Stored(tagged).tagged = tagged
  BY Zenon DEF Stored, Item
<1>5. l1' \in [Keys -> Item] /\ l1'[k].tagged = tagged /\ \A q \in Keys \ {k} : l1'[q] = l1[q]
  BY <1>0, <1>4, Zenon DEF Set, Put
<1>6. /\ \A q : q \in Taken' <=> \E y \in Callers : call'[y].pc = "sweep" /\ q \in call'[y].left
      /\ \A q : q \in Indexing' <=> \E y \in Callers : call'[y].pc = "index" /\ call'[y].key = q
  BY Zenon DEF Taken, Sweeping, Indexing
<1>7. /\ \A q : q \in Taken' <=> q \in Taken
      /\ \A q : q \in Indexing => q \in Indexing'
      /\ tagged => k \in Indexing'
  BY <1>0, <1>2, <1>3, <1>6, Views, SMTT(30)
<1>8. TaggedIsReachable'
  BY <1>0, <1>5, <1>7, Zenon DEF TaggedIsReachable, Reachable
<1>9. \A y \in Callers : call'[y].pc = "sweep" => call'[y].due \subseteq Taken'
  BY <1>0, <1>2, <1>3, <1>7 DEF SweepIsComplete, Sweeping
<1>10. SweepIsComplete'
  BY <1>9, Zenon DEF SweepIsComplete, Sweeping
<1>11. FlightsAreLed'
  BY <1>0, <1>2, <1>3, FlightsKeep
<1>12. LocalTypeOK'
  BY <1>0, <1>3, <1>5, Zenon DEF LocalTypeOK, Call, Item
<1>13. LocalCallsHaveKeys'
  BY <1>2, <1>3 DEF LocalCallsHaveKeys
<1> QED BY <1>8, <1>10, <1>11, <1>12, <1>13, Zenon

\* The critical sections of the index: a key enters it, or a sweep takes it all.
LEMMA IndexStep ==
    ASSUME LocalInv, NEW x \in Callers, indexTags(x) \/ InvalidateTag(x)
    PROVE  LocalInv'
<1> USE DEF LocalInv
<1>0. /\ call \in [Callers -> Call] /\ l1 \in [Keys -> Item] /\ flight \in [Keys -> Callers \cup {NoCaller}]
      /\ tags \subseteq Keys /\ UNCHANGED <<l1, flight, refresh>>
  BY Zenon DEF LocalTypeOK, Call, Item, indexTags, InvalidateTag
<1>1. NoCall \in Call /\ NoCall.pc = "idle"
  BY Zenon DEF NoCall, Call
<1>2. /\ \A q : q \in Taken' <=> \E y \in Callers : call'[y].pc = "sweep" /\ q \in call'[y].left
      /\ \A q : q \in Indexing' <=> \E y \in Callers : call'[y].pc = "index" /\ call'[y].key = q
  BY Zenon DEF Taken, Sweeping, Indexing
<1>3. CASE indexTags(x)
  <2>0. call[x].pc = "index" /\ call[x].key \in Keys /\ tags' = tags \cup {call[x].key}
    BY <1>3, Zenon DEF indexTags, LocalCallsHaveKeys
  <2>1. /\ call' \in [Callers -> Call] /\ call'[x].pc = "idle"
        /\ \A y \in Callers \ {x} : call'[y] = call[y]
    BY <1>0, <1>1, <1>3, Zenon DEF indexTags, Return
  <2>2. /\ \A q : q \in Taken' <=> q \in Taken
        /\ \A q : q \in Indexing => q \in Indexing' \/ q = call[x].key
    BY <1>2, <2>0, <2>1, Views
  <2>3. TaggedIsReachable'
    BY <1>0, <2>0, <2>2, Zenon DEF TaggedIsReachable, Reachable
  <2>4. \A y \in Callers : call'[y].pc = "sweep" => call'[y].due \subseteq Taken'
    BY <2>1, <2>2, Zenon DEF SweepIsComplete, Sweeping
  <2>5. FlightsAreLed'
    BY <1>0, <2>0, <2>1, FlightsKeep, Zenon
  <2>6. LocalTypeOK' /\ LocalCallsHaveKeys'
    BY <1>0, <2>0, <2>1, Zenon DEF LocalTypeOK, Call, Item, LocalCallsHaveKeys
  <2>7. SweepIsComplete'
    BY <2>4, Zenon DEF SweepIsComplete, Sweeping
  <2> QED BY <2>3, <2>5, <2>6, <2>7, Zenon
<1>4. CASE InvalidateTag(x)
  <2> DEFINE c == [NoCall EXCEPT !.pc = "sweep", !.left = tags, !.due = Due]
  <2>0. call[x].pc = "idle" /\ tags' = {} /\ call' = [call EXCEPT ![x] = c]
    BY <1>1, <1>4, Zenon DEF InvalidateTag
  <2>1. \A q \in Due : q \in tags \/ q \in Taken
    BY Zenon DEF Due, Reachable
  <2>2. \A q : q \in Taken => q \in Keys
    BY <1>0, Views, Zenon DEF Call
  <2>3. Due \subseteq Keys
    BY <1>0, <2>1, <2>2, Zenon
  <2>4. c \in Call /\ c.pc = "sweep" /\ c.left = tags /\ c.due = Due
    BY <1>0, <2>3, Zenon DEF NoCall, Call
  <2> HIDE DEF c
  <2>5. /\ call' \in [Callers -> Call] /\ call'[x].pc = "sweep" /\ call'[x].left = tags /\ call'[x].due = Due
        /\ \A y \in Callers \ {x} : call'[y] = call[y]
    BY <1>0, <2>0, <2>4, Zenon
  <2>6. /\ \A q : q \in Taken' <=> q \in Taken \/ q \in tags
        /\ \A q : q \in Indexing => q \in Indexing'
    BY <1>2, <2>0, <2>5, Views
  <2>7. TaggedIsReachable'
    BY <1>0, <2>6, Zenon DEF TaggedIsReachable, Reachable
  <2>8. \A y \in Callers : call'[y].pc = "sweep" => call'[y].due \subseteq Taken'
    BY <2>1, <2>5, <2>6, Zenon DEF SweepIsComplete, Sweeping
  <2>9. SweepIsComplete'
    BY <2>8 DEF SweepIsComplete, Sweeping
  <2>10. FlightsAreLed'
    BY <1>0, <2>0, <2>5, FlightsKeep, Zenon
  <2>11. LocalTypeOK' /\ LocalCallsHaveKeys'
    BY <1>0, <2>0, <2>5, Zenon DEF LocalTypeOK, Call, Item, LocalCallsHaveKeys
  <2> QED BY <2>7, <2>9, <2>10, <2>11, Zenon
<1> QED BY <1>3, <1>4, Zenon

\* A sweep deletes a key, and returns when none is left.
LEMMA SweepStep ==
    ASSUME LocalInv, NEW x \in Callers, SweepReturn(x) \/ \E k \in Keys : Sweep(x, k)
    PROVE  LocalInv'
<1> USE DEF LocalInv
<1>0. /\ call \in [Callers -> Call] /\ l1 \in [Keys -> Item] /\ flight \in [Keys -> Callers \cup {NoCaller}]
      /\ call[x].pc = "sweep" /\ UNCHANGED <<tags, flight, refresh>>
  BY Zenon DEF LocalTypeOK, Call, Item, SweepReturn, Sweep
<1>1. NoCall \in Call /\ NoCall.pc = "idle"
  BY Zenon DEF NoCall, Call
<1>2. /\ \A q : q \in Taken' <=> \E y \in Callers : call'[y].pc = "sweep" /\ q \in call'[y].left
      /\ \A q : q \in Indexing' <=> \E y \in Callers : call'[y].pc = "index" /\ call'[y].key = q
  BY Zenon DEF Taken, Sweeping, Indexing
<1>3. CASE SweepReturn(x)
  <2>1. /\ call' \in [Callers -> Call] /\ call'[x].pc = "idle" /\ call[x].left = {} /\ l1' = l1
        /\ \A y \in Callers \ {x} : call'[y] = call[y]
    BY <1>0, <1>1, <1>3, Zenon DEF SweepReturn, Return
  <2>2. /\ \A q : q \in Taken' <=> q \in Taken
        /\ \A q : q \in Indexing => q \in Indexing'
    BY <1>0, <1>2, <2>1, Views
  <2>3. TaggedIsReachable'
    BY <1>0, <2>1, <2>2, Zenon DEF TaggedIsReachable, Reachable
  <2>4. \A y \in Callers : call'[y].pc = "sweep" => call'[y].due \subseteq Taken'
    BY <2>1, <2>2, Zenon DEF SweepIsComplete, Sweeping
  <2>5. SweepIsComplete'
    BY <2>4, Zenon DEF SweepIsComplete, Sweeping
  <2>6. FlightsAreLed'
    BY <1>0, <2>1, FlightsKeep, Zenon
  <2>7. LocalTypeOK' /\ LocalCallsHaveKeys'
    BY <1>0, <2>1, Zenon DEF LocalTypeOK, Call, Item, LocalCallsHaveKeys
  <2> QED BY <2>3, <2>5, <2>6, <2>7, Zenon
<1>4. ASSUME NEW k \in Keys, Sweep(x, k) PROVE LocalInv'
  <2> DEFINE c == [call[x] EXCEPT !.left = @ \ {k}]
             calls == [call EXCEPT ![x] = c]
  <2>0. call' = Touch(calls, k) /\ l1' = [l1 EXCEPT ![k] = NoEntry]
    BY <1>4, Zenon DEF Sweep, Put
  <2>1. c \in Call /\ c.pc = "sweep" /\ c.key = call[x].key /\ c.left = call[x].left \ {k} /\ c.due = call[x].due
    BY <1>0, Zenon DEF Call
  <2> HIDE DEF c
  <2>2. calls \in [Callers -> Call] /\ calls[x] = c /\ \A y \in Callers \ {x} : calls[y] = call[y]
    BY <1>0, <2>1, Zenon
  <2> HIDE DEF calls
  <2>3. /\ call' \in [Callers -> Call]
        /\ \A y \in Callers : /\ call'[y].pc = call[y].pc /\ call'[y].key = call[y].key
                              /\ call'[y].due = call[y].due \ {k}
                              /\ \A q : q # k /\ q \in call[y].left => q \in call'[y].left
    <3>1. /\ call' \in [Callers -> Call]
          /\ \A y \in Callers : /\ call'[y].pc = calls[y].pc /\ call'[y].key = calls[y].key
                                /\ call'[y].left = calls[y].left /\ call'[y].due = calls[y].due \ {k}
      BY <2>0, <2>2, TouchStep
    <3>2. \A y \in Callers : /\ calls[y].pc = call[y].pc /\ calls[y].key = call[y].key /\ calls[y].due = call[y].due
                             /\ \A q : q # k /\ q \in call[y].left => q \in calls[y].left
      BY <1>0, <2>1, <2>2, Zenon
    <3> QED BY <3>1, <3>2, Zenon
  <2>4. l1' \in [Keys -> Item] /\ l1'[k].tagged = FALSE /\ \A q \in Keys \ {k} : l1'[q] = l1[q]
    BY <1>0, <2>0, Zenon DEF NoEntry, Item
  <2>5. /\ \A q : q # k /\ q \in Taken => q \in Taken'
        /\ \A q : q \in Indexing => q \in Indexing'
    BY <1>2, <2>3, Views
  <2>6. TaggedIsReachable'
    BY <1>0, <2>4, <2>5, Zenon DEF TaggedIsReachable, Reachable
  <2>7. \A y \in Callers : call'[y].pc = "sweep" => call'[y].due \subseteq Taken'
    BY <2>3, <2>5, Zenon DEF SweepIsComplete, Sweeping
  <2>8. SweepIsComplete'
    BY <2>7, Zenon DEF SweepIsComplete, Sweeping
  <2>9. FlightsAreLed'
    BY <1>0, <2>3, FlightsKeep, Zenon
  <2>10. LocalTypeOK' /\ LocalCallsHaveKeys'
    BY <1>0, <2>3, <2>4, Zenon DEF LocalTypeOK, Call, Item, LocalCallsHaveKeys
  <2> QED BY <2>6, <2>8, <2>9, <2>10, Zenon
<1> QED BY <1>3, <1>4, Zenon

-----------------------------------------------------------------------------
\* Every step of a caller, of the refresher and of the environment keeps the
\* invariant.
LEMMA LocalStep == LocalInv /\ [LocalNext]_localVars => LocalInv'
<1> SUFFICES ASSUME LocalInv, [LocalNext]_localVars PROVE LocalInv'
  BY Zenon
<1>1. CASE UNCHANGED localVars
  <2>1. LocalTypeOK' /\ LocalCallsHaveKeys' /\ FlightsAreLed'
    BY <1>1, Zenon DEF localVars, LocalInv, LocalTypeOK, LocalCallsHaveKeys, FlightsAreLed
  <2>2. TaggedIsReachable' /\ SweepIsComplete'
    BY <1>1, Zenon DEF localVars, LocalInv, TaggedIsReachable, SweepIsComplete, Reachable, Taken,
                Sweeping, Indexing
  <2> QED BY <2>1, <2>2, Zenon DEF LocalInv
<1>2. ASSUME NEW x \in Callers, NEW k \in Keys, GetOrLoadMiss(x, k) PROVE LocalInv'
  BY <1>2, FlightStep, Zenon
<1>3. ASSUME NEW x \in Callers, NEW k \in Keys, NEW tagged \in BOOLEAN, Set(x, k, tagged) PROVE LocalInv'
  BY <1>3, SetStep, Zenon
<1>4. ASSUME NEW x \in Callers, InvalidateTag(x) \/ Proceed(x) PROVE LocalInv'
  BY <1>4, FlightStep, IndexStep, SweepStep, Zenon DEF Proceed
<1>5. ASSUME NEW k \in Keys, GetOrLoadStale(k) \/ Refresh(k) \/ Invalidate(k) \/ Age(k) PROVE LocalInv'
  BY <1>5, EntryStep, Zenon
<1> QED BY <1>1, <1>2, <1>3, <1>4, <1>5, Zenon DEF LocalNext

\* The invariant holds of every behaviour.
LEMMA LocalInvariance == LocalSpec => []LocalInv
<1>1. LocalInv /\ [LocalNext]_localVars => LocalInv'
  BY LocalStep, Zenon
<1> QED BY <1>1, LocalStarts, PTL DEF LocalSpec

\* L1, the index, the flights and the calls keep their types (cache.go without
\* an L2), for any keys and callers.
THEOREM LocalTypeCorrect == LocalSpec => []LocalTypeOK
<1>1. LocalInv => LocalTypeOK
  BY Zenon DEF LocalInv
<1> QED BY <1>1, LocalInvariance, PTL

\* A tagged entry is never out of reach of its tag (Set, indexTags,
\* InvalidateTag), for any keys and callers.
THEOREM TagReach == LocalSpec => []TaggedIsReachable
<1>1. LocalInv => TaggedIsReachable
  BY Zenon DEF LocalInv
<1> QED BY <1>1, LocalInvariance, PTL

\* A sweep accounts for every entry it could reach when it began (InvalidateTag),
\* for any number of sweeps at once.
THEOREM SweepComplete == LocalSpec => []SweepIsComplete
<1>1. LocalInv => SweepIsComplete
  BY Zenon DEF LocalInv
<1> QED BY <1>1, LocalInvariance, PTL

\* A miss is loaded by the leader of its flight alone, and nobody waits for a
\* flight that has landed (GetOrLoad, singleflight), for any keys and callers.
THEOREM FlightsLed == LocalSpec => []FlightsAreLed
<1>1. LocalInv => FlightsAreLed
  BY Zenon DEF LocalInv
<1> QED BY <1>1, LocalInvariance, PTL
==============================================================================
