---------------------------- MODULE RequestBound ----------------------------
(***************************************************************************)
(* refresh.RequestBound: every revalidation runs on a goroutine of its own, *)
(* with a counting semaphore over all of them and a mutex around the set of *)
(* keys in flight.  A critical section is one step; the deferred calls of a *)
(* goroutine are steps of their own, in the order in which they run.        *)
(***************************************************************************)
EXTENDS Keyspace, Naturals, FiniteSets

CONSTANTS Tasks,           \* bound: goroutines alive at a time
          Closers,         \* callers of Close
          MaxConcurrent    \* capacity of the semaphore

ASSUME CapAssumption == MaxConcurrent \in Nat \ {0}
ASSUME TaskAssumption == IsFiniteSet(Tasks)

VARIABLES inflight,   \* the keys with a revalidation in flight
          sem,        \* tokens taken from the semaphore
          closed,
          wg,         \* the counter of the WaitGroup
          task,       \* task[g]: where goroutine g is, and the key it is for
          closer      \* closer[c]: where a call of Close is

vars == <<inflight, sem, closed, wg, task, closer>>

Idle == [pc |-> "none", key |-> NoKey]

-----------------------------------------------------------------------------
\* A Schedule that counts its goroutine only once it runs.
ScheduleAddLate(g, k) ==
    /\ task[g] = Idle
    /\ ~closed /\ k \notin inflight /\ sem < MaxConcurrent
    /\ sem' = sem + 1
    /\ inflight' = inflight \cup {k}
    /\ task' = [task EXCEPT ![g] = [pc |-> "run", key |-> k]]
    /\ UNCHANGED <<closed, wg, closer>>

\* A Schedule that does not look for a revalidation of the key in flight.
ScheduleAgain(g, k) ==
    /\ task[g] = Idle
    /\ ~closed /\ sem < MaxConcurrent
    /\ sem' = sem + 1
    /\ inflight' = inflight \cup {k}
    /\ wg' = wg + 1
    /\ task' = [task EXCEPT ![g] = [pc |-> "run", key |-> k]]
    /\ UNCHANGED <<closed, closer>>

ScheduleAfterClose(g, k) ==
    /\ task[g] = Idle
    /\ k \notin inflight /\ sem < MaxConcurrent
    /\ sem' = sem + 1
    /\ inflight' = inflight \cup {k}
    /\ wg' = wg + 1
    /\ task' = [task EXCEPT ![g] = [pc |-> "run", key |-> k]]
    /\ UNCHANGED <<closed, closer>>

\* Schedule that launches.  When the refresher is closed, the key in flight or
\* the semaphore full, it returns false and nothing changes.
Schedule(g, k) ==
    /\ task[g] = Idle
    /\ ~closed /\ k \notin inflight /\ sem < MaxConcurrent
    /\ sem' = sem + 1
    /\ inflight' = inflight \cup {k}
    /\ wg' = wg + 1
    /\ task' = [task EXCEPT ![g] = [pc |-> "run", key |-> k]]
    /\ UNCHANGED <<closed, closer>>

Goto(g, pc) == task' = [task EXCEPT ![g] = [pc |-> pc, key |-> task[g].key]]

\* run returns, by itself or because its context timed out.
Ran(g) ==
    /\ task[g].pc = "run" /\ Goto(g, "unmark")
    /\ UNCHANGED <<inflight, sem, closed, wg, closer>>

\* A clean-up that keeps the token of the goroutine.
UnmarkLeak(g) ==
    /\ task[g].pc = "unmark" /\ Goto(g, "done")
    /\ inflight' = inflight \ {task[g].key}
    /\ UNCHANGED <<sem, closed, wg, closer>>

\* A clean-up that forgets the key.
UnmarkForgets(g) ==
    /\ task[g].pc = "unmark" /\ Goto(g, "release")
    /\ UNCHANGED <<inflight, sem, closed, wg, closer>>

Unmark(g) ==
    /\ task[g].pc = "unmark" /\ Goto(g, "release")
    /\ inflight' = inflight \ {task[g].key}
    /\ UNCHANGED <<sem, closed, wg, closer>>

Release(g) ==
    /\ task[g].pc = "release" /\ Goto(g, "done")
    /\ sem > 0 /\ sem' = sem - 1
    /\ UNCHANGED <<inflight, closed, wg, closer>>

\* A goroutine that goes without telling the WaitGroup.
DoneUncounted(g) ==
    /\ task[g].pc = "done"
    /\ task' = [task EXCEPT ![g] = Idle]
    /\ UNCHANGED <<inflight, sem, closed, wg, closer>>

Done(g) ==
    /\ task[g].pc = "done"
    /\ task' = [task EXCEPT ![g] = Idle]
    /\ wg' = wg - 1
    /\ UNCHANGED <<inflight, sem, closed, closer>>

-----------------------------------------------------------------------------
\* A Close that waits for what is in flight and leaves the door open.
CloseOpen(c) ==
    /\ closer[c] = "idle"
    /\ closer' = [closer EXCEPT ![c] = "wait"]
    /\ UNCHANGED <<inflight, sem, closed, wg, task>>

Close(c) ==
    /\ closer[c] = "idle"
    /\ closed' = TRUE
    /\ closer' = [closer EXCEPT ![c] = "wait"]
    /\ UNCHANGED <<inflight, sem, wg, task>>

CloseWait(c) ==
    /\ closer[c] = "wait" /\ wg = 0
    /\ closer' = [closer EXCEPT ![c] = "returned"]
    /\ UNCHANGED <<inflight, sem, closed, wg, task>>

Init ==
    /\ inflight = {} /\ sem = 0 /\ closed = FALSE /\ wg = 0
    /\ task = [g \in Tasks |-> Idle]
    /\ closer = [c \in Closers |-> "idle"]

Step(g) == Ran(g) \/ Unmark(g) \/ Release(g) \/ Done(g)

Next ==
    \/ \E g \in Tasks : (\E k \in Keys : Schedule(g, k)) \/ Step(g)
    \/ \E c \in Closers : Close(c) \/ CloseWait(c)

\* Goroutines that can run do run, and a revalidation returns at the latest
\* when its timeout cancels its context.
Fairness == /\ \A g \in Tasks : WF_vars(Step(g))
            /\ \A c \in Closers : WF_vars(CloseWait(c))

Spec == Init /\ [][Next]_vars /\ Fairness

-----------------------------------------------------------------------------
\* The types of the fields of RequestBound and of its callers; the semaphore is
\* within its capacity.
TypeOK ==
    /\ inflight \subseteq Keys
    /\ sem \in 0..MaxConcurrent
    /\ closed \in BOOLEAN
    /\ wg \in Nat
    /\ task \in [Tasks -> [pc : {"none", "run", "unmark", "release", "done"},
                           key : Keys \cup {NoKey}]]
    /\ closer \in [Closers -> {"idle", "wait", "returned"}]

Holding == {g \in Tasks : task[g].pc \in {"run", "unmark", "release"}}

\* The cap and its tokens (Schedule, the deferred release): the goroutines that
\* hold a token are as many as the tokens taken, so that the cap is on running
\* revalidations, none is lost and none is handed back twice.
TokensBalance == sem = Cardinality(Holding)

\* Deduplication (Schedule, inflight): no key is revalidated twice at a time,
\* also while the previous goroutine of the key still cleans up.
OneRunPerKey ==
    \A g, h \in Tasks : task[g].pc = "run" /\ task[h].pc = "run"
                            /\ task[g].key = task[h].key => g = h

\* Close waits (Close, wg): when a Close has returned no goroutine is alive, and
\* none will be.
CloseIsFinal ==
    (\E c \in Closers : closer[c] = "returned") => closed /\ \A g \in Tasks : task[g] = Idle

\* sync.WaitGroup forbids an Add from zero that runs while Wait does: the
\* counter never grows once a Close waits (Schedule, Close).
NoAddDuringWait ==
    [][(\E c \in Closers : closer[c] = "wait") => wg' <= wg]_vars

\* Every key becomes schedulable again, so that a stale entry can be refreshed
\* by a later request (the deferred clean-up of Schedule).
KeysAreFreed == \A k \in Keys : k \in inflight ~> k \notin inflight

\* Every Close returns (Close).
CloseReturns == \A c \in Closers : closer[c] = "wait" ~> closer[c] = "returned"

Phase == IF \E c \in Closers : closer[c] = "returned" THEN "closed"
         ELSE IF closed THEN "closing" ELSE "open"
Contract == INSTANCE Refresher WITH active <- inflight, phase <- Phase
\* The request-bound refresher is a Refresher.
ImplementsRefresher == Contract!Spec
=============================================================================
