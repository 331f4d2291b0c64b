-------------------------- MODULE BackgroundProofs --------------------------
(***************************************************************************)
(* Proofs about Background, for every set of keys, workers and callers of   *)
(* Close, and every size of the queue.                                      *)
(***************************************************************************)
EXTENDS Background, FiniteSetTheorems, TLAPS

Place == [pc : {"ready", "run", "unmark", "gone"}, key : Keys \cup {NoKey}]
Alive == {w \in Workers : worker[w].pc # "gone"}

\* A worker has a key exactly while it is busy.
BusyHaveKeys == \A w \in Busy : worker[w].key \in Keys

\* A key is marked exactly while it is queued or with a worker ...
Marked == \A k \in Keys : k \in inflight <=> (k \in Queued \/ \E w \in Busy : worker[w].key = k)

\* ... and it is in one place only.
OnePlace ==
    /\ \A m, n \in DOMAIN jobs : jobs[m] = jobs[n] => m = n
    /\ \A v, w \in Busy : worker[v].key = worker[w].key => v = w
    /\ \A w \in Busy : worker[w].key \notin Queued

\* The marks are as many as the jobs.
Balance == IsFiniteSet(inflight) /\ Cardinality(inflight) = Len(jobs) + Cardinality(Busy)

\* The WaitGroup counts the workers, and a worker leaves only a drained queue.
Counted == wg = Cardinality(Alive) /\ (Alive # Workers => closing /\ jobs = << >>)

\* One Close waits; it returns when the workers are gone.
ClosersMatch ==
    /\ \A c \in Closers : closer[c] # "idle" => closing
    /\ \A c, d \in Closers : closer[c] \in {"wait", "returned"} /\ closer[d] \in {"wait", "returned"} => c = d
    /\ \A c \in Closers : closer[c] = "returned" => wg = 0

IInv == /\ TypeOK /\ BusyHaveKeys /\ Marked /\ OnePlace /\ Balance /\ Counted /\ ClosersMatch

\* The counted sets are finite.
LEMMA FiniteWorkers ==
    /\ IsFiniteSet(Alive) /\ Cardinality(Alive) \in Nat /\ Cardinality(Alive) <= Cardinality(Workers)
    /\ IsFiniteSet(Busy) /\ Cardinality(Busy) \in Nat /\ Cardinality(Workers) \in Nat
<1>1. Alive \subseteq Workers /\ Busy \subseteq Workers
  BY Zenon DEF Alive, Busy
<1>2. IsFiniteSet(Alive) /\ IsFiniteSet(Busy) /\ Cardinality(Alive) <= Cardinality(Workers)
  BY <1>1, PoolAssumption, FS_Subset, Zenon
<1> QED BY <1>2, PoolAssumption, FS_CardinalityType, Zenon

\* A new refresher satisfies the invariant.
LEMMA InitInv == Init => IInv
<1> SUFFICES ASSUME Init PROVE IInv
  BY Zenon
<1>1. worker \in [Workers -> Place] /\ closer \in [Closers -> {"idle", "wait", "early", "returned"}]
  BY Zenon DEF Init, Ready, Place
<1>2. jobs \in Seq(Keys) /\ Len(jobs) = 0 /\ DOMAIN jobs = {} /\ inflight = {} /\ closing = FALSE
  BY DEF Init
<1>3. Alive = Workers /\ Busy = {} /\ Queued = {}
  BY <1>2, Zenon DEF Init, Ready, Alive, Busy, Queued
<1>4. wg \in 0..Cardinality(Workers)
  BY FiniteWorkers DEF Init
<1>5. TypeOK
  <2>1. Len(jobs) <= QueueSize /\ inflight \subseteq Keys
    BY <1>2, PoolAssumption
  <2>2. closing \in BOOLEAN
    BY <1>2, Zenon
  <2> QED BY <1>1, <1>2, <1>4, <2>1, <2>2, Zenon DEF TypeOK, Place
<1>6. BusyHaveKeys /\ Marked /\ OnePlace
  BY <1>2, <1>3, Zenon DEF BusyHaveKeys, Marked, OnePlace
<1>7. Balance
  BY <1>2, <1>3, FS_EmptySet DEF Balance
<1>8. Counted /\ ClosersMatch
  BY <1>3, Zenon DEF Init, Counted, ClosersMatch
<1> QED BY <1>5, <1>6, <1>7, <1>8, Zenon DEF IInv

\* Which sets a worker is in depends on where it is.
LEMMA WorkerStep ==
    ASSUME TypeOK, NEW w \in Workers, NEW p \in Place, worker' = [worker EXCEPT ![w] = p]
    PROVE  /\ worker' \in [Workers -> Place] /\ worker'[w] = p
           /\ \A v \in Workers \ {w} : worker'[v] = worker[v]
           /\ Alive' = IF p.pc # "gone" THEN Alive \cup {w} ELSE Alive \ {w}
           /\ Busy' = IF p.pc \in {"run", "unmark"} THEN Busy \cup {w} ELSE Busy \ {w}
<1>1. /\ worker' \in [Workers -> Place] /\ worker'[w] = p
      /\ \A v \in Workers \ {w} : worker'[v] = worker[v]
  BY Zenon DEF TypeOK, Place
<1>2. Alive' = IF p.pc # "gone" THEN Alive \cup {w} ELSE Alive \ {w}
  BY <1>1, Zenon DEF Alive
<1>3. Busy' = IF p.pc \in {"run", "unmark"} THEN Busy \cup {w} ELSE Busy \ {w}
  BY <1>1, Zenon DEF Busy
<1> QED BY <1>1, <1>2, <1>3, Zenon

-----------------------------------------------------------------------------
\* Schedule queues a key that has no job.
LEMMA ScheduleStep ==
    ASSUME IInv, NEW k \in Keys, Schedule(k)
    PROVE  IInv'
<1> USE DEF IInv
<1>0. /\ ~closing /\ k \notin inflight /\ Len(jobs) < QueueSize /\ jobs' = Append(jobs, k)
      /\ inflight' = inflight \cup {k} /\ UNCHANGED <<closing, wg, worker, closer>>
  BY Zenon DEF Schedule
<1>1. /\ jobs \in Seq(Keys) /\ Len(jobs) \in Nat /\ DOMAIN jobs = 1..Len(jobs)
      /\ jobs' \in Seq(Keys) /\ Len(jobs') = Len(jobs) + 1 /\ DOMAIN jobs' = 1..(Len(jobs) + 1)
      /\ jobs'[Len(jobs) + 1] = k /\ \A n \in DOMAIN jobs : jobs'[n] = jobs[n]
  BY <1>0 DEF TypeOK
<1>2. /\ Busy' = Busy /\ Alive' = Alive /\ k \notin Queued /\ \A w \in Busy : worker[w].key # k
  BY <1>0, Zenon DEF Busy, Alive, Marked
<1>3. Queued' = Queued \cup {k}
  BY <1>1 DEF Queued
<1>4. TypeOK'
  BY <1>0, <1>1, PoolAssumption DEF TypeOK
<1>5. BusyHaveKeys' /\ Marked'
  BY <1>0, <1>2, <1>3, Zenon DEF BusyHaveKeys, Marked
<1>6. OnePlace'
  <2>1. \A n \in DOMAIN jobs : jobs[n] # k
    BY <1>2, Zenon DEF Queued
  <2>2. \A m, n \in DOMAIN jobs' : jobs'[m] = jobs'[n] => m = n
    BY <1>1, <2>1 DEF OnePlace
  <2> QED BY <1>0, <1>2, <1>3, <2>2, Zenon DEF OnePlace
<1>7. Balance'
  <2>1. IsFiniteSet(inflight') /\ Cardinality(inflight') = Cardinality(inflight) + 1
    BY <1>0, FS_AddElement, Zenon DEF Balance
  <2> QED BY <1>1, <1>2, <2>1, FiniteWorkers DEF Balance
<1>8. Counted' /\ ClosersMatch'
  BY <1>0, <1>2, Zenon DEF Counted, ClosersMatch
<1> QED BY <1>4, <1>5, <1>6, <1>7, <1>8, Zenon

\* A worker takes the next job: it moves, and stays marked.
LEMMA ReceiveStep ==
    ASSUME IInv, NEW w \in Workers, Receive(w)
    PROVE  IInv'
<1> DEFINE k == Head(jobs)
           p == [pc |-> "run", key |-> k]
<1> USE DEF IInv
<1>0. /\ worker[w].pc = "ready" /\ jobs # << >> /\ worker' = [worker EXCEPT ![w] = p]
      /\ jobs' = Tail(jobs) /\ UNCHANGED <<inflight, closing, wg, closer>>
  BY Zenon DEF Receive
<1>1. /\ jobs \in Seq(Keys) /\ Len(jobs) \in Nat \ {0} /\ DOMAIN jobs = 1..Len(jobs)
      /\ jobs' \in Seq(Keys) /\ Len(jobs') = Len(jobs) - 1 /\ DOMAIN jobs' = 1..(Len(jobs) - 1)
      /\ k = jobs[1] /\ k \in Keys /\ \A n \in DOMAIN jobs' : jobs'[n] = jobs[n + 1] /\ n + 1 \in DOMAIN jobs
  BY <1>0 DEF TypeOK
<1>2. p \in Place /\ p.pc = "run" /\ p.key = k
  BY <1>1, Zenon DEF Place
<1> HIDE DEF k, p
<1>3. /\ worker' \in [Workers -> Place] /\ worker'[w] = p
      /\ \A v \in Workers \ {w} : worker'[v] = worker[v]
      /\ Alive' = Alive \cup {w} /\ Busy' = Busy \cup {w}
  BY <1>0, <1>2, WorkerStep, Zenon
<1>4. w \in Alive /\ w \notin Busy /\ \A v \in Busy : worker'[v] = worker[v] /\ v # w
  BY <1>0, <1>3, Zenon DEF Alive, Busy
<1>5. k \in Queued /\ \A v \in Busy : worker[v].key # k
  BY <1>1 DEF Queued, OnePlace
<1>6. Queued' = Queued \ {k}
  <2>1. \A n \in DOMAIN jobs' : jobs'[n] \in Queued /\ jobs'[n] # k
    <3> TAKE n \in DOMAIN jobs'
    <3>1. n + 1 # 1 /\ n + 1 \in DOMAIN jobs /\ 1 \in DOMAIN jobs /\ jobs'[n] = jobs[n + 1]
      BY <1>1
    <3> QED BY <1>1, <3>1 DEF Queued, OnePlace
  <2>2. \A n \in DOMAIN jobs : jobs[n] # k => n - 1 \in DOMAIN jobs' /\ jobs'[n - 1] = jobs[n]
    <3> TAKE n \in DOMAIN jobs
    <3> HAVE jobs[n] # k
    <3>1. n # 1 /\ n \in 2..Len(jobs)
      BY <1>1
    <3>2. n - 1 \in 1..(Len(jobs) - 1) /\ (n - 1) + 1 = n
      BY <1>1, <3>1
    <3> QED BY <1>1, <3>2, Zenon
  <2>3. Queued' \subseteq Queued \ {k}
    BY <2>1, Zenon DEF Queued
  <2>4. Queued \ {k} \subseteq Queued'
    BY <2>2, Zenon DEF Queued
  <2> QED BY <2>3, <2>4, Zenon
<1>7. TypeOK'
  BY <1>0, <1>1, <1>3, PoolAssumption DEF TypeOK, Place
<1>8. BusyHaveKeys' /\ Marked'
  BY <1>0, <1>1, <1>2, <1>3, <1>4, <1>5, <1>6 DEF BusyHaveKeys, Marked
<1>9. OnePlace'
  <2>1. \A m, n \in DOMAIN jobs' : jobs'[m] = jobs'[n] => m = n
    <3> TAKE m, n \in DOMAIN jobs'
    <3> HAVE jobs'[m] = jobs'[n]
    <3>1. m + 1 \in DOMAIN jobs /\ n + 1 \in DOMAIN jobs /\ jobs[m + 1] = jobs[n + 1]
      BY <1>1, Zenon
    <3>2. m + 1 = n + 1
      BY <3>1, Zenon DEF OnePlace
    <3> QED BY <1>1, <3>2
  <2>2. \A u, v \in Busy' : worker'[u].key = worker'[v].key => u = v
    BY <1>2, <1>3, <1>4, <1>5 DEF OnePlace
  <2>3. \A v \in Busy' : worker'[v].key \notin Queued'
    BY <1>2, <1>3, <1>4, <1>6, Zenon DEF OnePlace
  <2> QED BY <2>1, <2>2, <2>3, Zenon DEF OnePlace
<1>10. Balance'
  <2>1. Cardinality(Busy') = Cardinality(Busy) + 1
    BY <1>3, <1>4, FiniteWorkers, FS_AddElement, Zenon
  <2> QED BY <1>0, <1>1, <2>1, FiniteWorkers DEF Balance
<1>11. Counted' /\ ClosersMatch'
  <2>1. Alive' = Alive /\ Alive = Workers
    BY <1>0, <1>3, <1>4, Zenon DEF Counted
  <2> QED BY <1>0, <2>1, Zenon DEF Counted, ClosersMatch
<1> QED BY <1>7, <1>8, <1>9, <1>10, <1>11

\* A worker ends its job, and unmarks its key.
LEMMA EndStep ==
    ASSUME IInv, NEW w \in Workers, Ran(w) \/ Unmark(w)
    PROVE  IInv'
<1> USE DEF IInv
<1>0. worker[w] \in Place /\ w \in Busy /\ w \in Alive /\ worker[w].key \in Keys
  BY Zenon DEF TypeOK, Place, Ran, Unmark, Busy, Alive, BusyHaveKeys
<1>1. CASE Ran(w)
  <2> DEFINE p == [pc |-> "unmark", key |-> worker[w].key]
  <2>0. worker' = [worker EXCEPT ![w] = p] /\ UNCHANGED <<jobs, inflight, closing, wg, closer>>
    BY <1>1, Zenon DEF Ran
  <2>1. p \in Place /\ p.pc = "unmark" /\ p.key = worker[w].key
    BY <1>0, Zenon DEF Place
  <2> HIDE DEF p
  <2>a. /\ worker' \in [Workers -> Place] /\ Alive' = Alive \cup {w} /\ Busy' = Busy \cup {w}
        /\ worker'[w] = p /\ \A v \in Workers \ {w} : worker'[v] = worker[v]
    BY <2>0, <2>1, WorkerStep, Zenon
  <2>2. /\ worker' \in [Workers -> Place] /\ Alive' = Alive /\ Busy' = Busy /\ Queued' = Queued
        /\ \A v \in Workers : worker'[v].key = worker[v].key
    BY <1>0, <2>0, <2>1, <2>a, Zenon DEF Queued
  <2>3. Busy \subseteq Workers
    BY Zenon DEF Busy
  <2>4. TypeOK'
    BY <2>0, <2>2, Zenon DEF TypeOK, Place
  <2>5. BusyHaveKeys' /\ Marked' /\ OnePlace'
    BY <2>0, <2>2, <2>3 DEF BusyHaveKeys, Marked, OnePlace
  <2>6. Balance' /\ Counted' /\ ClosersMatch'
    BY <2>0, <2>2, Zenon DEF Balance, Counted, ClosersMatch
  <2> QED BY <2>4, <2>5, <2>6, Zenon
<1>2. CASE Unmark(w)
  <2> DEFINE k == worker[w].key
  <2>0. /\ inflight' = inflight \ {k} /\ worker' = [worker EXCEPT ![w] = Ready]
        /\ UNCHANGED <<jobs, closing, wg, closer>>
    BY <1>2, Zenon DEF Unmark
  <2>1. Ready \in Place /\ Ready.pc = "ready"
    BY Zenon DEF Ready, Place
  <2>2. /\ worker' \in [Workers -> Place] /\ Alive' = Alive /\ Busy' = Busy \ {w} /\ Queued' = Queued
        /\ \A v \in Workers \ {w} : worker'[v] = worker[v]
    <3>1. /\ worker' \in [Workers -> Place] /\ Alive' = Alive \cup {w} /\ Busy' = Busy \ {w}
          /\ \A v \in Workers \ {w} : worker'[v] = worker[v]
      BY <2>0, <2>1, WorkerStep, Zenon
    <3> QED BY <1>0, <2>0, <3>1, Zenon DEF Queued
  <2>3. \A v \in Busy \ {w} : worker'[v] = worker[v] /\ worker[v].key # k
    BY <1>0, <2>2, Zenon DEF Busy, OnePlace
  <2>4. k \in inflight /\ k \notin Queued
    BY <1>0, Zenon DEF Marked, OnePlace
  <2>5. TypeOK'
    BY <2>0, <2>2, Zenon DEF TypeOK, Place
  <2>6. BusyHaveKeys' /\ Marked' /\ OnePlace'
    BY <1>0, <2>0, <2>2, <2>3, <2>4 DEF BusyHaveKeys, Marked, OnePlace
  <2>7. Balance'
    <3>1. IsFiniteSet(inflight') /\ Cardinality(inflight') = Cardinality(inflight) - 1
      BY <2>0, <2>4, FS_RemoveElement, Zenon DEF Balance
    <3>2. Cardinality(Busy') = Cardinality(Busy) - 1
      BY <1>0, <2>2, FiniteWorkers, FS_RemoveElement, Zenon
    <3>3. Len(jobs) \in Nat
      BY DEF TypeOK
    <3> QED BY <2>0, <3>1, <3>2, <3>3, FiniteWorkers DEF Balance
  <2>8. Counted' /\ ClosersMatch'
    BY <2>0, <2>2, Zenon DEF Counted, ClosersMatch
  <2> QED BY <2>5, <2>6, <2>7, <2>8, Zenon
<1> QED BY <1>1, <1>2, Zenon

\* A worker leaves when the queue is closed and drained.
LEMMA ExitStep ==
    ASSUME IInv, NEW w \in Workers, Exit(w)
    PROVE  IInv'
<1> USE DEF IInv
<1>0. /\ worker[w].pc = "ready" /\ jobs = << >> /\ closing /\ worker' = [worker EXCEPT ![w] = Gone]
      /\ wg' = wg - 1 /\ UNCHANGED <<jobs, inflight, closing, closer>>
  BY Zenon DEF Exit
<1>1. Gone \in Place /\ Gone.pc = "gone"
  BY Zenon DEF Gone, Place
<1>2. w \in Alive /\ w \notin Busy
  BY <1>0, Zenon DEF Alive, Busy
<1>3. /\ worker' \in [Workers -> Place] /\ Alive' = Alive \ {w} /\ Busy' = Busy /\ Queued' = Queued
      /\ \A v \in Workers \ {w} : worker'[v] = worker[v]
  <2>1. /\ worker' \in [Workers -> Place] /\ Alive' = Alive \ {w} /\ Busy' = Busy \ {w}
        /\ \A v \in Workers \ {w} : worker'[v] = worker[v]
    BY <1>0, <1>1, WorkerStep, Zenon
  <2> QED BY <1>0, <1>2, <2>1, Zenon DEF Queued
<1>4. Cardinality(Alive') = Cardinality(Alive) - 1 /\ Cardinality(Alive) # 0
  BY <1>2, <1>3, FiniteWorkers, FS_RemoveElement, FS_EmptySet, Zenon
<1>5. wg' = Cardinality(Alive') /\ wg # 0 /\ wg' \in 0..Cardinality(Workers)
  BY <1>0, <1>4, FiniteWorkers DEF Counted
<1>6. TypeOK'
  BY <1>0, <1>3, <1>5, Zenon DEF TypeOK, Place
<1>7. BusyHaveKeys' /\ Marked' /\ OnePlace'
  <2>1. \A v \in Busy : worker'[v] = worker[v]
    BY <1>2, <1>3, Zenon DEF Busy
  <2> QED BY <1>0, <1>3, <2>1 DEF BusyHaveKeys, Marked, OnePlace
<1>8. Balance' /\ Counted'
  BY <1>0, <1>3, <1>5, Zenon DEF Balance, Counted
<1>9. ClosersMatch'
  BY <1>0, <1>5, Zenon DEF ClosersMatch
<1> QED BY <1>6, <1>7, <1>8, <1>9, Zenon

\* Close and its wait.
LEMMA CloseStep ==
    ASSUME IInv, NEW c \in Closers, Close(c) \/ CloseWait(c)
    PROVE  IInv'
<1> USE DEF IInv
<1>0. UNCHANGED <<jobs, inflight, wg, worker>> /\ closing' \in BOOLEAN /\ (closing => closing')
  BY Zenon DEF Close, CloseWait, TypeOK
<1>1. Busy' = Busy /\ Alive' = Alive /\ Queued' = Queued
  BY <1>0, Zenon DEF Busy, Alive, Queued
<1>2. BusyHaveKeys' /\ Marked' /\ OnePlace' /\ Balance' /\ Counted'
  BY <1>0, <1>1, Zenon DEF BusyHaveKeys, Marked, OnePlace, Balance, Counted
<1>3. PICK s \in {"early", "wait", "returned"} : closer' = [closer EXCEPT ![c] = s]
  BY Zenon DEF Close, CloseWait
<1>4. /\ closer' \in [Closers -> {"idle", "wait", "early", "returned"}] /\ closer'[c] = s
      /\ \A d \in Closers \ {c} : closer'[d] = closer[d]
  BY <1>3, Zenon DEF TypeOK
<1>5. TypeOK'
  BY <1>0, <1>4, Zenon DEF TypeOK
<1>6. ClosersMatch'
  <2>1. CASE Close(c)
    <3>1. closing' /\ s = IF closing THEN "early" ELSE "wait"
      BY <1>3, <1>4, <2>1, Zenon DEF Close, TypeOK
    <3> QED BY <1>0, <1>4, <3>1, Zenon DEF ClosersMatch
  <2>2. CASE CloseWait(c)
    <3>1. closer[c] = "wait" /\ wg = 0 /\ s = "returned" /\ closing' = closing
      BY <1>3, <1>4, <2>2, Zenon DEF CloseWait, TypeOK
    <3> QED BY <1>0, <1>4, <3>1, Zenon DEF ClosersMatch
  <2> QED BY <2>1, <2>2, Zenon
<1> QED BY <1>2, <1>5, <1>6, Zenon

-----------------------------------------------------------------------------
\* The invariant is inductive.
THEOREM Invariance == Spec => []IInv
<1>1. IInv /\ [Next]_vars => IInv'
  <2> SUFFICES ASSUME IInv, [Next]_vars PROVE IInv'
    BY Zenon
  <2>1. CASE UNCHANGED vars
    BY <2>1 DEF IInv, TypeOK, BusyHaveKeys, Marked, OnePlace, Balance, Counted, ClosersMatch,
                Busy, Alive, Queued, vars
  <2>2. CASE Next
    BY <2>2, ScheduleStep, ReceiveStep, EndStep, ExitStep, CloseStep, Zenon DEF Next, Step
  <2> QED BY <2>1, <2>2, Zenon
<1> QED BY <1>1, InitInv, PTL DEF Spec

\* The fields of Background keep their types, the queue its bound.
THEOREM TypeCorrect == Spec => []TypeOK
BY Invariance, PTL DEF IInv

\* A key is marked exactly while it has one job (Schedule, worker).
THEOREM OneJobPerMark == Spec => []MarkedIsOneJob
<1>1. IInv => MarkedIsOneJob
  <2> SUFFICES ASSUME IInv PROVE MarkedIsOneJob
    BY Zenon
  <2>1. inflight \subseteq Keys /\ Queued \subseteq Keys /\ \A w \in Busy : worker[w].key \in Keys
    BY DEF IInv, TypeOK, Queued, BusyHaveKeys
  <2>2. inflight = Queued \cup {worker[w].key : w \in Busy}
    BY <2>1, Zenon DEF IInv, Marked
  <2> QED BY <2>2, Zenon DEF MarkedIsOneJob, IInv, Balance
<1> QED BY <1>1, Invariance, PTL

\* What is left when the WaitGroup is at zero.
LEMMA Drained ==
    ASSUME IInv, wg = 0
    PROVE  inflight = {} /\ jobs = << >> /\ \A w \in Workers : worker[w].pc = "gone"
<1>1. Alive = {}
  BY FiniteWorkers, FS_EmptySet, Zenon DEF IInv, Counted
<1>2. \A w \in Workers : worker[w].pc = "gone"
  BY <1>1, Zenon DEF Alive
<1>3. jobs = << >> /\ Busy = {}
  BY <1>1, <1>2, PoolAssumption, Zenon DEF IInv, Counted, Busy
<1>4. inflight = {}
  BY <1>3 DEF IInv, Marked, Queued, TypeOK
<1> QED BY <1>2, <1>3, <1>4, Zenon

\* A Close that waited returns to a drained queue and to no workers (Close).
THEOREM Draining == Spec => []CloseDrains
<1>1. IInv => CloseDrains
  BY Drained, Zenon DEF IInv, ClosersMatch, CloseDrains
<1> QED BY <1>1, Invariance, PTL

\* The background refresher implements the contract (Background).
THEOREM Refinement == Spec => ImplementsRefresher
<1>1. Init => Contract!Init
  BY Zenon DEF Init, Contract!Init, Phase
<1>2. IInv /\ [Next]_vars => [Contract!Next]_(Contract!vars)
  <2> SUFFICES ASSUME IInv, [Next]_vars PROVE Contract!Next \/ UNCHANGED Contract!vars
    BY Zenon
  <2> USE DEF Contract!vars
  <2>0. /\ \A c \in Closers : closer[c] # "idle" => closing
        /\ closer \in [Closers -> {"idle", "wait", "early", "returned"}]
    BY Zenon DEF IInv, ClosersMatch, TypeOK
  <2>1. CASE UNCHANGED vars
    BY <2>1, Zenon DEF vars, Phase
  <2>2. ASSUME NEW k \in Keys, Schedule(k) PROVE Contract!Next
    BY <2>0, <2>2, Zenon DEF Schedule, Contract!Next, Contract!Launch, Phase
  <2>3. ASSUME NEW w \in Workers, Receive(w) \/ Ran(w) \/ Exit(w) PROVE UNCHANGED Contract!vars
    BY <2>3 DEF Receive, Ran, Exit, Phase
  <2>4. ASSUME NEW w \in Workers, Unmark(w) PROVE Contract!Next
    <3>1. w \in Busy
      BY <2>4, Zenon DEF Unmark, Busy
    <3>2. worker[w].key \in Keys /\ worker[w].key \in inflight
      BY <3>1, Zenon DEF IInv, BusyHaveKeys, Marked
    <3> QED BY <2>4, <3>2, Zenon DEF Unmark, Contract!Next, Contract!Finish, Phase
  <2>5. ASSUME NEW c \in Closers, Close(c) PROVE Contract!Next \/ UNCHANGED Contract!vars
    <3>1. /\ closing' = TRUE /\ inflight' = inflight
          /\ \A d \in Closers : (closer'[d] = "returned") = (closer[d] = "returned")
      BY <2>0, <2>5, Zenon DEF Close
    <3>2. CASE closing
      BY <3>1, <3>2, Zenon DEF Phase
    <3>3. CASE ~closing
      <4>1. \A d \in Closers : closer[d] # "returned"
        BY <2>0, <3>3, Zenon
      <4> QED BY <3>1, <3>3, <4>1, Zenon DEF Contract!Next, Contract!Close, Phase
    <3> QED BY <3>2, <3>3, Zenon
  <2>6. ASSUME NEW c \in Closers, CloseWait(c) PROVE Contract!Next
    <3>1. /\ closer[c] = "wait" /\ closer'[c] = "returned" /\ inflight' = inflight /\ closing
          /\ \A d \in Closers : closer[d] # "returned"
      BY <2>0, <2>6, Zenon DEF CloseWait, IInv, ClosersMatch
    <3>2. inflight = {}
      BY <2>6, Drained, Zenon DEF CloseWait
    <3> QED BY <3>1, <3>2, Zenon DEF Contract!Next, Contract!CloseReturns, Phase
  <2> QED BY <2>1, <2>2, <2>3, <2>4, <2>5, <2>6, Zenon DEF Next, Step
<1> QED BY <1>1, <1>2, Invariance, PTL DEF Spec, Contract!Spec, ImplementsRefresher
=============================================================================
