----------------------------- MODULE Background -----------------------------
(***************************************************************************)
(* refresh.Background: a fixed pool of workers drains a bounded queue of    *)
(* revalidations.  Schedule and Close hold the mutex; a worker takes it only *)
(* to forget the key of a job it has finished.                              *)
(***************************************************************************)
EXTENDS Naturals, Sequences, FiniteSets

CONSTANTS Keys, Workers,
          Closers,     \* callers of Close
          QueueSize,   \* capacity of the jobs channel
          NoKey

ASSUME PoolAssumption ==
    Workers # {} /\ IsFiniteSet(Workers) /\ QueueSize \in Nat \ {0} /\ NoKey \notin Keys

VARIABLES jobs,       \* the jobs channel: the keys of the queued jobs
          inflight,   \* the keys with a job queued or running
          closing,    \* set, and the jobs channel closed, by the first Close
          wg,         \* the counter of the WaitGroup
          worker,     \* worker[w]: where worker w is, and the key of its job
          closer      \* closer[c]: where a call of Close is

vars == <<jobs, inflight, closing, wg, worker, closer>>

Ready == [pc |-> "ready", key |-> NoKey]
Gone == [pc |-> "gone", key |-> NoKey]

-----------------------------------------------------------------------------
\* A Schedule that marks the key before it knows that there is room.
ScheduleMarksFirst(k) ==
    /\ ~closing /\ k \notin inflight
    /\ jobs' = IF Len(jobs) < QueueSize THEN Append(jobs, k) ELSE jobs
    /\ inflight' = inflight \cup {k}
    /\ UNCHANGED <<closing, wg, worker, closer>>

\* A Schedule that does not look for a job of the key in flight.
ScheduleAgain(k) ==
    /\ ~closing /\ Len(jobs) < QueueSize
    /\ jobs' = Append(jobs, k)
    /\ inflight' = inflight \cup {k}
    /\ UNCHANGED <<closing, wg, worker, closer>>

\* A Schedule that does not look at closing.
ScheduleAfterClose(k) ==
    /\ k \notin inflight /\ Len(jobs) < QueueSize
    /\ jobs' = Append(jobs, k)
    /\ inflight' = inflight \cup {k}
    /\ UNCHANGED <<closing, wg, worker, closer>>

\* Schedule that enqueues.  When the refresher is closing, the key in flight or
\* the queue full, it returns false and nothing changes.
Schedule(k) ==
    /\ ~closing /\ k \notin inflight /\ Len(jobs) < QueueSize
    /\ jobs' = Append(jobs, k)
    /\ inflight' = inflight \cup {k}
    /\ UNCHANGED <<closing, wg, worker, closer>>

\* The range loop of a worker receives the next job.
Receive(w) ==
    /\ worker[w].pc = "ready" /\ jobs # << >>
    /\ worker' = [worker EXCEPT ![w] = [pc |-> "run", key |-> Head(jobs)]]
    /\ jobs' = Tail(jobs)
    /\ UNCHANGED <<inflight, closing, wg, closer>>

\* run returns, by itself or because its context timed out.
Ran(w) ==
    /\ worker[w].pc = "run"
    /\ worker' = [worker EXCEPT ![w] = [pc |-> "unmark", key |-> worker[w].key]]
    /\ UNCHANGED <<jobs, inflight, closing, wg, closer>>

Unmark(w) ==
    /\ worker[w].pc = "unmark"
    /\ inflight' = inflight \ {worker[w].key}
    /\ worker' = [worker EXCEPT ![w] = Ready]
    /\ UNCHANGED <<jobs, closing, wg, closer>>

\* A worker that leaves when told to stop, whatever is queued.
ExitEarly(w) ==
    /\ worker[w].pc = "ready" /\ closing
    /\ worker' = [worker EXCEPT ![w] = Gone]
    /\ wg' = wg - 1
    /\ UNCHANGED <<jobs, inflight, closing, closer>>

\* A worker that is not counted out.
ExitUncounted(w) ==
    /\ worker[w].pc = "ready" /\ jobs = << >> /\ closing
    /\ worker' = [worker EXCEPT ![w] = Gone]
    /\ UNCHANGED <<jobs, inflight, closing, wg, closer>>

\* The channel is closed and drained: the loop ends.
Exit(w) ==
    /\ worker[w].pc = "ready" /\ jobs = << >> /\ closing
    /\ worker' = [worker EXCEPT ![w] = Gone]
    /\ wg' = wg - 1
    /\ UNCHANGED <<jobs, inflight, closing, closer>>

-----------------------------------------------------------------------------
\* The first Close closes the channel and waits; the others return at once.
Close(c) ==
    /\ closer[c] = "idle"
    /\ closing' = TRUE
    /\ closer' = [closer EXCEPT ![c] = IF closing THEN "early" ELSE "wait"]
    /\ UNCHANGED <<jobs, inflight, wg, worker>>

CloseWait(c) ==
    /\ closer[c] = "wait" /\ wg = 0
    /\ closer' = [closer EXCEPT ![c] = "returned"]
    /\ UNCHANGED <<jobs, inflight, closing, wg, worker>>

Init ==
    /\ jobs = << >> /\ inflight = {} /\ closing = FALSE
    /\ wg = Cardinality(Workers)
    /\ worker = [w \in Workers |-> Ready]
    /\ closer = [c \in Closers |-> "idle"]

Step(w) == Receive(w) \/ Ran(w) \/ Unmark(w) \/ Exit(w)

Next ==
    \/ \E k \in Keys : Schedule(k)
    \/ \E w \in Workers : Step(w)
    \/ \E c \in Closers : Close(c) \/ CloseWait(c)

\* Workers run (always-on CPU, which this refresher requires), and a
\* revalidation returns at the latest when its timeout cancels its context.
Fairness == /\ \A w \in Workers : WF_vars(Step(w))
            /\ \A c \in Closers : WF_vars(CloseWait(c))

Spec == Init /\ [][Next]_vars /\ Fairness

-----------------------------------------------------------------------------
\* The types of the fields of Background and of its callers; the queue is within
\* its capacity.
TypeOK ==
    /\ jobs \in Seq(Keys) /\ Len(jobs) <= QueueSize
    /\ inflight \subseteq Keys
    /\ closing \in BOOLEAN
    /\ wg \in 0..Cardinality(Workers)
    /\ worker \in [Workers -> [pc : {"ready", "run", "unmark", "gone"},
                               key : Keys \cup {NoKey}]]
    /\ closer \in [Closers -> {"idle", "wait", "early", "returned"}]

Queued == {jobs[n] : n \in DOMAIN jobs}
Busy == {w \in Workers : worker[w].pc \in {"run", "unmark"}}

\* The in-flight set (Schedule, worker): a key is marked exactly while one job of
\* it is queued or with one worker.  A dropped Schedule leaves no mark that would
\* keep the key from being refreshed ever again, and no key has two jobs.
MarkedIsOneJob ==
    /\ inflight = Queued \cup {worker[w].key : w \in Busy}
    /\ Cardinality(inflight) = Len(jobs) + Cardinality(Busy)

\* Close drains (Close, worker): when the Close that closed the channel returns,
\* every job that Schedule accepted has run and no worker is left.
CloseDrains ==
    (\E c \in Closers : closer[c] = "returned") =>
        inflight = {} /\ jobs = << >> /\ \A w \in Workers : worker[w].pc = "gone"

\* Every key becomes schedulable again (worker).
KeysAreFreed == \A k \in Keys : k \in inflight ~> k \notin inflight

\* Every Close returns (Close).
CloseReturns == \A c \in Closers : closer[c] = "wait" ~> closer[c] = "returned"

Phase == IF \E c \in Closers : closer[c] = "returned" THEN "closed"
         ELSE IF closing THEN "closing" ELSE "open"
Contract == INSTANCE Refresher WITH active <- inflight, phase <- Phase
\* The background refresher is a Refresher, as far as the first Close goes.
ImplementsRefresher == Contract!Spec

\* "Close ... waits for workers" (background.go): a Close that has returned
\* leaves no revalidation behind.
EveryCloseWaits ==
    (\E c \in Closers : closer[c] \in {"early", "returned"}) => inflight = {}

\* "Close stops any in-flight or pending refreshes" (refresh.go): no queued job
\* starts once Close has been called.
CloseStopsPending ==
    [][closing => \A w \in Workers : worker[w].pc # "run" => worker'[w].pc # "run"]_vars
=============================================================================
