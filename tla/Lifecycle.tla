------------------------------ MODULE Lifecycle ------------------------------
(***************************************************************************)
(* One cache from Build to Close: the subscriber goroutine that Build       *)
(* starts, the transport that feeds it, the callers in flight, the          *)
(* refresher, and any number of calls of Close.                             *)
(*                                                                          *)
(* The in-process bus and Redis feed the subscriber through a channel; a     *)
(* push bus calls the handler from HTTP requests instead.  The refresher is *)
(* its contract.  Of an L1 entry only its presence is kept.                 *)
(***************************************************************************)
EXTENDS Naturals, Sequences

CONSTANTS Keys,
          Callers,    \* goroutines that call GetOrLoad, Set and Invalidate
          Closers,    \* goroutines that call Close
          Requests,   \* push requests served at a time
          BufSize,    \* events a subscriber's channel holds: 256 in Mem
          NoKey

ASSUME ActorAssumption ==
    /\ "sub" \notin Requests /\ NoKey \notin Keys /\ BufSize \in Nat

VARIABLES
    transport,   \* the bus of the cache
    busClosed,   \* Mem.closed
    joined,      \* the subscriber's channel is registered, or its handler set
    inbox,       \* the subscriber's channel
    task,        \* task[a]: where the subscriber or a push request is, and its event
    l1,          \* the keys with an entry in L1
    call,        \* call[x]: a call that is past its check of closed
    active, phase,      \* the refresher, see Refresher
    closed, cancelled,  \* cache.closed, and the context of the subscriber
    once,        \* closeOnce: "new", "running", "done"
    closer       \* closer[c]: where a call of Close is

busVars == <<transport, busClosed, joined, inbox>>
refVars == <<active, phase>>
closeVars == <<closed, cancelled, once, closer>>
vars == <<busVars, task, l1, call, refVars, closeVars>>

R == INSTANCE Refresher

\* peer: from another instance     self: our own broadcast
\* poison: a message that does not decode
Event == [key : Keys, from : {"peer", "self", "poison"}]
NoEvent == [key |-> NoKey, from |-> "peer"]

Idle == [pc |-> "idle", ev |-> NoEvent]
Actors == {"sub"} \cup Requests

-----------------------------------------------------------------------------
(* The bus *)

\* Where an actor goes when its event is done with.
Rest(a) == [pc |-> IF a = "sub" THEN "loop" ELSE "idle", ev |-> NoEvent]

\* Subscribe registers the subscriber.  Mem refuses once it is closed; Redis may
\* fail, and nobody tries again.
Subscribe ==
    /\ task["sub"].pc = "starting"
    /\ \/ /\ ~(transport = "mem" /\ busClosed)
          /\ joined' = TRUE
          /\ task' = [task EXCEPT !["sub"] = Rest("sub")]
       \/ /\ transport = "redis" \/ (transport = "mem" /\ busClosed)
          /\ task' = [task EXCEPT !["sub"].pc = "gone"]
          /\ UNCHANGED joined
    /\ UNCHANGED <<transport, busClosed, inbox, l1, call, refVars, closeVars>>

\* A send that never blocks: a full channel loses the event.
Send(e) == inbox' = IF joined /\ Len(inbox) < BufSize THEN Append(inbox, e) ELSE inbox

\* A broadcast for this cache.  One over Redis is lost while the client is not
\* connected; one over push comes as a request, see PushRequest.
Deliver(e) ==
    /\ transport \in {"mem", "redis"} /\ (e.from = "poison" => transport = "redis")
    /\ Send(e) \/ (transport = "redis" /\ UNCHANGED inbox)
    /\ UNCHANGED <<transport, busClosed, joined>>

PeerPublish(e) ==
    /\ e.from # "self"
    /\ Deliver(e)
    /\ UNCHANGED <<task, l1, call, refVars, closeVars>>

MemClose ==
    /\ transport = "mem" /\ busClosed' = TRUE
    /\ UNCHANGED <<transport, joined, inbox, task, l1, call, refVars, closeVars>>

\* The loop of Subscribe takes the next event; a poison message is dropped.
Receive ==
    /\ task["sub"].pc = "loop" /\ inbox # << >>
    /\ inbox' = Tail(inbox)
    /\ task' = IF Head(inbox).from = "poison" THEN task
               ELSE [task EXCEPT !["sub"] = [pc |-> "check", ev |-> Head(inbox)]]
    /\ UNCHANGED <<transport, busClosed, joined, l1, call, refVars, closeVars>>

\* A push request.  Without a handler, or if it does not decode, it is answered
\* and changes nothing.  The handler stays set when Subscribe returns.
PushRequest(r, e) ==
    /\ transport = "push" /\ joined /\ e.from # "poison"
    /\ task[r] = Idle
    /\ task' = [task EXCEPT ![r] = [pc |-> "check", ev |-> e]]
    /\ UNCHANGED <<busVars, l1, call, refVars, closeVars>>

\* A handler that goes on although the cache is closed.
CheckAlways(a) ==
    /\ task[a].pc = "check"
    /\ task' = [task EXCEPT ![a] = IF @.ev.from = "self" THEN Rest(a) ELSE [@ EXCEPT !.pc = "evict"]]
    /\ UNCHANGED <<busVars, l1, call, refVars, closeVars>>

\* A handler that takes the events of the others for its own.
CheckSelf(a) ==
    /\ task[a].pc = "check"
    /\ task' = [task EXCEPT ![a] = IF closed \/ @.ev.from = "peer" THEN Rest(a)
                                   ELSE [@ EXCEPT !.pc = "evict"]]
    /\ UNCHANGED <<busVars, l1, call, refVars, closeVars>>

\* onEvent up to its checks; the Dedupe, which only some transports have, is in PullBus ...
Check(a) ==
    /\ task[a].pc = "check"
    /\ task' = [task EXCEPT ![a] = IF closed \/ @.ev.from = "self" THEN Rest(a)
                                   ELSE [@ EXCEPT !.pc = "evict"]]
    /\ UNCHANGED <<busVars, l1, call, refVars, closeVars>>

\* ... and the eviction.
Evict(a) ==
    /\ task[a].pc = "evict"
    /\ l1' = l1 \ {task[a].ev.key}
    /\ task' = [task EXCEPT ![a] = Rest(a)]
    /\ UNCHANGED <<busVars, call, refVars, closeVars>>

\* The context is done: the loop returns.
Leave ==
    /\ task["sub"].pc = "loop" /\ cancelled
    /\ task' = [task EXCEPT !["sub"].pc = "leaving"]
    /\ UNCHANGED <<busVars, l1, call, refVars, closeVars>>

\* The Redis client is closed by its owner: the subscription ends, for good.
Disconnect ==
    /\ transport = "redis" /\ task["sub"].pc = "loop"
    /\ task' = [task EXCEPT !["sub"].pc = "leaving"]
    /\ UNCHANGED <<busVars, l1, call, refVars, closeVars>>

\* A subscriber that is not counted out.
UnsubscribeUncounted ==
    /\ task["sub"].pc = "leaving" /\ joined
    /\ joined' = (transport = "push")
    /\ UNCHANGED <<transport, busClosed, inbox, task, l1, call, refVars, closeVars>>

\* Subscribe returns.  Its channel is taken off the bus; a push handler stays.
Unsubscribe ==
    /\ task["sub"].pc = "leaving"
    /\ joined' = (transport = "push")
    /\ task' = [task EXCEPT !["sub"].pc = "gone"]
    /\ UNCHANGED <<transport, busClosed, inbox, l1, call, refVars, closeVars>>

-----------------------------------------------------------------------------
(* Callers and the refresher *)

NoCall == [pc |-> "idle", key |-> NoKey]

\* Every call looks at closed once, and first.
Begin(x, k) ==
    /\ call[x] = NoCall /\ ~closed
    /\ call' = [call EXCEPT ![x] = [pc |-> "past", key |-> k]]
    /\ UNCHANGED <<busVars, task, l1, refVars, closeVars>>

Return(x) == call' = [call EXCEPT ![x] = NoCall]

\* GetOrLoad installs what it loaded, or returns a hit or an error.
Fill(x) ==
    /\ call[x].pc = "past"
    /\ l1' = l1 \cup {call[x].key} \/ UNCHANGED l1
    /\ Return(x)
    /\ UNCHANGED <<busVars, task, refVars, closeVars>>

\* GetOrLoad serves a stale value and schedules its revalidation.
ServeStale(x) ==
    /\ call[x].pc = "past" /\ call[x].key \in l1
    /\ R!Launch(call[x].key)
    /\ Return(x)
    /\ UNCHANGED <<busVars, task, l1, closeVars>>

\* Set and Invalidate change L1 and then publish.
Write(x) ==
    /\ call[x].pc = "past"
    /\ l1' \in {l1 \cup {call[x].key}, l1 \ {call[x].key}}
    /\ call' = [call EXCEPT ![x].pc = "publish"]
    /\ UNCHANGED <<busVars, task, refVars, closeVars>>

Publish(x) ==
    /\ call[x].pc = "publish"
    /\ Deliver([key |-> call[x].key, from |-> "self"]) \/ (transport \in {"nop", "push"} /\ UNCHANGED busVars)
    /\ Return(x)
    /\ UNCHANGED <<task, l1, refVars, closeVars>>

\* A revalidation installs its result, and ends.
RefreshInstall(k) ==
    /\ k \in active /\ l1' = l1 \cup {k}
    /\ UNCHANGED <<busVars, task, call, refVars, closeVars>>

RefreshEnd(k) ==
    /\ R!Finish(k)
    /\ UNCHANGED <<busVars, task, l1, call, closeVars>>

-----------------------------------------------------------------------------
(* Close *)

At(c, pc) == closer' = [closer EXCEPT ![c] = pc]

\* closeOnce.Do: the first caller runs the body, the others wait for it.
Close(c) ==
    /\ closer[c] = "idle"
    /\ IF once = "new"
       THEN closed' = TRUE /\ once' = "running" /\ At(c, "cancel")
       ELSE At(c, "blocked") /\ UNCHANGED <<closed, once>>
    /\ UNCHANGED <<busVars, task, l1, call, refVars, cancelled>>

CloseCancel(c) ==
    /\ closer[c] = "cancel" /\ cancelled' = TRUE /\ At(c, "wait")
    /\ UNCHANGED <<busVars, task, l1, call, refVars, closed, once>>

CloseWait(c) ==
    /\ closer[c] = "wait" /\ task["sub"].pc = "gone"
    /\ R!Close /\ At(c, "drain")
    /\ UNCHANGED <<busVars, task, l1, call, closed, cancelled, once>>

CloseDrain(c) ==
    /\ closer[c] = "drain"
    /\ R!CloseReturns /\ once' = "done" /\ At(c, "returned")
    /\ UNCHANGED <<busVars, task, l1, call, closed, cancelled>>

\* A flag in place of the Once: a second caller returns at once.
CloseBlockedNot(c) ==
    /\ closer[c] = "blocked" /\ At(c, "returned")
    /\ UNCHANGED <<busVars, task, l1, call, refVars, closed, cancelled, once>>

CloseBlocked(c) ==
    /\ closer[c] = "blocked" /\ once = "done" /\ At(c, "returned")
    /\ UNCHANGED <<busVars, task, l1, call, refVars, closed, cancelled, once>>

-----------------------------------------------------------------------------
\* Build returns: the subscriber has been started and has not run yet.  The
\* no-op bus has none.
Init ==
    /\ transport \in {"nop", "mem", "redis", "push"}
    /\ busClosed = FALSE /\ joined = FALSE /\ inbox = << >>
    /\ task = [a \in Actors |->
                 IF a # "sub" THEN Idle
                 ELSE [Idle EXCEPT !.pc = IF transport = "nop" THEN "gone" ELSE "starting"]]
    /\ l1 = {} /\ call = [x \in Callers |-> NoCall]
    /\ R!Init
    /\ closed = FALSE /\ cancelled = FALSE /\ once = "new"
    /\ closer = [c \in Closers |-> "idle"]

Handle(a) == Check(a) \/ Evict(a)
Subscriber == Subscribe \/ Receive \/ Handle("sub") \/ Unsubscribe
ClosePath(c) == CloseCancel(c) \/ CloseWait(c) \/ CloseDrain(c) \/ CloseBlocked(c)

Next ==
    \/ Subscriber \/ Leave \/ Disconnect \/ MemClose
    \/ \E e \in Event : PeerPublish(e) \/ \E r \in Requests : PushRequest(r, e)
    \/ \E r \in Requests : Handle(r)
    \/ \E x \in Callers :
          \/ \E k \in Keys : Begin(x, k)
          \/ Fill(x) \/ ServeStale(x) \/ Write(x) \/ Publish(x)
    \/ \E k \in Keys : RefreshInstall(k) \/ RefreshEnd(k)
    \/ \E c \in Closers : Close(c) \/ ClosePath(c)

\* Goroutines that can run do run.  The loop of Subscribe selects among a done
\* context and a waiting event at random, so that a done context is not passed
\* over for ever.  A revalidation ends, at the latest by its timeout.
Fairness ==
    /\ WF_vars(Subscriber) /\ SF_vars(Leave)
    /\ \A k \in Keys : WF_vars(RefreshEnd(k))
    /\ \A c \in Closers : WF_vars(ClosePath(c))

Spec == Init /\ [][Next]_vars /\ Fairness

-----------------------------------------------------------------------------
\* The types of the bus, the handlers, the callers and the fields Close uses.
TypeOK ==
    /\ transport \in {"nop", "mem", "redis", "push"}
    /\ busClosed \in BOOLEAN /\ joined \in BOOLEAN
    /\ inbox \in Seq(Event) /\ Len(inbox) <= BufSize
    /\ task \in [Actors -> [pc : {"idle", "starting", "loop", "check", "evict", "leaving", "gone"},
                            ev : Event \cup {NoEvent}]]
    /\ l1 \subseteq Keys /\ active \subseteq Keys
    /\ call \in [Callers -> [pc : {"idle", "past", "publish"}, key : Keys \cup {NoKey}]]
    /\ phase \in {"open", "closing", "closed"}
    /\ closed \in BOOLEAN /\ cancelled \in BOOLEAN /\ once \in {"new", "running", "done"}
    /\ closer \in [Closers -> {"idle", "cancel", "wait", "drain", "blocked", "returned"}]

\* "It stops the bus subscriber and waits for it, then closes the refresher"
\* (Close): when any call of Close has returned, first or not, the subscriber is
\* over, its channel is off the bus, and no revalidation is pending or running.
CloseIsComplete ==
    (\E c \in Closers : closer[c] = "returned") =>
        /\ task["sub"].pc = "gone" /\ (transport # "push" => ~joined)
        /\ phase = "closed" /\ active = {}

\* Who got past the check of closed and may still change L1.
Admitted == {x \in Callers : call[x] # NoCall} \cup {a \in Actors : task[a].pc = "evict"}

\* What may still happen to L1 (Close, onEvent, the first check of every call):
\* after closed is set nobody new is admitted, and once Close is done and those
\* who were admitted before have left, L1 never changes again.
InertAfterClose ==
    [][/\ closed => Admitted' \subseteq Admitted
       /\ once = "done" /\ Admitted = {} => l1' = l1]_vars

\* An event that reached the channel is not lost (Subscribe, onEvent): its key is
\* evicted, unless the subscription ends first.
EventsAreApplied ==
    \A k \in Keys : (\E n \in DOMAIN inbox : inbox[n] = [key |-> k, from |-> "peer"])
                       ~> (k \notin l1 \/ ~joined)

\* Every call of Close returns (Close, closeOnce), whatever the subscriber, the
\* bus and the refresher are doing, even if events never cease to arrive.
CloseReturns == \A c \in Closers : closer[c] # "idle" ~> closer[c] = "returned"
=============================================================================
