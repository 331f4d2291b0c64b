------------------------------ MODULE PullBus ------------------------------
(***************************************************************************)
(* gcppubsub.Bus: an instance that pulls invalidations from a Pub/Sub        *)
(* subscription, with the cache's handler and its Dedupe, which this module *)
(* extends.                                                                 *)
(*                                                                          *)
(* The service is external, and modelled by what it promises: a message      *)
(* published while the subscription exists is delivered, to several         *)
(* callbacks and again and again if need be, until it is acknowledged.      *)
(* Every event has an ID and a key of its own.                              *)
(***************************************************************************)
EXTENDS Dedupe

CONSTANTS Callbacks,           \* goroutines of Receive
          Other,               \* messages without effect: our own, or undecodable
          NoID,
          Wide, Narrow,        \* the number of values of time.Duration and of int32
          AckMin, AckMax,      \* the valid deadlines, 10 and 600
          Second,              \* time.Second
          Durations            \* the deadlines WithAckDeadline is called with

ASSUME MessageAssumption == NoID \notin IDs /\ Other \cap IDs = {} /\ NoID \notin Other
ASSUME DeadlineAssumption ==
    /\ Wide \in Nat \ {0} /\ Narrow \in Nat \ {0} /\ Second \in Nat \ {0} /\ Durations \subseteq Int
    /\ AckMin \in Nat /\ AckMax \in Nat /\ AckMin <= AckMax
    /\ (Narrow \div 2) * Second < Wide \div 2

VARIABLES
    sub,       \* the subscription: "none", "own" if Subscribe created it, "left" by a
               \* killed predecessor, "shared" with the live holder of the same ID
    backlog,   \* the messages it retains
    leased,    \* those a callback has and whose ack deadline has not passed
    fresh,     \* the IDs not used yet
    pc,        \* where Subscribe is
    cb,        \* cb[c]: where a callback of Receive is, and its message
    closed,    \* cache.closed
    owed       \* history: the events accepted by this subscription whose key is in
               \* L1 with an entry older than they are

svcVars == <<sub, backlog, leased, fresh>>
pullVars == <<vars, svcVars, pc, cb, closed, owed>>

Messages == IDs \cup Other
NoMessage == [pc |-> "idle", id |-> NoID]

-----------------------------------------------------------------------------
(* The ack deadline *)

\* Go's signed integers, of which there are m, wrap around.
Wrap(n, m) == LET r == n % m IN IF r >= m \div 2 THEN r - m ELSE r

\* Go's division truncates toward zero.
Quotient(a, b) == IF a >= 0 THEN a \div b ELSE -((-a) \div b)

Seconds(d) == Wrap(Quotient(Wrap(d + Second - 1, Wide), Second), Narrow)

\* A clamp of the high end only.
clampAckHigh(d) == LET secs == Seconds(d) IN IF secs > AckMax THEN AckMax ELSE secs

clampAckSeconds(d) == LET secs == Seconds(d)
                      IN  IF secs < AckMin THEN AckMin ELSE IF secs > AckMax THEN AckMax ELSE secs

-----------------------------------------------------------------------------
(* The service *)

\* Another instance publishes an event; L1 may hold an older entry of its key.
Publish(m) ==
    /\ sub # "none" /\ m \in fresh
    /\ backlog' = backlog \cup {m} /\ fresh' = fresh \ {m}
    /\ owed' \in {owed, owed \cup {m}}
    /\ UNCHANGED <<vars, sub, leased, pc, cb, closed>>

PublishOther(m) ==
    /\ sub # "none" /\ backlog' = backlog \cup {m}
    /\ UNCHANGED <<vars, sub, leased, fresh, pc, cb, closed, owed>>

Deliver(c, m) ==
    /\ pc = "receive" /\ sub # "none"
    /\ cb[c] = NoMessage /\ m \in backlog \ leased
    /\ cb' = [cb EXCEPT ![c] = [pc |-> "handle", id |-> m]]
    /\ leased' = leased \cup {m}
    /\ UNCHANGED <<vars, sub, backlog, fresh, pc, closed, owed>>

\* The ack deadline of a message passes: it will be delivered again.
LeaseExpires(m) ==
    /\ m \in leased /\ leased' = leased \ {m}
    /\ UNCHANGED <<vars, sub, backlog, fresh, pc, cb, closed, owed>>

\* The subscription is gone, and what it retained with it.
Drop == sub' = "none" /\ backlog' = {} /\ leased' = {} /\ owed' = {}

\* The live holder of a shared subscription gets some of the messages, and
\* deletes the subscription when it goes.
HolderTakes(m) ==
    /\ sub = "shared" /\ m \in backlog \ leased /\ backlog' = backlog \ {m}
    /\ UNCHANGED <<vars, sub, leased, fresh, pc, cb, closed, owed>>

HolderLeaves ==
    /\ sub = "shared" /\ Drop
    /\ UNCHANGED <<vars, fresh, pc, cb, closed>>

-----------------------------------------------------------------------------
(* Subscribe *)

\* CreateSubscription succeeds, finds the subscription there, or fails; a
\* failure may hide a success.
Create ==
    /\ pc = "start"
    /\ \/ sub' = (IF sub = "none" THEN "own" ELSE sub) /\ pc' = "receive"
       \/ sub' \in {sub, IF sub = "none" THEN "own" ELSE sub} /\ pc' = "returned"
    /\ UNCHANGED <<vars, backlog, leased, fresh, cb, closed, owed>>

Goto(c, p) == cb' = [cb EXCEPT ![c] = [pc |-> p, id |-> cb[c].id]]

\* A callback that acknowledges its message before it handles the event.
HandleAcksFirst(c) ==
    /\ cb[c].pc = "handle"
    /\ IF cb[c].id \in backlog
       THEN /\ backlog' = backlog \ {cb[c].id} /\ leased' = leased \ {cb[c].id}
            /\ UNCHANGED <<vars, cb>>
       ELSE /\ \/ (cb[c].id \in Other \/ closed) /\ Goto(c, "ack") /\ UNCHANGED vars
               \/ cb[c].id \in IDs /\ ~closed /\ Known(cb[c].id) /\ Goto(c, "ack")
               \/ cb[c].id \in IDs /\ ~closed /\ Record(cb[c].id) /\ Goto(c, "evict")
            /\ UNCHANGED <<backlog, leased>>
    /\ UNCHANGED <<sub, fresh, pc, closed, owed>>

\* onEvent up to Seen, under the mutex of Dedupe.
Handle(c) ==
    /\ cb[c].pc = "handle"
    /\ IF cb[c].id \in Other \/ closed THEN Goto(c, "ack") /\ UNCHANGED vars
       ELSE \/ Known(cb[c].id) /\ Goto(c, "ack")
            \/ Record(cb[c].id) /\ Goto(c, "evict")
    /\ UNCHANGED <<svcVars, pc, closed, owed>>

\* The rest of onEvent: the key leaves L1.
Evict(c) ==
    /\ cb[c].pc = "evict" /\ Goto(c, "ack")
    /\ owed' = owed \ {cb[c].id}
    /\ UNCHANGED <<vars, svcVars, pc, closed>>

\* Ack, which the service may ignore when the deadline has passed.
Ack(c) ==
    /\ cb[c].pc = "ack" /\ cb' = [cb EXCEPT ![c] = NoMessage]
    /\ \/ backlog' = backlog \ {cb[c].id} /\ leased' = leased \ {cb[c].id}
       \/ cb[c].id \notin leased /\ UNCHANGED <<backlog, leased>>
    /\ UNCHANGED <<vars, sub, fresh, pc, closed, owed>>

\* Receive ends when its context is cancelled, its subscription disappears or it
\* meets another error that it does not retry; it waits for its callbacks.
ReceiveEnds ==
    /\ pc = "receive" /\ pc' = "drain"
    /\ UNCHANGED <<vars, svcVars, cb, closed, owed>>

ReceiveReturns ==
    /\ pc = "drain" /\ \A c \in Callbacks : cb[c] = NoMessage
    /\ pc' = IF sub = "own" THEN "teardown" ELSE "returned"
    /\ UNCHANGED <<vars, svcVars, cb, closed, owed>>

\* The deferred DeleteSubscription, best effort.
Teardown ==
    /\ pc = "teardown" /\ pc' = "returned"
    /\ Drop \/ UNCHANGED <<sub, backlog, leased, owed>>
    /\ UNCHANGED <<vars, fresh, cb, closed>>

Close ==
    /\ ~closed /\ closed' = TRUE
    /\ UNCHANGED <<vars, svcVars, pc, cb, owed>>

-----------------------------------------------------------------------------
\* A new instance has an empty L1; the subscription may be there, with a backlog.
PullInit ==
    /\ Init
    /\ sub \in {"none", "left", "shared"}
    /\ backlog \in SUBSET IDs /\ (sub = "none" => backlog = {})
    /\ leased = {} /\ fresh = IDs \ backlog
    /\ pc = "start" /\ cb = [c \in Callbacks |-> NoMessage]
    /\ closed = FALSE /\ owed = {}

Run(c) == Handle(c) \/ Evict(c) \/ Ack(c)
Subscribe == Create \/ ReceiveEnds \/ ReceiveReturns \/ Teardown

PullNext ==
    \/ \E m \in IDs : Publish(m)
    \/ \E m \in Other : PublishOther(m)
    \/ \E m \in Messages : LeaseExpires(m) \/ HolderTakes(m)
                           \/ \E c \in Callbacks : Deliver(c, m)
    \/ \E c \in Callbacks : Run(c)
    \/ HolderLeaves \/ Subscribe \/ Close

PullSpec == PullInit /\ [][PullNext]_pullVars

-----------------------------------------------------------------------------
\* The types of the subscription, the callbacks and the Dedupe they share.
PullTypeOK ==
    /\ TypeOK
    /\ sub \in {"none", "own", "left", "shared"}
    /\ backlog \subseteq Messages /\ leased \subseteq backlog /\ fresh \subseteq IDs
    /\ pc \in {"start", "receive", "drain", "teardown", "returned"}
    /\ cb \in [Callbacks -> [pc : {"idle", "handle", "evict", "ack"}, id : Messages \cup {NoID}]]
    /\ closed \in BOOLEAN /\ owed \subseteq IDs

Evicting == {cb[c].id : c \in {d \in Callbacks : cb[d].pc = "evict"}}

\* The instance has the subscription for itself, and applies what it gets.
Attached == sub \in {"own", "left"} /\ ~closed /\ pc # "returned"

\* No event is acknowledged into the void (Subscribe, onEvent, Seen): while an
\* entry in L1 is older than an event, the subscription retains the event or a
\* callback is about to evict the key, although Seen records the ID before the
\* eviction and concurrent redeliveries of it are acknowledged at once.
NothingForgotten == Attached => owed \subseteq backlog \cup Evicting

\* secs is d rounded up to whole seconds and clamped to the valid deadlines.
RoundedAndClamped(d, secs) ==
    /\ secs = AckMin \/ (secs - 1) * Second < d
    /\ secs = AckMax \/ d <= secs * Second

\* The deadline that Subscribe is about to ask for is one that Pub/Sub accepts,
\* whatever was configured and however it overflows; and it is the configured one,
\* rounded up and clamped at either end, for every duration whose seconds fit an
\* int32, which is 68 years in both directions (clampAckSeconds).
AckDeadlineIsValid ==
    pc = "start" =>
        \A d \in Durations :
            /\ clampAckSeconds(d) \in AckMin..AckMax
            /\ d \in -((Narrow \div 2) * Second)..((Narrow \div 2 - 1) * Second) =>
                  RoundedAndClamped(d, clampAckSeconds(d))

\* "clampAckSeconds rounds the ack deadline up to whole seconds and clamps it"
\* (gcppubsub/pubsub.go:152-153), for every time.Duration.
AckDeadlineIsClamped ==
    pc = "start" => \A d \in Durations : RoundedAndClamped(d, clampAckSeconds(d))
=============================================================================
