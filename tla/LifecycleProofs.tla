--------------------------- MODULE LifecycleProofs ---------------------------
(***************************************************************************)
(* Proofs about one cache from Build to Close, for every set of keys,       *)
(* callers, closers and push requests, and every size of the channel.       *)
(***************************************************************************)
EXTENDS Lifecycle, TLAPS

Task == [pc : {"idle", "starting", "loop", "check", "evict", "leaving", "gone"},
         ev : Event \cup {NoEvent}]

\* A call has a key.
CallsHaveKeys == \A x \in Callers : call[x].pc # "idle" => call[x].key \in Keys

Gone == task["sub"].pc = "gone"

\* The channel is on the bus only while Subscribe runs; a push handler stays.
SubMatches == /\ Gone => transport = "push" \/ ~joined
              /\ task["sub"].pc = "starting" => ~joined

\* One caller runs the body of Close; how far it is says what has stopped.
InBody(c) == closer[c] \in {"cancel", "wait", "drain"}
CloseMatches ==
    /\ closed = (once # "new")
    /\ once = "new" => phase = "open" /\ \A c \in Closers : closer[c] = "idle"
    /\ \A c, d \in Closers : InBody(c) /\ InBody(d) => c = d
    /\ \A c \in Closers : InBody(c) => once = "running"
    /\ \A c \in Closers : closer[c] \in {"cancel", "wait"} => phase = "open"
    /\ \A c \in Closers : closer[c] = "drain" => phase = "closing" /\ Gone
    /\ \A c \in Closers : closer[c] = "returned" => once = "done"
    /\ once = "done" => Gone /\ phase = "closed" /\ active = {}

LifeInv == TypeOK /\ CallsHaveKeys /\ SubMatches /\ CloseMatches

\* Build leaves the cache in a good state.
LEMMA LifeInit == Init => LifeInv
<1> SUFFICES ASSUME Init PROVE LifeInv
  BY Zenon
<1>0. "sub" \in Actors
  BY Zenon DEF Actors
<1>1. task \in [Actors -> Task] /\ task["sub"].pc \in {"gone", "starting"}
  BY <1>0, Zenon DEF Init, Idle, Task
<1>2. call \in [Callers -> [pc : {"idle", "past", "publish"}, key : Keys \cup {NoKey}]]
  BY Zenon DEF Init, NoCall
<1>3. inbox \in Seq(Event) /\ Len(inbox) <= BufSize
  BY ActorAssumption DEF Init
<1>4. /\ transport \in {"nop", "mem", "redis", "push"} /\ busClosed \in BOOLEAN /\ joined \in BOOLEAN
      /\ l1 \subseteq Keys /\ active \subseteq Keys /\ phase \in {"open", "closing", "closed"}
      /\ closed \in BOOLEAN /\ cancelled \in BOOLEAN /\ once \in {"new", "running", "done"}
      /\ closer \in [Closers -> {"idle", "cancel", "wait", "drain", "blocked", "returned"}]
  BY Zenon DEF Init, R!Init
<1>5. TypeOK
  BY <1>1, <1>2, <1>3, <1>4, Zenon DEF TypeOK, Task
<1>6. CallsHaveKeys /\ SubMatches
  BY <1>1, Zenon DEF Init, NoCall, CallsHaveKeys, SubMatches
<1>7. CloseMatches
  BY Zenon DEF Init, R!Init, CloseMatches, InBody
<1> QED BY <1>5, <1>6, <1>7, Zenon DEF LifeInv

-----------------------------------------------------------------------------
\* What a step of a handler does to the others.
LEMMA TaskStep ==
    ASSUME task \in [Actors -> Task], NEW a \in Actors, NEW t \in Task, task' = [task EXCEPT ![a] = t]
    PROVE  task' \in [Actors -> Task] /\ task'[a] = t /\ \A b \in Actors \ {a} : task'[b] = task[b]
BY Zenon

\* The types of what an actor holds.
LEMMA TaskTypes ==
    ASSUME TypeOK
    PROVE  /\ task \in [Actors -> Task] /\ "sub" \in Actors /\ Requests \subseteq Actors
           /\ \A a \in Actors : Rest(a) \in Task /\ Rest(a).pc \in {"loop", "idle"}
           /\ \A a \in Actors : task[a].ev \in Event \cup {NoEvent}
<1>1. task \in [Actors -> Task]
  BY Zenon DEF TypeOK, Task
<1> QED BY <1>1, Zenon DEF Actors, Rest, Task

\* A broadcast leaves the channel a channel.
LEMMA DeliverStep ==
    ASSUME TypeOK, NEW e \in Event, Deliver(e)
    PROVE  /\ inbox' \in Seq(Event) /\ Len(inbox') <= BufSize
           /\ UNCHANGED <<transport, busClosed, joined>>
<1>1. inbox \in Seq(Event) /\ Len(inbox) <= BufSize /\ BufSize \in Nat
  BY ActorAssumption, Zenon DEF TypeOK
<1>2. Append(inbox, e) \in Seq(Event) /\ Len(Append(inbox, e)) = Len(inbox) + 1 /\ Len(inbox) \in Nat
  BY <1>1
<1>3. inbox' \in {inbox, Append(inbox, e)} /\ (inbox' # inbox => Len(inbox) < BufSize)
  BY Zenon DEF Deliver, Send
<1>4. UNCHANGED <<transport, busClosed, joined>>
  BY Zenon DEF Deliver
<1> QED BY <1>1, <1>2, <1>3, <1>4

\* A step that only concerns the bus and the handlers keeps the invariant, if it
\* keeps the types and does not bring the subscriber back.
LEMMA HandlersKeep ==
    ASSUME LifeInv, UNCHANGED <<transport, call, refVars, closeVars>>,
           task' \in [Actors -> Task], busClosed' \in BOOLEAN, joined' \in BOOLEAN, l1' \subseteq Keys,
           inbox' \in Seq(Event), Len(inbox') <= BufSize,
           Gone => Gone', SubMatches'
    PROVE  LifeInv'
<1>1. TypeOK'
  BY Zenon DEF LifeInv, TypeOK, Task, refVars, closeVars
<1>2. CallsHaveKeys'
  BY Zenon DEF LifeInv, CallsHaveKeys
<1>3. CloseMatches'
  BY Zenon DEF LifeInv, CloseMatches, InBody, refVars, closeVars
<1> QED BY <1>1, <1>2, <1>3, Zenon DEF LifeInv

\* The subscriber goroutine: Subscribe, its loop, and its return.
LEMMA SubscriberStep ==
    ASSUME LifeInv, Subscribe \/ Receive \/ Leave \/ Disconnect \/ Unsubscribe
    PROVE  LifeInv'
<1>0. /\ TypeOK /\ task \in [Actors -> Task] /\ "sub" \in Actors /\ Rest("sub") \in Task
      /\ Rest("sub").pc = "loop" /\ SubMatches
      /\ busClosed \in BOOLEAN /\ joined \in BOOLEAN /\ l1 \subseteq Keys
      /\ inbox \in Seq(Event) /\ Len(inbox) <= BufSize /\ BufSize \in Nat
  BY TaskTypes, ActorAssumption, Zenon DEF LifeInv, TypeOK, Rest
<1>1. CASE Subscribe
  <2>0. task["sub"].pc = "starting" /\ UNCHANGED <<transport, busClosed, inbox, l1, call, refVars, closeVars>>
    BY <1>1, Zenon DEF Subscribe
  <2>1. CASE joined' = TRUE /\ task' = [task EXCEPT !["sub"] = Rest("sub")]
    <3>1. task' \in [Actors -> Task] /\ task'["sub"].pc = "loop"
      BY <1>0, <2>1, TaskStep, Zenon
    <3>2. SubMatches' /\ ~Gone
      BY <2>0, <3>1, Zenon DEF SubMatches, Gone
    <3> QED BY <1>0, <2>0, <2>1, <3>1, <3>2, HandlersKeep, Zenon
  <2>2. CASE joined' = joined /\ task' = [task EXCEPT !["sub"].pc = "gone"]
    <3>1. task' \in [Actors -> Task] /\ task'["sub"].pc = "gone"
      BY <1>0, <2>2, Zenon DEF Task
    <3>2. ~joined /\ ~Gone
      BY <1>0, <2>0, Zenon DEF SubMatches, Gone
    <3>3. SubMatches'
      BY <2>2, <3>1, <3>2, Zenon DEF SubMatches
    <3> QED BY <1>0, <2>0, <2>2, <3>1, <3>2, <3>3, HandlersKeep, Zenon
  <2> QED BY <1>1, <2>1, <2>2, Zenon DEF Subscribe
<1>2. CASE Receive
  <2>1. /\ inbox # << >> /\ inbox' = Tail(inbox) /\ task["sub"].pc = "loop"
        /\ UNCHANGED <<transport, busClosed, joined, l1, call, refVars, closeVars>>
    BY <1>2, Zenon DEF Receive
  <2>2. Head(inbox) \in Event /\ Tail(inbox) \in Seq(Event) /\ Len(Tail(inbox)) <= BufSize
    BY <1>0, <2>1
  <2>3. task' \in [Actors -> Task] /\ task'["sub"].pc \in {"loop", "check"}
    BY <1>0, <1>2, <2>1, <2>2, Zenon DEF Receive, Task
  <2>4. SubMatches' /\ ~Gone
    BY <2>1, <2>3, Zenon DEF SubMatches, Gone
  <2> QED BY <1>0, <2>1, <2>2, <2>3, <2>4, HandlersKeep, Zenon
<1>3. CASE Leave \/ Disconnect
  <2>1. /\ task["sub"].pc = "loop" /\ task' \in [Actors -> Task] /\ task'["sub"].pc = "leaving"
    BY <1>0, <1>3 DEF Leave, Disconnect, Task
  <2>2. UNCHANGED <<busVars, l1, call, refVars, closeVars>>
    BY <1>3, Zenon DEF Leave, Disconnect
  <2>3. SubMatches' /\ ~Gone
    BY <2>1, Zenon DEF SubMatches, Gone
  <2> QED BY <1>0, <2>1, <2>2, <2>3, HandlersKeep, Zenon DEF busVars
<1>4. CASE Unsubscribe
  <2>1. /\ task["sub"].pc = "leaving" /\ task' \in [Actors -> Task] /\ task'["sub"].pc = "gone"
    BY <1>0, <1>4, Zenon DEF Unsubscribe, Task
  <2>2. UNCHANGED <<transport, busClosed, inbox, l1, call, refVars, closeVars>>
    BY <1>4, Zenon DEF Unsubscribe
  <2>3. joined' = (transport = "push")
    BY <1>4, Zenon DEF Unsubscribe
  <2>4. joined' \in BOOLEAN /\ (transport = "push" \/ ~joined')
    BY <2>3, Zenon
  <2>5. SubMatches' /\ ~Gone
    BY <2>1, <2>2, <2>4, Zenon DEF SubMatches, Gone
  <2> QED BY <1>0, <2>1, <2>2, <2>4, <2>5, HandlersKeep, Zenon
<1> QED BY <1>1, <1>2, <1>3, <1>4, Zenon

\* onEvent, in the subscriber or in a push request.
LEMMA HandleStep ==
    ASSUME LifeInv, NEW a \in Actors, Handle(a)
    PROVE  LifeInv'
<1>0. /\ TypeOK /\ task \in [Actors -> Task] /\ "sub" \in Actors /\ Rest(a) \in Task
      /\ Rest(a).pc \in {"loop", "idle"} /\ task[a] \in Task /\ SubMatches
      /\ busClosed \in BOOLEAN /\ joined \in BOOLEAN /\ l1 \subseteq Keys
      /\ inbox \in Seq(Event) /\ Len(inbox) <= BufSize
  BY TaskTypes, Zenon DEF LifeInv, TypeOK
<1>1. /\ task[a].pc \in {"check", "evict"} /\ l1' \subseteq l1
      /\ UNCHANGED <<busVars, call, refVars, closeVars>>
  BY Zenon DEF Handle, Check, Evict
<1>2. PICK t \in Task : task' = [task EXCEPT ![a] = t] /\ t.pc \in {"loop", "idle", "evict"}
  <2>1. CASE task' = [task EXCEPT ![a] = Rest(a)]
    BY <1>0, <2>1, Zenon
  <2>2. CASE task' = [task EXCEPT ![a] = [task[a] EXCEPT !.pc = "evict"]]
    <3>1. [task[a] EXCEPT !.pc = "evict"] \in Task /\ [task[a] EXCEPT !.pc = "evict"].pc = "evict"
      BY <1>0, Zenon DEF Task
    <3> QED BY <2>2, <3>1, Zenon
  <2> QED BY <2>1, <2>2, Zenon DEF Handle, Check, Evict
<1>3. task' \in [Actors -> Task] /\ task'[a] = t /\ \A b \in Actors \ {a} : task'[b] = task[b]
  BY <1>0, <1>2, TaskStep, Zenon
<1>4. (Gone => Gone') /\ SubMatches'
  BY <1>0, <1>1, <1>2, <1>3, Zenon DEF SubMatches, Gone, busVars
<1> QED BY <1>0, <1>1, <1>3, <1>4, HandlersKeep, Zenon DEF busVars

\* What the others do to the bus of the cache.
LEMMA BusStep ==
    ASSUME LifeInv, MemClose \/ \E e \in Event : PeerPublish(e) \/ \E r \in Requests : PushRequest(r, e)
    PROVE  LifeInv'
<1>0. /\ TypeOK /\ task \in [Actors -> Task] /\ "sub" \in Actors /\ Requests \subseteq Actors /\ SubMatches
      /\ busClosed \in BOOLEAN /\ joined \in BOOLEAN /\ l1 \subseteq Keys
      /\ inbox \in Seq(Event) /\ Len(inbox) <= BufSize
  BY TaskTypes, Zenon DEF LifeInv, TypeOK
<1>1. ASSUME UNCHANGED <<transport, joined, task, l1, call, refVars, closeVars>>, busClosed' \in BOOLEAN,
             inbox' \in Seq(Event), Len(inbox') <= BufSize
      PROVE  LifeInv'
  <2>1. (Gone => Gone') /\ SubMatches'
    BY <1>0, <1>1, Zenon DEF SubMatches, Gone
  <2> QED BY <1>0, <1>1, <2>1, HandlersKeep, Zenon
<1>2. CASE MemClose
  BY <1>0, <1>1, <1>2, Zenon DEF MemClose
<1>3. ASSUME NEW e \in Event, PeerPublish(e) PROVE LifeInv'
  BY <1>0, <1>1, <1>3, DeliverStep, Zenon DEF PeerPublish
<1>4. ASSUME NEW e \in Event, NEW r \in Requests, PushRequest(r, e) PROVE LifeInv'
  <2> DEFINE t == [pc |-> "check", ev |-> e]
  <2>1. t \in Task /\ r \in Actors /\ r # "sub"
    BY <1>0, ActorAssumption, Zenon DEF Task
  <2>2. task' = [task EXCEPT ![r] = t] /\ UNCHANGED <<busVars, l1, call, refVars, closeVars>>
    BY <1>4, Zenon DEF PushRequest
  <2> HIDE DEF t
  <2>3. task' \in [Actors -> Task] /\ task'["sub"] = task["sub"]
    BY <1>0, <2>1, <2>2, TaskStep, Zenon
  <2>4. (Gone => Gone') /\ SubMatches'
    BY <1>0, <2>2, <2>3, Zenon DEF SubMatches, Gone, busVars
  <2> QED BY <1>0, <2>2, <2>3, <2>4, HandlersKeep, Zenon DEF busVars
<1> QED BY <1>2, <1>3, <1>4, Zenon

-----------------------------------------------------------------------------
\* Calls and revalidations leave Close and the subscriber alone; a revalidation
\* starts only while the refresher is open.
LEMMA CallStep ==
    ASSUME LifeInv,
           \/ \E x \in Callers : \/ \E k \in Keys : Begin(x, k)
                                 \/ Fill(x) \/ ServeStale(x) \/ Write(x) \/ Publish(x)
           \/ \E k \in Keys : RefreshInstall(k) \/ RefreshEnd(k)
    PROVE  LifeInv'
<1> DEFINE Calls == [pc : {"idle", "past", "publish"}, key : Keys \cup {NoKey}]
<1>0. /\ TypeOK /\ CallsHaveKeys /\ SubMatches /\ CloseMatches
      /\ call \in [Callers -> Calls] /\ l1 \subseteq Keys /\ active \subseteq Keys
      /\ inbox \in Seq(Event) /\ Len(inbox) <= BufSize /\ NoCall \in Calls
  BY Zenon DEF LifeInv, TypeOK, NoCall
<1>1. ASSUME UNCHANGED <<transport, busClosed, joined, task, phase, closeVars>>,
             call' \in [Callers -> Calls], l1' \subseteq Keys, CallsHaveKeys',
             active' \subseteq Keys, phase = "open" \/ active' \subseteq active,
             inbox' \in Seq(Event), Len(inbox') <= BufSize
      PROVE  LifeInv'
  <2>1. TypeOK'
    BY <1>0, <1>1 DEF TypeOK, closeVars
  <2>2. SubMatches'
    BY <1>0, <1>1, Zenon DEF SubMatches, Gone
  <2>3. CloseMatches'
    BY <1>0, <1>1, Zenon DEF CloseMatches, InBody, Gone, closeVars
  <2> QED BY <1>1, <2>1, <2>2, <2>3, Zenon DEF LifeInv
<1>2. ASSUME NEW x \in Callers, Return(x)
      PROVE  call' \in [Callers -> Calls] /\ CallsHaveKeys'
  BY <1>0, <1>2, Zenon DEF Return, CallsHaveKeys, NoCall
<1>3. ASSUME NEW x \in Callers, NEW k \in Keys, Begin(x, k) PROVE LifeInv'
  <2>1. call' \in [Callers -> Calls] /\ CallsHaveKeys'
    BY <1>0, <1>3, Zenon DEF Begin, CallsHaveKeys
  <2> QED BY <1>0, <1>1, <1>3, <2>1, Zenon DEF Begin, busVars, refVars
<1>4. ASSUME NEW x \in Callers, Fill(x) PROVE LifeInv'
  <2>1. l1' \subseteq Keys
    BY <1>0, <1>4 DEF Fill, CallsHaveKeys
  <2> QED BY <1>0, <1>1, <1>2, <1>4, <2>1, Zenon DEF Fill, busVars, refVars
<1>5. ASSUME NEW x \in Callers, ServeStale(x) PROVE LifeInv'
  <2>1. active' \subseteq Keys /\ phase = "open" /\ phase' = phase
    BY <1>0, <1>5, Zenon DEF ServeStale, CallsHaveKeys, R!Launch
  <2> QED BY <1>0, <1>1, <1>2, <1>5, <2>1, Zenon DEF ServeStale, busVars
<1>6. ASSUME NEW x \in Callers, Write(x) PROVE LifeInv'
  <2>1. l1' \subseteq Keys
    BY <1>0, <1>6 DEF Write, CallsHaveKeys
  <2>2. call' \in [Callers -> Calls] /\ CallsHaveKeys'
    BY <1>0, <1>6, Zenon DEF Write, CallsHaveKeys
  <2> QED BY <1>0, <1>1, <1>6, <2>1, <2>2, Zenon DEF Write, busVars, refVars
<1>7. ASSUME NEW x \in Callers, Publish(x) PROVE LifeInv'
  <2>1. [key |-> call[x].key, from |-> "self"] \in Event
    BY <1>0, <1>7, Zenon DEF Publish, CallsHaveKeys, Event
  <2>2. inbox' \in Seq(Event) /\ Len(inbox') <= BufSize /\ UNCHANGED <<transport, busClosed, joined>>
    BY <1>0, <1>7, <2>1, DeliverStep, Zenon DEF Publish, busVars
  <2> QED BY <1>0, <1>1, <1>2, <1>7, <2>2, Zenon DEF Publish, refVars
<1>8. ASSUME NEW k \in Keys, RefreshInstall(k) \/ RefreshEnd(k) PROVE LifeInv'
  <2>1. /\ l1' \subseteq Keys /\ active' \subseteq active /\ phase' = phase
        /\ UNCHANGED <<busVars, task, call, closeVars>>
    BY <1>0, <1>8, Zenon DEF RefreshInstall, RefreshEnd, R!Finish, refVars
  <2>2. CallsHaveKeys'
    BY <1>0, <2>1, Zenon DEF CallsHaveKeys
  <2> QED BY <1>0, <1>1, <2>1, <2>2, Zenon DEF busVars
<1> QED BY <1>3, <1>4, <1>5, <1>6, <1>7, <1>8, Zenon

\* Close and its steps.
LEMMA CloseStep ==
    ASSUME LifeInv, NEW c \in Closers, Close(c) \/ ClosePath(c)
    PROVE  LifeInv'
<1> DEFINE PCs == {"idle", "cancel", "wait", "drain", "blocked", "returned"}
<1>0. /\ TypeOK /\ CallsHaveKeys /\ SubMatches /\ CloseMatches /\ closer \in [Closers -> PCs]
  BY Zenon DEF LifeInv, TypeOK
<1>1. UNCHANGED <<busVars, task, l1, call>>
  BY Zenon DEF Close, ClosePath, CloseCancel, CloseWait, CloseDrain, CloseBlocked
<1>2. ASSUME closed' \in BOOLEAN, cancelled' \in BOOLEAN, once' \in {"new", "running", "done"},
             closer' \in [Closers -> PCs], phase' \in {"open", "closing", "closed"}, active' \subseteq Keys,
             CloseMatches'
      PROVE  LifeInv'
  <2>1. TypeOK'
    BY <1>0, <1>1, <1>2, Zenon DEF TypeOK, busVars
  <2>2. CallsHaveKeys' /\ SubMatches'
    BY <1>0, <1>1, Zenon DEF CallsHaveKeys, SubMatches, Gone, busVars
  <2> QED BY <1>2, <2>1, <2>2, Zenon DEF LifeInv
<1>3. ASSUME NEW pc \in PCs, At(c, pc)
      PROVE  /\ closer' \in [Closers -> PCs] /\ closer'[c] = pc
             /\ \A d \in Closers \ {c} : closer'[d] = closer[d]
  BY <1>0, <1>3, Zenon DEF At
<1>a. /\ closed \in BOOLEAN /\ cancelled \in BOOLEAN /\ once \in {"new", "running", "done"}
      /\ phase \in {"open", "closing", "closed"} /\ active \subseteq Keys /\ (Gone' <=> Gone)
  BY <1>0, <1>1, Zenon DEF TypeOK, Gone
<1> HIDE DEF PCs
<1>b. {"idle", "cancel", "wait", "drain", "blocked", "returned"} \subseteq PCs
  BY Zenon DEF PCs
<1>4. CASE Close(c) /\ once = "new"
  <2>1. /\ closed' = TRUE /\ once' = "running" /\ At(c, "cancel") /\ UNCHANGED <<refVars, cancelled>>
        /\ closer[c] = "idle"
    BY <1>4, Zenon DEF Close
  <2>2. phase = "open"
    BY <1>0, <1>4, Zenon DEF CloseMatches
  <2>3. CloseMatches'
    BY <1>0, <1>3, <1>a, <1>b, <1>4, <2>1, <2>2, Zenon DEF CloseMatches, InBody, refVars
  <2> QED BY <1>2, <1>3, <1>a, <1>b, <2>1, <2>3, Zenon DEF refVars
<1>5. CASE Close(c) /\ once # "new"
  <2>1. At(c, "blocked") /\ UNCHANGED <<refVars, cancelled, closed, once>>
    BY <1>5, Zenon DEF Close
  <2>2. CloseMatches'
    BY <1>0, <1>3, <1>a, <1>b, <1>5, <2>1 DEF CloseMatches, InBody, refVars
  <2> QED BY <1>2, <1>3, <1>a, <1>b, <2>1, <2>2, Zenon DEF refVars
<1>6. CASE CloseCancel(c)
  <2>1. closer[c] = "cancel" /\ cancelled' = TRUE /\ At(c, "wait") /\ UNCHANGED <<refVars, closed, once>>
    BY <1>6, Zenon DEF CloseCancel
  <2>2. CloseMatches'
    BY <1>0, <1>3, <1>a, <1>b, <2>1, Zenon DEF CloseMatches, InBody, refVars
  <2> QED BY <1>2, <1>3, <1>a, <1>b, <2>1, <2>2, Zenon DEF refVars
<1>7. CASE CloseWait(c)
  <2>1. /\ closer[c] = "wait" /\ Gone /\ At(c, "drain") /\ UNCHANGED <<closed, cancelled, once>>
        /\ phase' = "closing" /\ active' = active
    BY <1>7, Zenon DEF CloseWait, Gone, R!Close
  <2>2. CloseMatches'
    BY <1>0, <1>3, <1>a, <1>b, <2>1 DEF CloseMatches, InBody
  <2> QED BY <1>2, <1>3, <1>a, <1>b, <2>1, <2>2, Zenon
<1>8. CASE CloseDrain(c)
  <2>1. /\ closer[c] = "drain" /\ At(c, "returned") /\ once' = "done" /\ UNCHANGED <<closed, cancelled>>
        /\ phase' = "closed" /\ active = {} /\ active' = active
    BY <1>8, Zenon DEF CloseDrain, R!CloseReturns
  <2>2. once = "running" /\ Gone /\ \A d \in Closers \ {c} : ~InBody(d)
    BY <1>0, <2>1, Zenon DEF CloseMatches, InBody
  <2>3. CloseMatches'
    BY <1>0, <1>3, <1>a, <1>b, <2>1, <2>2, Zenon DEF CloseMatches, InBody
  <2> QED BY <1>2, <1>3, <1>a, <1>b, <2>1, <2>3, Zenon
<1>9. CASE CloseBlocked(c)
  <2>1. once = "done" /\ At(c, "returned") /\ UNCHANGED <<refVars, closed, cancelled, once>>
    BY <1>9, Zenon DEF CloseBlocked
  <2>2. CloseMatches'
    BY <1>0, <1>3, <1>a, <1>b, <2>1, Zenon DEF CloseMatches, InBody, refVars
  <2> QED BY <1>2, <1>3, <1>a, <1>b, <2>1, <2>2, Zenon DEF refVars
<1> QED BY <1>4, <1>5, <1>6, <1>7, <1>8, <1>9, Zenon DEF ClosePath

\* The invariant is inductive.
THEOREM LifeInvariance == Spec => []LifeInv
<1>1. LifeInv /\ [Next]_vars => LifeInv'
  <2> SUFFICES ASSUME LifeInv, [Next]_vars PROVE LifeInv'
    BY Zenon
  <2>0. "sub" \in Actors /\ Requests \subseteq Actors
    BY Zenon DEF Actors
  <2>1. CASE UNCHANGED vars
    BY <2>1 DEF LifeInv, TypeOK, CallsHaveKeys, SubMatches, CloseMatches, InBody, Gone,
                vars, busVars, refVars, closeVars
  <2>2. CASE Subscriber \/ Leave \/ Disconnect
    BY <2>0, <2>2, SubscriberStep, HandleStep, Zenon DEF Subscriber
  <2>3. CASE \E r \in Requests : Handle(r)
    BY <2>0, <2>3, HandleStep, Zenon
  <2>4. CASE MemClose \/ \E e \in Event : PeerPublish(e) \/ \E r \in Requests : PushRequest(r, e)
    BY <2>4, BusStep, Zenon
  <2>5. CASE \/ \E x \in Callers : \/ \E k \in Keys : Begin(x, k)
                                   \/ Fill(x) \/ ServeStale(x) \/ Write(x) \/ Publish(x)
             \/ \E k \in Keys : RefreshInstall(k) \/ RefreshEnd(k)
    BY <2>5, CallStep, Zenon
  <2>6. CASE \E c \in Closers : Close(c) \/ ClosePath(c)
    BY <2>6, CloseStep, Zenon
  <2> QED BY <2>1, <2>2, <2>3, <2>4, <2>5, <2>6, Zenon DEF Next
<1> QED BY <1>1, LifeInit, PTL DEF Spec

-----------------------------------------------------------------------------
\* The fields of a cache that is being used and closed keep their types, the
\* channel of the subscriber its bound (Mem.Publish).
THEOREM LifeTypeCorrect == Spec => []TypeOK
<1>1. LifeInv => TypeOK
  BY Zenon DEF LifeInv
<1> QED BY <1>1, LifeInvariance, PTL

\* Close returns to nobody, first caller or not, before the subscriber and the
\* refresher are over (Close).
THEOREM CloseCompleteness == Spec => []CloseIsComplete
<1>1. LifeInv => CloseIsComplete
  BY Zenon DEF LifeInv, SubMatches, CloseMatches, Gone, CloseIsComplete
<1> QED BY <1>1, LifeInvariance, PTL

\* After closed is set nobody new may change L1, and in the end L1 is inert
\* (Close, onEvent, the first check of every call).
THEOREM Inertness == Spec => InertAfterClose
<1> DEFINE Inert == /\ closed => Admitted' \subseteq Admitted
                    /\ once = "done" /\ Admitted = {} => l1' = l1
<1>1. LifeInv /\ [Next]_vars => [Inert]_vars
  <2> SUFFICES ASSUME LifeInv, Next PROVE Inert
    BY Zenon DEF Inert, Admitted, vars, busVars, refVars, closeVars
  <2>0. /\ task \in [Actors -> Task] /\ "sub" \in Actors /\ Requests \subseteq Actors
        /\ \A a \in Actors : Rest(a) \in Task /\ Rest(a).pc \in {"loop", "idle"}
        /\ call \in [Callers -> [pc : {"idle", "past", "publish"}, key : Keys \cup {NoKey}]]
        /\ (once = "done" => active = {})
    BY TaskTypes, Zenon DEF LifeInv, TypeOK, CloseMatches
  <2>1. ASSUME closed, NEW x \in Callers, call'[x] # NoCall PROVE call[x] # NoCall
    <3>1. CASE call' = call
      BY <2>1, <3>1, Zenon
    <3>2. ASSUME NEW y \in Callers, Return(y) PROVE call[x] # NoCall
      BY <2>0, <2>1, <3>2, Zenon DEF Return
    <3>3. ASSUME NEW y \in Callers, Write(y) PROVE call[x] # NoCall
      BY <2>0, <2>1, <3>3 DEF Write, NoCall
    <3> QED BY <2>1, <3>1, <3>2, <3>3, Zenon
        DEF Next, Subscriber, Subscribe, Receive, Handle, Check, Evict, Unsubscribe, Leave, Disconnect,
            MemClose, PeerPublish, PushRequest, Begin, Fill, ServeStale, Publish, RefreshInstall, RefreshEnd,
            Close, ClosePath, CloseCancel, CloseWait, CloseDrain, CloseBlocked
  <2>2. ASSUME closed, NEW a \in Actors, task'[a].pc = "evict" PROVE task[a].pc = "evict"
    <3>1. CASE task' = task
      BY <2>2, <3>1, Zenon
    <3>2. ASSUME NEW b \in Actors, NEW t \in Task, task' = [task EXCEPT ![b] = t], t.pc # "evict"
          PROVE  task[a].pc = "evict"
      BY <2>0, <2>2, <3>2, TaskStep, Zenon
    <3>3. ASSUME NEW b \in Actors, Handle(b) PROVE task[a].pc = "evict"
      <4>1. task' = [task EXCEPT ![b] = Rest(b)]
        BY <2>2, <3>3, Zenon DEF Handle, Check, Evict
      <4> QED BY <2>0, <3>2, <3>3, <4>1, Zenon
    <3>4. CASE Subscribe \/ Leave \/ Disconnect \/ Unsubscribe
      BY <2>0, <2>2, <3>4 DEF Subscribe, Leave, Disconnect, Unsubscribe, Task
    <3>5. CASE Receive
      BY <2>0, <2>2, <3>5, Zenon DEF Receive, Task
    <3>6. ASSUME NEW e \in Event, NEW r \in Requests, PushRequest(r, e) PROVE task[a].pc = "evict"
      BY <2>0, <2>2, <3>6, Zenon DEF PushRequest, Task
    <3> QED BY <2>0, <3>1, <3>3, <3>4, <3>5, <3>6, Zenon
        DEF Next, Subscriber, MemClose, PeerPublish, Begin, Fill, ServeStale, Write, Publish,
            RefreshInstall, RefreshEnd, Close, ClosePath, CloseCancel, CloseWait, CloseDrain, CloseBlocked
  <2>3. ASSUME once = "done", Admitted = {} PROVE l1' = l1
    <3>1. /\ \A x \in Callers : call[x].pc = "idle"
          /\ \A a \in Actors : task[a].pc # "evict"
      BY <2>3 DEF Admitted, NoCall
    <3> QED BY <2>0, <2>3, <3>1, Zenon
        DEF Next, Subscriber, Subscribe, Receive, Handle, Check, Evict, Unsubscribe, Leave, Disconnect,
            MemClose, PeerPublish, PushRequest, Begin, Fill, ServeStale, Write, Publish, RefreshInstall,
            RefreshEnd, Close, ClosePath, CloseCancel, CloseWait, CloseDrain, CloseBlocked
  <2> QED BY <2>1, <2>2, <2>3, Zenon DEF Inert, Admitted
<1> QED BY <1>1, LifeInvariance, PTL DEF Spec, InertAfterClose
==============================================================================
