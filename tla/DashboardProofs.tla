-------------------------- MODULE DashboardProofs ---------------------------
(***************************************************************************)
(* Proofs about Dashboard, for any agents, hosts and requests: the types,  *)
(* and that no two agents share a host, while requests, heartbeats and the *)
(* stale watcher change the registry between each other's steps.           *)
(***************************************************************************)
EXTENDS Dashboard, TLAPS

\* What a request may be doing.
Working(r) ==
  \/ r = Idle
  \/ r.pc \in {"copy", "refetch"} /\ r.id \in Ids
  \/ r.pc = "publish" /\ r.event \in Event

OnePerHost(st) ==
  \A i, j \in Ids : st[i] # "absent" /\ st[j] # "absent" /\ Home[i] = Home[j] => i = j

\* The part of TypeOK that the orchestrator keeps.
ServerTyped ==
  /\ status \in Statuses /\ OnePerHost(status)
  /\ handler = [h \in Handlers |-> handler[h]]
  /\ \A h \in Handlers : Working(handler[h])
  /\ watcher.at \in {"wait", "mark", "publish"} /\ watcher.todo \subseteq Ids
  /\ watcher.at = "publish" => watcher.id \in Ids

\* The part of the wire and of the page.
PageTyped ==
  /\ wire \in Seq(Event) /\ Len(wire) <= WireCap
  /\ page \in [stream : {"connecting", "open"}, fetch : {"none", "asked", "answered"}, list : Statuses]
  /\ shown \in Statuses
  /\ untold \subseteq Ids \X {"entry", "status"} /\ astray \in BOOLEAN

-----------------------------------------------------------------------------
(* The registry.                                                           *)

\* An agent whose status changes without leaving or entering the map disturbs
\* nobody's host; one that leaves even less.
LEMMA StatusChanges ==
  ASSUME status \in Statuses, OnePerHost(status), NEW i \in Ids, NEW st \in Status,
         status[i] # "absent" \/ st = "absent"
  PROVE  LET new == [status EXCEPT ![i] = st] IN new \in Statuses /\ OnePerHost(new)
BY DEF Statuses, OnePerHost

\* Register leaves one agent at the host.
LEMMA RegisteringReplaces ==
  ASSUME status \in Statuses, OnePerHost(status), NEW i \in Ids
  PROVE  LET new == [j \in Ids |-> IF j = i THEN "idle" ELSE IF j \in Rivals(i) THEN "absent" ELSE status[j]]
         IN  new \in Statuses /\ OnePerHost(new)
<1> DEFINE new == [j \in Ids |-> IF j = i THEN "idle" ELSE IF j \in Rivals(i) THEN "absent" ELSE status[j]]
<1>1. new \in Statuses
  BY DEF Statuses, Status
<1>2. ASSUME NEW j \in Ids, j # i, new[j] # "absent" PROVE Home[j] # Home[i] /\ status[j] # "absent"
  BY <1>2 DEF Rivals, Exists
<1>3. OnePerHost(new)
  BY <1>2 DEF OnePerHost
<1>4. QED
  BY <1>1, <1>3

\* An event is one of Event.
LEMMA AboutIsEvent ==
  ASSUME NEW kind \in {"agent_registered", "agent_unregistered", "agent_status", "agent_updated"},
         NEW i \in Ids, NEW st \in Status
  PROVE  About(kind, i, st) \in Event
BY DEF About, Event

-----------------------------------------------------------------------------
(* What a step does to the requests.                                       *)

\* One request takes a step.
LEMMA OneWorks ==
  ASSUME handler = [h \in Handlers |-> handler[h]], \A h \in Handlers : Working(handler[h]),
         NEW h \in Handlers, NEW next, Working(next), handler' = [handler EXCEPT ![h] = next]
  PROVE  /\ handler' = [k \in Handlers |-> handler'[k]]
         /\ \A k \in Handlers : Working(handler'[k])
<1>1. /\ handler' = [k \in Handlers |-> handler'[k]]
      /\ \A k \in Handlers : handler'[k] = IF k = h THEN next ELSE handler[k]
  OBVIOUS
<1>2. ASSUME NEW k \in Handlers PROVE Working(handler'[k])
  <2>1. CASE k = h
    BY <1>1, <2>1 DEF Working
  <2>2. CASE k # h
    BY <1>1, <2>2 DEF Working
  <2>3. QED
    BY <2>1, <2>2
<1>3. QED
  BY <1>1, <1>2

\* One takes a step that takes agents out of the map under the others.
LEMMA DetachedWork ==
  ASSUME status \in Statuses, handler = [h \in Handlers |-> handler[h]],
         \A h \in Handlers : Working(handler[h]),
         NEW h \in Handlers, NEW next, Working(next), NEW gone,
         handler' = Detached(h, next, gone)
  PROVE  /\ handler' = [k \in Handlers |-> handler'[k]]
         /\ \A k \in Handlers : Working(handler'[k])
<1> DEFINE told(k) == About("agent_registered", handler[k].id, status[handler[k].id])
<1>1. handler' = [k \in Handlers |-> handler'[k]]
  BY DEF Detached
<1>2. ASSUME NEW k \in Handlers PROVE Working(handler'[k])
  <2>1. CASE k = h
    <3>1. handler'[k] = next
      BY <2>1 DEF Detached
    <3>2. QED
      BY <3>1 DEF Working
  <2>2. CASE k # h /\ ~(handler[k].pc = "copy" /\ handler[k].id \in gone)
    <3>1. handler'[k] = handler[k]
      BY <2>2 DEF Detached
    <3>2. QED
      BY <3>1 DEF Working
  <2>3. CASE k # h /\ handler[k].pc = "copy" /\ handler[k].id \in gone
    <3>1. handler'[k] = Publishing(told(k))
      BY <2>3 DEF Detached
    <3>2. Idle.pc = "idle"
      BY DEF Idle
    <3>3. handler[k].id \in Ids
      BY <2>3, <3>2 DEF Working
    <3>4. status[handler[k].id] \in Status
      BY <3>3 DEF Statuses
    <3>5. told(k) \in Event
      BY <3>3, <3>4, AboutIsEvent
    <3> HIDE DEF told
    <3>6. Publishing(told(k)).pc = "publish" /\ Publishing(told(k)).event = told(k)
      BY DEF Publishing
    <3>7. QED
      BY <3>1, <3>5, <3>6 DEF Working
  <2>4. QED
    BY <2>1, <2>2, <2>3
<1>3. QED
  BY <1>1, <1>2

\* What a publication does to the wire and to the histories.
LEMMA SendingKeeps ==
  ASSUME PageTyped, NEW e \in Event, Send(e)
  PROVE  /\ wire' \in Seq(Event) /\ Len(wire') <= WireCap
         /\ untold' \subseteq Ids \X {"entry", "status"} /\ astray' \in BOOLEAN
<1>1. untold' \subseteq Ids \X {"entry", "status"}
  BY DEF Send, PageTyped
<1>2. wire' \in Seq(Event) /\ Len(wire') <= WireCap
  <2>1. wire' = wire \/ (Len(wire) < WireCap /\ wire' = Append(wire, e))
    BY DEF Send
  <2>2. CASE wire' = wire
    BY <2>2 DEF PageTyped
  <2>3. CASE Len(wire) < WireCap /\ wire' = Append(wire, e)
    BY <2>3, DashboardAssumption DEF PageTyped
  <2>4. QED
    BY <2>1, <2>2, <2>3
<1>3. astray' \in BOOLEAN
  BY DEF Send
<1>4. QED
  BY <1>1, <1>2, <1>3

-----------------------------------------------------------------------------
(* Types.                                                                  *)

\* What the page does leaves the orchestrator alone, and keeps its types.
LEMMA PageKeepsTypes ==
  ASSUME ServerTyped, PageTyped, PageStep
  PROVE  ServerTyped' /\ PageTyped'
<1>1. UNCHANGED <<status, handler, watcher>>
  BY DEF PageStep, OpenStream, LoseStream, Ask, Answer, FetchFails, Merge, Receive, Reload
<1>2. ServerTyped'
  BY <1>1 DEF ServerTyped, OnePerHost, Working
<1>3. status \in Statuses /\ Nobody \in Statuses
  BY DEF ServerTyped, Nobody, Statuses, Status
<1> SUFFICES PageTyped'
  BY <1>2
<1> USE DEF PageTyped
<1>4. CASE OpenStream
  <2>1. page' \in [stream : {"connecting", "open"}, fetch : {"none", "asked", "answered"}, list : Statuses]
    BY <1>4 DEF OpenStream
  <2>2. QED
    BY <1>4, <2>1 DEF OpenStream
<1>5. CASE LoseStream
  <2>1. page' \in [stream : {"connecting", "open"}, fetch : {"none", "asked", "answered"}, list : Statuses]
    BY <1>5 DEF LoseStream
  <2>2. wire' = <<>> /\ wire' \in Seq(Event) /\ Len(wire') <= WireCap
    BY <1>5, DashboardAssumption DEF LoseStream
  <2>3. astray' \in BOOLEAN /\ UNCHANGED <<shown, untold>>
    BY <1>5 DEF LoseStream
  <2>4. QED
    BY <2>1, <2>2, <2>3
<1>6. CASE Ask
  BY <1>6 DEF Ask
<1>7. CASE Answer
  BY <1>3, <1>7 DEF Answer
<1>8. CASE FetchFails
  BY <1>3, <1>8 DEF FetchFails
<1>9. CASE Merge
  <2>1. shown' \in Statuses
    <3>1. page.list \in Statuses /\ shown \in Statuses
      OBVIOUS
    <3>2. QED
      BY <1>9, <3>1 DEF Merge, Statuses
  <2>2. page' \in [stream : {"connecting", "open"}, fetch : {"none", "asked", "answered"}, list : Statuses]
    BY <1>3, <1>9 DEF Merge
  <2>3. QED
    BY <1>9, <2>1, <2>2 DEF Merge
<1>10. CASE Receive
  <2> DEFINE e == Head(wire)
  <2>1. e \in Event /\ Tail(wire) \in Seq(Event) /\ Len(Tail(wire)) <= WireCap
    BY <1>10, DashboardAssumption DEF Receive
  <2>2. e.id \in Ids /\ e.status \in Status
    <3> HIDE DEF e
    <3> QED BY <2>1 DEF Event
  <2>3. ShownAfter(e) \in Status
    <3> HIDE DEF e
    <3> QED BY <2>2 DEF ShownAfter, Status
  <2>4. shown' = [shown EXCEPT ![e.id] = ShownAfter(e)]
        /\ astray' \in BOOLEAN /\ wire' = Tail(wire) /\ UNCHANGED <<page, untold>>
    BY <1>10 DEF Receive
  <2>5. shown' \in Statuses
    <3> HIDE DEF e
    <3> QED BY <2>3, <2>4 DEF Statuses
  <2>6. QED
    BY <2>1, <2>4, <2>5
<1>11. CASE Reload
  <2>1. page' \in [stream : {"connecting", "open"}, fetch : {"none", "asked", "answered"}, list : Statuses]
    BY <1>3, <1>11 DEF Reload, Loading
  <2>2. wire' = <<>> /\ wire' \in Seq(Event) /\ Len(wire') <= WireCap
    BY <1>11, DashboardAssumption DEF Reload
  <2>3. QED
    BY <1>3, <1>11, <2>1, <2>2 DEF Reload
<1>12. QED
  BY <1>4, <1>5, <1>6, <1>7, <1>8, <1>9, <1>10, <1>11 DEF PageStep

\* A request that changes an agent, or takes the next step towards its event.
LEMMA RequestKeepsTypes ==
  ASSUME ServerTyped, PageTyped, NEW h \in Handlers, Request(h)
  PROVE  ServerTyped' /\ PageTyped'
<1> DEFINE Goal == ServerTyped' /\ PageTyped'
<1>1. /\ status \in Statuses /\ OnePerHost(status)
      /\ handler = [k \in Handlers |-> handler[k]] /\ \A k \in Handlers : Working(handler[k])
  BY DEF ServerTyped
<1>2. ASSUME status' \in Statuses, OnePerHost(status'), handler' = [k \in Handlers |-> handler'[k]],
             \A k \in Handlers : Working(handler'[k]),
             untold' \subseteq Ids \X {"entry", "status"}, UNCHANGED <<watcher, wire, page, shown, astray>>
      PROVE  Goal
  <2>1. ServerTyped'
    BY <1>2 DEF ServerTyped, OnePerHost, Working
  <2>2. PageTyped'
    BY <1>2 DEF PageTyped
  <2>3. QED
    BY <2>1, <2>2
<1>3. untold \subseteq Ids \X {"entry", "status"}
  BY DEF PageTyped
<1>4. /\ Working(Idle)
      /\ \A i \in Ids : Working(Copying(i)) /\ Working(Refetching(i))
  BY DEF Working, Copying, Refetching
<1> HIDE DEF Goal
<1>5. ASSUME NEW i \in Ids, NEW saved \in BOOLEAN, Register(h, i, saved) PROVE Goal
  <2>1. status' \in Statuses /\ OnePerHost(status')
    BY <1>1, <1>5, RegisteringReplaces DEF Register
  <2>2. untold' \subseteq Ids \X {"entry", "status"}
    BY <1>3, <1>5 DEF Register, Rivals
  <2> DEFINE next == IF saved THEN Copying(i) ELSE Idle
             gone == Rivals(i) \cup {i}
  <2>3. Working(next)
    <3>1. CASE saved
      BY <1>4, <3>1
    <3>2. CASE ~saved
      BY <1>4, <3>2
    <3>3. QED
      BY <3>1, <3>2
  <2>4. handler' = Detached(h, next, gone) /\ UNCHANGED <<watcher, wire, page, shown, astray>>
    BY <1>5 DEF Register
  <2> HIDE DEF next, gone
  <2>5. handler' = [k \in Handlers |-> handler'[k]] /\ \A k \in Handlers : Working(handler'[k])
    BY <1>1, <2>3, <2>4, DetachedWork
  <2>6. QED
    BY <1>2, <2>1, <2>2, <2>4, <2>5
<1>6. ASSUME NEW i \in Ids, NEW saved \in BOOLEAN, Unregister(h, i, saved) PROVE Goal
  <2>1. status' \in Statuses /\ OnePerHost(status')
    <3>1. "absent" \in Status
      BY DEF Status
    <3>2. QED
      BY <1>1, <1>6, <3>1, StatusChanges DEF Unregister
  <2>2. untold' \subseteq Ids \X {"entry", "status"}
    BY <1>3, <1>6 DEF Unregister
  <2> DEFINE gone == About("agent_unregistered", i, "absent")
             next == IF saved THEN Publishing(gone) ELSE Idle
  <2>3. Working(next)
    <3>1. gone \in Event
      BY AboutIsEvent DEF Status
    <3> HIDE DEF gone
    <3>2. Working(Publishing(gone))
      BY <3>1 DEF Working, Publishing
    <3>3. CASE saved
      BY <3>2, <3>3
    <3>4. CASE ~saved
      BY <1>4, <3>4
    <3>5. QED
      BY <3>3, <3>4
  <2>4. handler' = Detached(h, next, {i}) /\ UNCHANGED <<watcher, wire, page, shown, astray>>
    BY <1>6 DEF Unregister
  <2> HIDE DEF next, gone
  <2>5. handler' = [k \in Handlers |-> handler'[k]] /\ \A k \in Handlers : Working(handler'[k])
    BY <1>1, <2>3, <2>4, DetachedWork
  <2>6. QED
    BY <1>2, <2>1, <2>2, <2>4, <2>5
<1>7. ASSUME NEW i \in Ids, NEW st \in {"idle", "offline"}, Update(h, i, st) PROVE Goal
  <2>1. status' \in Statuses /\ OnePerHost(status')
    <3>1. st \in Status
      BY DEF Status
    <3>2. QED
      BY <1>1, <1>7, <3>1, StatusChanges DEF Update, Exists
  <2>2. handler' = [handler EXCEPT ![h] = Refetching(i)] /\ UNCHANGED <<watcher, wire, page, shown, untold, astray>>
    BY <1>7 DEF Update
  <2>3. handler' = [k \in Handlers |-> handler'[k]] /\ \A k \in Handlers : Working(handler'[k])
    BY <1>1, <1>4, <2>2, OneWorks
  <2>4. QED
    BY <1>2, <1>3, <2>1, <2>2, <2>3
<1>8. Goal
  BY <1>5, <1>6, <1>7 DEF Request
<1>9. QED
  BY <1>8 DEF Goal

\* A request that builds its event, or publishes it.
LEMMA TellingKeepsTypes ==
  ASSUME ServerTyped, PageTyped, NEW h \in Handlers, Copy(h) \/ Refetch(h) \/ Publish(h)
  PROVE  ServerTyped' /\ PageTyped'
<1>1. /\ status \in Statuses
      /\ handler = [k \in Handlers |-> handler[k]] /\ \A k \in Handlers : Working(handler[k])
  BY DEF ServerTyped
<1>2. Working(handler[h]) /\ Working(Idle) /\ Idle.pc = "idle"
  BY <1>1 DEF Working, Idle
<1>3. ASSUME NEW next, Working(next), handler' = [handler EXCEPT ![h] = next], UNCHANGED <<status, watcher>>
      PROVE  ServerTyped'
  <2>1. handler' = [k \in Handlers |-> handler'[k]] /\ \A k \in Handlers : Working(handler'[k])
    BY <1>1, <1>3, OneWorks
  <2>2. QED
    BY <1>3, <2>1 DEF ServerTyped, OnePerHost, Working
<1>4. ASSUME NEW e \in Event PROVE Working(Publishing(e))
  BY DEF Working, Publishing
<1>5. CASE Copy(h)
  <2> DEFINE e == About("agent_registered", handler[h].id, status[handler[h].id])
  <2>1. handler[h].id \in Ids
    BY <1>2, <1>5 DEF Copy, Working
  <2>2. e \in Event
    BY <1>1, <2>1, AboutIsEvent DEF Statuses
  <2>3. handler' = [handler EXCEPT ![h] = Publishing(e)]
    BY <1>5 DEF Copy
  <2> HIDE DEF e
  <2>4. ServerTyped'
    BY <1>3, <1>4, <1>5, <2>2, <2>3 DEF Copy
  <2>5. PageTyped'
    BY <1>5 DEF Copy, PageTyped
  <2>6. QED
    BY <2>4, <2>5
<1>6. CASE Refetch(h)
  <2> DEFINE i == handler[h].id
             e == About("agent_updated", i, status[i])
             next == IF Exists(i) THEN Publishing(e) ELSE Idle
  <2>1. i \in Ids
    BY <1>2, <1>6 DEF Refetch, Working
  <2>2. e \in Event
    BY <1>1, <2>1, AboutIsEvent DEF Statuses
  <2>3. handler' = [handler EXCEPT ![h] = next]
    BY <1>6 DEF Refetch
  <2>4. Working(next)
    <3> HIDE DEF e
    <3>1. CASE Exists(i)
      BY <1>4, <2>2, <3>1
    <3>2. CASE ~Exists(i)
      BY <1>2, <3>2
    <3>3. QED
      BY <3>1, <3>2
  <2> HIDE DEF next
  <2>5. ServerTyped'
    BY <1>3, <1>6, <2>3, <2>4 DEF Refetch
  <2>6. PageTyped'
    BY <1>6 DEF Refetch, PageTyped
  <2>7. QED
    BY <2>5, <2>6
<1>7. CASE Publish(h)
  <2>1. handler[h].event \in Event
    BY <1>2, <1>7 DEF Publish, Working
  <2>2. ServerTyped'
    BY <1>2, <1>3, <1>7 DEF Publish, Return
  <2>3. PageTyped'
    BY <1>7, <2>1, SendingKeeps DEF Publish, PageTyped
  <2>4. QED
    BY <2>2, <2>3
<1>8. QED
  BY <1>5, <1>6, <1>7

\* Heartbeats and the stale watcher change statuses of agents that are there.
LEMMA WatchingKeepsTypes ==
  ASSUME ServerTyped, PageTyped, Watch \/ \E i \in Ids : Touch(i)
  PROVE  ServerTyped' /\ PageTyped'
<1>1. status \in Statuses /\ OnePerHost(status)
  BY DEF ServerTyped
<1>2. ASSUME status' \in Statuses, OnePerHost(status'), handler' = handler,
             watcher'.at \in {"wait", "mark", "publish"}, watcher'.todo \subseteq Ids,
             watcher'.at = "publish" => watcher'.id \in Ids
      PROVE  ServerTyped'
  BY <1>2 DEF ServerTyped, OnePerHost, Working
<1>3. CASE \E i \in Ids : Touch(i)
  <2>1. PICK i \in Ids : Touch(i)
    BY <1>3
  <2>2. status' \in Statuses /\ OnePerHost(status')
    <3>1. "idle" \in Status
      BY DEF Status
    <3>2. QED
      BY <1>1, <2>1, <3>1, StatusChanges DEF Touch
  <2>3. ServerTyped'
    BY <1>2, <2>1, <2>2 DEF Touch, ServerTyped
  <2>4. PageTyped'
    BY <2>1 DEF Touch, PageTyped
  <2>5. QED
    BY <2>3, <2>4
<1>4. CASE \E stale \in SUBSET Ids : Tick(stale)
  <2>1. PICK stale \in SUBSET Ids : Tick(stale)
    BY <1>4
  <2>2. ServerTyped'
    BY <1>1, <1>2, <2>1 DEF Tick
  <2>3. PageTyped'
    BY <2>1 DEF Tick, PageTyped
  <2>4. QED
    BY <2>2, <2>3
<1>5. CASE \E i \in Ids : Mark(i)
  <2>1. PICK i \in Ids : Mark(i)
    BY <1>5
  <2> DEFINE st == IF Exists(i) THEN "offline" ELSE "absent"
  <2>2. st \in Status /\ (status[i] # "absent" \/ st = "absent")
    BY DEF Status, Exists
  <2>3. status' = [status EXCEPT ![i] = st]
    BY <2>1 DEF Mark
  <2> HIDE DEF st
  <2>4. status' \in Statuses /\ OnePerHost(status')
    BY <1>1, <2>2, <2>3, StatusChanges
  <2>5. ServerTyped'
    BY <1>2, <2>1, <2>4 DEF Mark, ServerTyped
  <2>6. PageTyped'
    BY <2>1 DEF Mark, PageTyped
  <2>7. QED
    BY <2>5, <2>6
<1>6. CASE PublishOffline
  <2>1. About("agent_status", watcher.id, "offline") \in Event
    BY <1>6, AboutIsEvent DEF PublishOffline, ServerTyped, Status
  <2>2. ServerTyped'
    BY <1>1, <1>2, <1>6 DEF PublishOffline, Waiting, ServerTyped
  <2>3. PageTyped'
    BY <1>6, <2>1, SendingKeeps DEF PublishOffline, PageTyped
  <2>4. QED
    BY <2>2, <2>3
<1>7. QED
  BY <1>3, <1>4, <1>5, <1>6 DEF Watch

\* Every step keeps them.
LEMMA TypesKept == ServerTyped /\ PageTyped /\ [Next]_vars => ServerTyped' /\ PageTyped'
<1> SUFFICES ASSUME ServerTyped, PageTyped, [Next]_vars PROVE ServerTyped' /\ PageTyped'
  OBVIOUS
<1>1. CASE UNCHANGED vars
  BY <1>1 DEF vars, ServerTyped, PageTyped, OnePerHost, Working
<1>2. CASE Next
  BY <1>2, RequestKeepsTypes, TellingKeepsTypes, WatchingKeepsTypes, PageKeepsTypes DEF Next
<1>3. QED
  BY <1>1, <1>2

\* They hold at the start.
LEMMA TypedAtFirst == Init => ServerTyped /\ PageTyped
<1> SUFFICES ASSUME Init PROVE ServerTyped /\ PageTyped
  OBVIOUS
<1>1. ServerTyped
  BY DEF Init, ServerTyped, OnePerHost, Exists, Working, Waiting
<1>2. Nobody \in Statuses
  BY DEF Nobody, Statuses, Status
<1>3. wire = <<>> /\ wire \in Seq(Event) /\ Len(wire) <= WireCap
  BY DashboardAssumption DEF Init
<1>4. page \in [stream : {"connecting", "open"}, fetch : {"none", "asked", "answered"}, list : Statuses]
  BY <1>2 DEF Init, Loading
<1>5. PageTyped
  BY <1>2, <1>3, <1>4 DEF Init, PageTyped
<1>6. QED
  BY <1>1, <1>5

\* The registry, the events on their way and the page keep their types, and no
\* two agents share a host, whatever heartbeats and the watcher do in between.
THEOREM TypeCorrect == Spec => []TypeOK
<1>1. ServerTyped /\ PageTyped => TypeOK
  BY DEF ServerTyped, PageTyped, TypeOK, OnePerHost, Exists, Working
<1>2. QED
  BY <1>1, TypedAtFirst, TypesKept, PTL DEF Spec
=============================================================================
