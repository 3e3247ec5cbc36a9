----------------------------- MODULE Dashboard ------------------------------
(***************************************************************************)
(* What a dashboard shows of the registry: the handlers that change an     *)
(* agent and publish an event about it afterwards (internal/server/), the  *)
(* heartbeats and the stale watcher (internal/registry/), and the agents   *)
(* map of the page (internal/ui/assets/app.js), which is filled by a list  *)
(* of agents and kept up to date by the events.                            *)
(*                                                                         *)
(* The broker is what LossyBroadcast promises: frames arrive in the order  *)
(* of their publication, any of them may be lost.  An agent is its status; *)
(* "streaming" and "error" are left out, which the page derives from the   *)
(* timeline events and the orchestrator does not know.                     *)
(***************************************************************************)
EXTENDS Naturals, Sequences

CONSTANTS
  Ids,          \* agent identifiers
  Urls,         \* host addresses
  Home,         \* the host each agent registers with
  Handlers,     \* requests that can be in progress at the same time
  WireCap,      \* bound on frames on their way to the page
  Lossy         \* whether frames and answers get lost

ASSUME DashboardAssumption ==
  /\ Home \in [Ids -> Urls]
  /\ WireCap \in Nat \ {0}
  /\ Lossy \in BOOLEAN

VARIABLES
  status,       \* AgentRegistry.agents: the status of each agent
  handler,      \* the requests in progress, with the event each has to publish
  watcher,      \* startStaleWatcher: what it is about to do, and for which agents
  wire,         \* frames between the broker and the page
  page,         \* the page's EventSource and its GET /agents
  shown,        \* App.state.agents
  untold,       \* history: changes to an agent that no event has told since
  astray        \* history: the page lost a frame, or met one out of order

vars == <<status, handler, watcher, wire, page, shown, untold, astray>>

Status == {"absent", "idle", "offline"}
Statuses == [Ids -> Status]
Nobody == [i \in Ids |-> "absent"]

\* An event and the status of its agent that it stands for.
Event == [kind : {"agent_registered", "agent_unregistered", "agent_status", "agent_updated"},
          id : Ids, status : Status]
About(kind, i, st) == [kind |-> kind, id |-> i, status |-> st]

Idle == [pc |-> "idle"]
Publishing(e) == [pc |-> "publish", event |-> e]
Copying(i) == [pc |-> "copy", id |-> i]
Refetching(i) == [pc |-> "refetch", id |-> i]

Waiting == [at |-> "wait", todo |-> {}]
Loading == [stream |-> "connecting", fetch |-> "asked", list |-> Nobody]

Exists(i) == status[i] # "absent"
Open == page.stream = "open"

Init ==
  /\ status \in Statuses
  /\ \A i, j \in Ids : Exists(i) /\ Exists(j) /\ Home[i] = Home[j] => i = j
  /\ handler = [h \in Handlers |-> Idle]
  /\ watcher = Waiting
  /\ wire = <<>>
  /\ page = Loading
  /\ shown = Nobody
  /\ untold = {}
  /\ astray = FALSE

-----------------------------------------------------------------------------
(* Publication.                                                            *)

\* Another request has an event about the same agent still to publish; one that
\* refetches an agent that is gone will have none.
Followed(e) ==
  \E h \in Handlers :
    \/ handler[h].pc = "copy" /\ handler[h].id = e.id
    \/ handler[h].pc = "refetch" /\ handler[h].id = e.id /\ Exists(e.id)
    \/ handler[h].pc = "publish" /\ handler[h].event.id = e.id /\ handler[h].event # e

\* The registry has moved on, and no later event will say so.
Crossed(e) ==
  /\ status[e.id] # e.status
  /\ ~(e.kind = "agent_status" /\ ~Exists(e.id))
  /\ ~Followed(e)

\* A page that has no agents and no answer yet will find everything in the list.
Blank == page.fetch = "asked" /\ shown = Nobody

\* What an event says of its agent: agent_status does not add an unknown one.
Told(e) == {e.id} \X (IF e.kind = "agent_status" THEN {"status"} ELSE {"entry", "status"})

\* Broker.Publish, and the way to the page.
Send(e) ==
  /\ untold' = IF status[e.id] = e.status THEN untold \ Told(e) ELSE untold
  /\ \/ /\ Open /\ Len(wire) < WireCap
        /\ wire' = Append(wire, e)
        /\ astray' = (astray \/ Crossed(e))
     \/ /\ Open /\ Lossy
        /\ wire' = wire
        /\ astray' = TRUE
     \/ /\ ~Open
        /\ wire' = wire
        /\ astray' = (astray \/ ~Blank)

-----------------------------------------------------------------------------
(* Requests: the change first, the event in a later step.                  *)

Return(h) == handler' = [handler EXCEPT ![h] = Idle]

\* Mutant: Register does not look for another agent at the host.
RivalsOverlooked(i) == {}

\* The agent that Register replaces.
Rivals(i) == {j \in Ids \ {i} : Exists(j) /\ Home[j] = Home[i]}

\* The requests after agents left the map, and h has taken its next step.  A
\* registration builds its event from the object it put there, which nothing
\* changes any more.
Detached(h, next, gone) ==
  [k \in Handlers |->
     IF k = h THEN next
     ELSE IF handler[k].pc = "copy" /\ handler[k].id \in gone
            THEN Publishing(About("agent_registered", handler[k].id, status[handler[k].id]))
            ELSE handler[k]]

\* handleRegister and handleAddAgent: the agent at the same host is replaced,
\* and no event says so.  When the save fails there is no event at all, though
\* the map has changed.
Register(h, i, saved) ==
  /\ handler[h].pc = "idle"
  /\ status' = [j \in Ids |-> IF j = i THEN "idle" ELSE IF j \in Rivals(i) THEN "absent" ELSE status[j]]
  /\ untold' = untold \cup (Rivals(i) \cup IF saved THEN {} ELSE {i}) \X {"entry"}
  /\ handler' = Detached(h, IF saved THEN Copying(i) ELSE Idle, Rivals(i) \cup {i})
  /\ UNCHANGED <<watcher, wire, page, shown, astray>>

\* The event is built from the live object, which may have changed its status.
Copy(h) ==
  /\ handler[h].pc = "copy"
  /\ LET i == handler[h].id IN
       handler' = [handler EXCEPT ![h] = Publishing(About("agent_registered", i, status[i]))]
  /\ UNCHANGED <<status, watcher, wire, page, shown, untold, astray>>

\* handleUnregister and handleDeleteAgent.
Unregister(h, i, saved) ==
  /\ handler[h].pc = "idle"
  /\ Exists(i)
  /\ status' = [status EXCEPT ![i] = "absent"]
  /\ untold' = IF saved THEN untold ELSE untold \cup {<<i, "entry">>}
  /\ handler' = Detached(h, IF saved THEN Publishing(About("agent_unregistered", i, "absent"))
                                     ELSE Idle, {i})
  /\ UNCHANGED <<watcher, wire, page, shown, astray>>

\* handleUpdateAgent, whose body may name a status, and enrichAgentFromRole.
Update(h, i, st) ==
  /\ handler[h].pc = "idle"
  /\ Exists(i)
  /\ status' = [status EXCEPT ![i] = st]
  /\ handler' = [handler EXCEPT ![h] = Refetching(i)]
  /\ UNCHANGED <<watcher, wire, page, shown, untold, astray>>

\* The copy to publish.  Without one the request panics, and is recovered.
Refetch(h) ==
  /\ handler[h].pc = "refetch"
  /\ LET i == handler[h].id IN
       handler' = [handler EXCEPT ![h] =
                     IF Exists(i) THEN Publishing(About("agent_updated", i, status[i])) ELSE Idle]
  /\ UNCHANGED <<status, watcher, wire, page, shown, untold, astray>>

Publish(h) ==
  /\ handler[h].pc = "publish"
  /\ Send(handler[h].event)
  /\ Return(h)
  /\ UNCHANGED <<status, watcher, page, shown>>

-----------------------------------------------------------------------------
(* Heartbeats and silence.                                                 *)

\* Touch, by a heartbeat, a ping or an event: an agent that comes back is idle
\* again, and no event says so.
Touch(i) ==
  /\ status[i] = "offline"
  /\ status' = [status EXCEPT ![i] = "idle"]
  /\ untold' = untold \cup {<<i, "status">>}
  /\ UNCHANGED <<handler, watcher, wire, page, shown, astray>>

\* FindStale.  There is no clock: any agent that is not offline may have been
\* silent for the timeout.
Tick(stale) ==
  /\ watcher.at = "wait"
  /\ stale # {} /\ \A i \in stale : status[i] = "idle"
  /\ watcher' = [at |-> "mark", todo |-> stale]
  /\ UNCHANGED <<status, handler, wire, page, shown, untold, astray>>

\* MarkOffline, which does not look at LastSeenAt again.
Mark(i) ==
  /\ watcher.at = "mark" /\ i \in watcher.todo
  /\ status' = [status EXCEPT ![i] = IF Exists(i) THEN "offline" ELSE "absent"]
  /\ watcher' = [at |-> "publish", todo |-> watcher.todo \ {i}, id |-> i]
  /\ UNCHANGED <<handler, wire, page, shown, untold, astray>>

\* The event goes out for an agent that is gone, too.
PublishOffline ==
  /\ watcher.at = "publish"
  /\ Send(About("agent_status", watcher.id, "offline"))
  /\ watcher' = IF watcher.todo = {} THEN Waiting ELSE [at |-> "mark", todo |-> watcher.todo]
  /\ UNCHANGED <<status, handler, page, shown>>

-----------------------------------------------------------------------------
(* The page.                                                               *)

\* connectSSE: the orchestrator has subscribed a channel for this page.
OpenStream ==
  /\ ~Open
  /\ page' = [page EXCEPT !.stream = "open"]
  /\ UNCHANGED <<status, handler, watcher, wire, shown, untold, astray>>

\* The connection breaks; EventSource will connect again, the frames are gone.
LoseStream ==
  /\ Open /\ Lossy
  /\ page' = [page EXCEPT !.stream = "connecting"]
  /\ wire' = <<>>
  /\ astray' = (astray \/ wire # <<>>)
  /\ UNCHANGED <<status, handler, watcher, shown, untold>>

\* loadInitialState asks again after the dialog has added an agent.
Ask ==
  /\ page.fetch = "none"
  /\ page' = [page EXCEPT !.fetch = "asked"]
  /\ UNCHANGED <<status, handler, watcher, wire, shown, untold, astray>>

\* handleListAgents builds the answer.
Answer ==
  /\ page.fetch = "asked"
  /\ page' = [page EXCEPT !.fetch = "answered", !.list = status]
  /\ UNCHANGED <<status, handler, watcher, wire, shown, untold, astray>>

\* The answer does not come, and the page goes on without.
FetchFails ==
  /\ page.fetch # "none" /\ Lossy
  /\ page' = [page EXCEPT !.fetch = "none", !.list = Nobody]
  /\ astray' = TRUE
  /\ UNCHANGED <<status, handler, watcher, wire, shown, untold>>

\* The answer is merged: nobody is removed.
Merge ==
  /\ page.fetch = "answered"
  /\ shown' = [i \in Ids |-> IF page.list[i] = "absent" THEN shown[i] ELSE page.list[i]]
  /\ page' = [page EXCEPT !.fetch = "none", !.list = Nobody]
  /\ UNCHANGED <<status, handler, watcher, wire, untold, astray>>

\* Mutant: the listener for agent_unregistered does not remove the agent.
ShownAfterRemovesNobody(e) ==
  IF e.kind = "agent_unregistered" \/ (e.kind = "agent_status" /\ shown[e.id] = "absent")
    THEN shown[e.id] ELSE e.status

\* The listeners: only a status event leaves an unknown agent alone.
ShownAfter(e) ==
  IF e.kind = "agent_status" /\ shown[e.id] = "absent" THEN "absent" ELSE e.status

\* A frame arrives.  An answer that was built before and is merged later would
\* undo it.
Receive ==
  /\ wire # <<>>
  /\ LET e == Head(wire) IN
       /\ shown' = [shown EXCEPT ![e.id] = ShownAfter(e)]
       /\ astray' = (astray \/ page.list[e.id] \notin {"absent", ShownAfter(e)})
  /\ wire' = Tail(wire)
  /\ UNCHANGED <<status, handler, watcher, page, untold>>

\* The user reloads the page.
Reload ==
  /\ page' = Loading
  /\ wire' = <<>>
  /\ shown' = Nobody
  /\ untold' = {}
  /\ astray' = FALSE
  /\ UNCHANGED <<status, handler, watcher>>

-----------------------------------------------------------------------------
Request(h) ==
  \E i \in Ids :
    \/ \E saved \in BOOLEAN : Register(h, i, saved) \/ Unregister(h, i, saved)
    \/ \E st \in {"idle", "offline"} : Update(h, i, st)

Watch == PublishOffline \/ (\E stale \in SUBSET Ids : Tick(stale)) \/ (\E i \in Ids : Mark(i))

PageStep ==
  OpenStream \/ LoseStream \/ Ask \/ Answer \/ FetchFails \/ Merge \/ Receive \/ Reload

Next ==
  \/ \E h \in Handlers : Request(h) \/ Copy(h) \/ Refetch(h) \/ Publish(h)
  \/ \E i \in Ids : Touch(i)
  \/ Watch
  \/ PageStep

Spec == Init /\ [][Next]_vars

-----------------------------------------------------------------------------
(* Properties.                                                             *)

\* The type of every variable, and one agent per host.
TypeOK ==
  /\ status \in Statuses
  /\ \A i, j \in Ids : Exists(i) /\ Exists(j) /\ Home[i] = Home[j] => i = j
  /\ \A h \in Handlers :
       \/ handler[h] = Idle
       \/ handler[h].pc \in {"copy", "refetch"} /\ handler[h].id \in Ids
       \/ handler[h].pc = "publish" /\ handler[h].event \in Event
  /\ watcher.at \in {"wait", "mark", "publish"} /\ watcher.todo \subseteq Ids
  /\ watcher.at = "publish" => watcher.id \in Ids
  /\ wire \in Seq(Event) /\ Len(wire) <= WireCap
  /\ page.stream \in {"connecting", "open"} /\ page.fetch \in {"none", "asked", "answered"}
  /\ page.list \in Statuses /\ shown \in Statuses
  /\ untold \subseteq Ids \X {"entry", "status"} /\ astray \in BOOLEAN

\* Nothing is on its way to the page.
Settled ==
  /\ \A h \in Handlers : handler[h].pc = "idle"
  /\ watcher.at # "publish"
  /\ wire = <<>>
  /\ Open /\ page.fetch = "none"

\* The page agrees with the registry once everything has arrived, except about
\* agents whose replacement, return or unsaved change was published by nobody.
\* So these omissions, a lost frame or answer, and a publication or an answer
\* that is overtaken are all that can lead a dashboard astray.
DashboardFollows ==
  Settled /\ ~astray => \A i \in Ids : (\E x \in untold : x[1] = i) \/ shown[i] = status[i]
=============================================================================
