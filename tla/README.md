# franky-orchestrator in TLA+

The orchestrator is a Go server that keeps a registry of coding agents, reads
the event stream of each of them, and fans the events out to browsers, which show
a dashboard and a timeline. These modules model the parts of it that keep state
and run concurrently. TLC checks them on small instances; TLAPS proves the main
invariants for every value of the constants. Paths below are relative to `src/`.

## The system

| component | state it keeps | operations | what it must get right |
| --- | --- | --- | --- |
| Agent registry `internal/registry/registry.go`, `agent.go` | `agents`, `dirty`, under `mu` | Register, Unregister, UpdateAgent, Touch, MarkOffline, UpdateUsage, PersistAll, Load, flush loop | one agent per host; no answered registration lost; no change forgotten by the dirty flag |
| Persister `persister.go` | `agents.json`, `agents.json.tmp` | Save, SaveCompact, Load | the file is never half-written |
| Stale watcher `stale_watcher.go` | none of its own | a tick: FindStale, then MarkOffline and an event for each | what it tells of an agent is still so |
| Server `internal/server/server.go` | `consumerCancels`, the shutdown context | cancelConsumer, startSSEConsumer, Shutdown | a wanted consumer stays reachable; all end at a shutdown |
| Handlers `handlers_registration.go`, `handlers_agents.go` | none | register, unregister, heartbeat, list, delete, add (and its enrichment goroutine), update | several critical sections make one change |
| SSE consumer `internal/agents/sse_consumer.go` | its context and connection | Run: connect, read, back off, try again | ends when cancelled; does not speak for an agent that was replaced |
| Event broker `internal/events/broker.go` | `publishCh`, `subscribers` and their channels | Publish, Subscribe, Unsubscribe, Run | order; no send on a closed channel; no browser holds up another |
| Browser stream `handlers_events.go` | one channel per browser | subscribe, write frames, unsubscribe | ends when it should |
| Usage poller `usage_poller.go` | none | a tick: GET /usage of each agent, UpdateUsage, event | |
| Dashboard `internal/ui/assets/app.js` | the map of shown agents, one EventSource | load the list, apply events, reload | agrees with the registry |
| Timeline, same file | `timelineEvents`, `pendingMessages`, `pendingTools`, `_itemsCache` and its version, view and filters, localStorage | store, cap, persist, restore, stream deltas, build, render, filter, switch views, clean up | pairs what belongs together, loses no text, shows the last frame |
| Agent client and proxy handlers | none | forward a request | |
| Routing, middleware, responses, static files | none | | |

How they interact: a handler calls the registry (which saves to disk inside the
call), then the server's map of consumers, then the broker. A consumer is a
goroutine per registration; it calls Touch and Publish. Run moves frames from
`publishCh` to one channel per browser and drops what does not fit. `main` loads the
registry, starts the goroutines, reconnects to stored agents, and on a signal cancels
the shutdown context, waits for the handlers, flushes once more and exits.

What is hard about it:

- The locked save and the unlocked write of the flush loop interleave, fail and
  are killed between system calls.
- A change is several critical sections: in memory, on disk, in the map of
  consumers, in the events. Requests, watcher and goroutines run in between.
- Frames may be dropped in two places; a browser may be slow, go, or come back, and
  it learns what happened only from frames and from a list built at another time.
- A signal arrives while handlers and goroutines are at work.
- A build of the timeline runs over all stored events again, with maps that earlier builds and
  the deltas have written, over a list that is capped, restored and stripped of payloads.

## Modules

| module | models | checked by | proofs |
| --- | --- | --- | --- |
| `AgentStore` | registry, flush loop, persister, load and exit | `MCAgentStore` | `AgentStoreProofs` |
| `AgentServer` | handlers that start and stop consumers, `Server`, consumers, restart | `MCAgentServer` | `AgentServerProofs` |
| `EventBroker` | broker and `handleBrowserSSE` | `MCEventBroker` | `EventBrokerProofs` |
| `LossyBroadcast` | what the broker promises a browser (abstract) | refined by `EventBroker` | `EventBrokerProofs` |
| `Dashboard` | handlers' events, stale watcher, heartbeats, the page's map of agents | `MCDashboard` | `DashboardProofs`, `DashboardFollowsProofs` |
| `TimelineItems` | the build of the timeline from stored events, its filters | `MCTimeline` | `TimelineItemsProofs` |
| `Timeline` | the page's listeners, buffers, cache, views, localStorage | `MCTimeline` | `TimelineProofs`, `TimelineContentProofs` |

**AgentStore.** `agents` and `dirty` are the fields of AgentRegistry. `writer` holds the
two activations of `Persister.save`: "save" under `mu` for Register, Unregister and
PersistAll, "flush" without it. Each system call is an action (`Create`, `Write`,
`Rename`, `Cleanup`) that may fail, and `fd` says which name the open inode still has,
so that a writer which truncates, renames or removes the other's file does what
the kernel does. `path` and `tmp` are the two files: absent, blank, torn or a
map. `Crash` may happen anywhere; a start runs `Recover`, which is Load with
main's handling of its error. `doubt` is a history variable: why the file may be behind
memory since the last good save ("overlap" of both writers, a "failed" save).
Status and LastSeenAt are left out, except that their setters raise the flag.

**AgentServer.** A handler is a process with one action per critical section:
`Register` (the registry, and the goroutine it then starts), `CancelBeforeRemoval`,
`Unregister`, and for handleAddAgent `Probe` for each identifier it tries and `Add`. A consumer is "pending"
until its goroutine has run `Start` (which swaps the cancel function), then goes between
`LoopTop` (the tests of SSEConsumer.Run), reading, and a stream that ends.
`enricher` is the goroutine that fetches /role. A restart starts a consumer for each
stored agent. The registry is its map from agents to hosts here, and
AgentStore opens it up.

**EventBroker.** `Publish` and the fan-out drop a frame when a channel is full.
`dispatcher` is Run: selecting, waiting for the read lock, or serving the channels
still to do. Frames are numbers in the order of publication; `seen` is the newest each
browser was written, over all its connections.

**Dashboard.** A request changes the registry in one step and publishes in a later one.
agent_registered is built from the object in the map, in a step of its own (`Copy`), because
`agentToMap(agent)` reads the object that Register put there; when it has left the map
nothing changes it any more (`Detached`). agent_updated is built from a copy (`Refetch`).
The watcher finds, marks and publishes in three steps. Between broker and page there is a wire
that loses frames, which is what LossyBroadcast allows. `untold` and `astray`
are history variables that name the causes of a disagreement: a change no event told
(a replaced agent, a return through Touch, a save that failed), and a frame or
answer that was lost, or overtaken by a later change.

**TimelineItems.** `BuildTimelineItems` is the loop of buildTimelineItems, as the recursive
function `Building`, with one operator per kind of event. It returns the items, what the loop has left in the two
maps, and whether it has thrown: the code reads fields of `ev.data`, which may be null
(`data` FALSE). The order of the items and the text of a row are left out. A text is the sequence of
its parts, each tagged with the message it belongs to, so that a model can tell whose text an
item shows. One tick of the clock stands for more than the second after which a message without
text is shown.

**Timeline.** `app` is the object App. `events`, `msgs`, `tools`, `agents`, `view`, the
filters and `cache` are its fields; `stale` is `_prevEventsVersion !== _eventsVersion`,
`frame` is `_pendingTimelineRender`, `thrown` whether the last render threw. `last`, `basis`,
`removed` and `broken` are history: the last frame handled, what the items on screen were built from,
whether an agent was removed since, and whether the last build threw. `storage` is localStorage; `saved` (history) says
whether the last write to it succeeded. `OnTimelineEvent` is the whole listener: store, cap, persist,
status, render. `OnMessageUpdate` and `OnUnregistered` are the other two that touch the timeline.
`Reload` starts a fresh page from localStorage. The agents are outside of the repository; what the
model says of them is what their events mean to the page: turns, one message at a time in
a turn, any number of calls with identifiers of their own, errors, retries and interruptions. Their
frames arrive in order (`EventBroker`) or are missed. Dashboard has the races of the
orchestrator's own events, so `TellStatus` only lets such an event bring a status of the registry.

## Runs

| run | expected | instance | shows |
| --- | --- | --- | --- |
| `store` | pass | 2 agents of one host, 2 metadata, 1 failing system call, any number of crashes, fair | `TypeOK`, `OneAgentPerHost`, `IdentityDurable`, `Settled`, `FileAtomic`, `ChangesReachDisk` |
| `store_survives` | violation | 1 agent | `RegistrationSurvivesCrash` |
| `store_atomic` | violation | 1 agent | `AtomicWrites` |
| `server` | pass | 2 agents of one host, additions, 2 requests, 3 consumers | `TypeOK`, `LiveConsumerIsCancellable`, `ReplacedIsSilent` |
| `server_live` | pass | 2 agents that move between 2 hosts, additions, 1 request, 2 consumers, 1 failed save, fair | `LiveConsumerIsCancellable`, `CancelledStops`, `ShutdownStopsConsumers` |
| `server_consumed` | violation | 2 agents of one host | `RegisteredHasConsumer` |
| `server_panic` | violation | additions and removals | `NoPanic` |
| `broker` | pass | a reader and a slow browser, publishCh of 2, channels of 1, 4 frames, fair | `TypeOK`, `NeverSendsOnClosed`, `InOrderAtMostOnce`, `SlowBrowserHurtsNobody` |
| `dashboard` | pass | 2 agents of one host, 2 requests, 1 frame on the wire, losses | `TypeOK`, `DashboardFollows` |
| `timeline` | pass | 1 agent, a list of 3, 5 frames, 2 calls at a time, 1 incident (an error, a removal, a missed frame, a failed write, a reload), 1 tick | `TypeOK`, `ReloadKeepsEvents`, `ShownIsCurrent`, `StreamingOnlyInTurn`, `CallsArePaired`, `RestoredIsRight` |
| `timeline_removed` | violation | the same, 3 frames | `BuildNeverThrows` |
| `timeline_text` | violation | a list of 5, 6 frames, no incidents | `AccumulatedTextStays` |

Why the bounds are enough. Every race in the store is between the two writers, of which
there are never more than two; two agents of a host make a replacement
and a re-registration possible, two metadata values an edit, and one failure
per behaviour meets every system call in every state. A move between hosts changes the map in one
step like a registration; it is covered by the theorems, which hold for any hosts.
The server needs two requests for
a race and a third consumer for the goroutine that comes late; identical requests and consumers are
interchangeable, hence the symmetry. `ReplacedIsSilent` is true only where agents keep to one host
and saves succeed, so `server` has such an instance, and its theorem such an assumption; that the
map of cancel functions is right where agents move and saves fail is a theorem without it, and
`server_live` checks it on such an instance. In the broker a publishCh of two and channels
of one overflow with four frames, in both places. The dashboard needs two agents of one host for a
replacement and two requests plus the watcher for publications that overtake each other.
A third request, with one agent, adds one case, which `Followed` names and which holds
too (`Handlers = {h1, h2, h3}`, `Ids = {a}`): a request about to refetch an agent that is
removed publishes nothing, and so corrects nothing that another has sent. With
two frames on the wire and one request the result is the same. Its run follows an `astray` page no
further (`OnCourse`): only a reload changes that, and the registry, which no page
influences, passes through the same states while a fresh page waits.
The timeline needs a list of three to pair two calls whose
ends come in another order and to lose the start of one of them, four frames for that and a fifth
to see what the maps have kept; agents share nothing but the list and the filters, and are
told apart in each map, so one is enough. The one status told is idle, which makes an
agent known or ends what is shown as work; no listener looks for offline. One incident at a
time, each kind of it at every point of a behaviour.
Filters select among the items that are built and change no map, so `FewFilters` sets one of
them at a time, and none after the tick.
Symmetry is used only where safety is checked. CHECK_DEADLOCK is off where the
program may stop for good or the frame bound is used up.

### Findings

The violations are disagreements between the code and what its comments or README say:

1. `store_survives`: doFlush copies the map under the lock and writes the copy
   after releasing it. An Unregister that is answered in between is undone on
   disk, and nothing is dirty. registry.go:34 and 59 promise that registration
   changes survive a crash.
2. `store_atomic`: both writers use one temporary name without a lock of their own, so
   the flush can truncate what the other is about to rename: agents.json is empty. persister.go:10
   promises atomic writes.
3. `server_consumed`: a late startSSEConsumer of a replaced agent cancels the consumer
   of the agent that replaced it and then ends itself. README.md:51 promises
   that the orchestrator consumes a registered agent's stream.
4. `server_panic`: enrichAgentFromRole uses the result of a second Get without its
   `ok`; the agent may be gone, and no recover covers the goroutine.
5. `timeline_removed`: agent_unregistered sets the data of stored events to null, and every later
   build reads it: buildTimelineItems throws for a call or a message of the removed agent,
   buildTimelineEntry for an error or a retry. getOrBuildItems has noted the version by then, so
   the old items count as current, and the rest of the agents are stuck with them too. A later event
   persists the null. app.js:217 says that the structure is preserved for the remaining visible items.
6. `timeline_text`: a build that runs while a second message is streaming meets the stored
   start and end of the first one with the second one's buffer: the end takes its text and deletes
   it. app.js:934-937 says that accumulated text must not be lost that way. docs/todo.md:211 reports
   messages that appear shortly and are then deleted from the timeline.

Four more that are no violations of a run: nothing in handleBrowserSSE listens for a
shutdown, although handlers_events.go:35 says that the loop blocks "until client disconnects or
server shuts down", so a shutdown with an open dashboard takes the whole ten seconds; while the dashboard is
shown no build runs, so the texts of an agent's successive messages grow together in one
buffer; two tabs of one browser overwrite each other's localStorage; and a message that starts while
the buffer of another is left, whose end was lost or cut off by an interruption, takes that buffer over.
app.js:931-933 calls what happens there orphan cleanup, but the orphan is only shown: its buffer stays,
since 962 makes a new one only if there is none, and the message's own end is then shown with the orphan's
start and a duration counted from it. `RestoredIsRight` does not say that this is right: after a lost end
it admits any start that no end has followed (start 1, start 2, end 2: either of them), and demands
the message's own where none was lost, and its own text in every case.

`IdentityDurable`, `FileAtomic` and `Settled` are what does hold of the store: they
name the overlap and the failed save as the only exceptions. In the same way `DashboardFollows`
says that the named causes are the only ones that leave a dashboard wrong; it does not say that
those are harmless, and no comment or test of the code promises it.

### Fairness

- `AgentStore`: weak fairness of each writer's steps, as Go runs every runnable goroutine,
  and strong fairness of the flush tick and of the step that raises the flag again after
  an error. Both need `mu`, which is free again and again rather than for good; Go's mutex
  hands itself to a waiter that starves.
- `AgentServer`: weak fairness of each handler's and each consumer's own steps. A stream
  may stay open for ever, but not under a cancelled context, which closes the connection.
- `EventBroker`: weak fairness of Run and of a handler that is leaving; only the browsers
  in `Readers` are assumed to take what is written to them.
- `Dashboard` and `Timeline` state safety only: the page does nothing by itself but draw frames.

## Proofs

All theorems hold for any finite or infinite sets of agents, hosts, requests, consumers and
browsers, and any bounds. They assume what the modules' ASSUMEs state: the null values
are no ordinary values, capacities are positive, the inputs of requests are
agents and hosts. One theorem, `ReplacedStaysSilent`, has hypotheses of its own (below). Every
invariant of a passing run is a theorem.

| theorem | says |
| --- | --- |
| `AgentStoreProofs!TypeCorrect` | types |
| `AgentStoreProofs!HostsStayUnique` | `OneAgentPerHost` |
| `AgentStoreProofs!FileStaysWhole` | `FileAtomic` |
| `AgentStoreProofs!RegistrationsAreDurable` | `IdentityDurable` |
| `AgentStoreProofs!QuietStoreIsSaved` | `Settled` |
| `AgentServerProofs!TypeCorrect` | types |
| `AgentServerProofs!ConsumersStayCancellable` | `LiveConsumerIsCancellable` |
| `AgentServerProofs!StreamsAreNotDoubled` | at most one uncancelled consumer per host |
| `AgentServerProofs!ReplacedStaysSilent` | `ReplacedIsSilent`, where agents keep to one host and saves succeed |
| `EventBrokerProofs!TypeCorrect` | types and channel capacities |
| `EventBrokerProofs!ChannelsServedAreOpen` | `NeverSendsOnClosed` |
| `EventBrokerProofs!DeliveredInOrder` | `EventBroker` implements `LossyBroadcast` |
| `DashboardProofs!TypeCorrect` | types, and one agent per host |
| `DashboardFollowsProofs!DashboardsFollow` | `DashboardFollows` |
| `TimelineProofs!TypesOfWhatIsStored` | types of what is stored, and the limit of both lists |
| `TimelineProofs!ReloadsAreComplete` | `ReloadKeepsEvents` |
| `TimelineProofs!ScreenIsCurrent` | `ShownIsCurrent` |
| `TimelineProofs!WorkIsShownInTurns` | `StreamingOnlyInTurn` |
| `TimelineContentProofs!TypeCorrect` | types, those of maps, buffers and cached items included |
| `TimelineContentProofs!CallsStayPaired` | `CallsArePaired` |
| `TimelineContentProofs!ReloadsShowWhatIsStored` | `RestoredIsRight`: calls with their start, messages with their text and with a start that no end has followed |

- *One agent per host* is inductive with the types, since it speaks of every copy of
  the map. The point of the proof is Register: it deletes the first rival it meets,
  which is enough only because there was at most one.
- *The file* needs `WriterInv`: a writer that met no other (`solo`) owns the temporary
  file, what it is about to rename is complete, and without an overlap in `doubt` every
  writer is solo. `FileAtomic` alone says nothing of the temporary file, so it is not inductive.
- *Durability* needs `DataInv` on top: which of memory, the writers' data and the file
  agree, for each place the writers can be in.
- *The dashboard*'s types are inductive as they stand: one agent per host is among them, and the
  watcher's MarkOffline may come for an agent that is gone without bringing it back.
- *Cancellation* needs `MapInv` and `ActorInv`: a kept cancel function belongs to a consumer of
  that host, a goroutine that has not run yet owns none, handlers work on real
  hosts, and a dead process has no goroutines.
- *Replaced agents* need `HomeInv` under the assumption `Steady(Home)`: whoever asks for an agent,
  at whatever time, names the same host, and no save fails; several agents may share a host, and the agents stored
  before the start are at home too. It is the instance `server`, where Home is the constant function, and
  what a deployment with fixed addresses is. `ReplacedIsSilent` speaks of a quiet server, so it is
  not inductive; `Relieved` says what is true at all times: a consumer that still reads for an agent whose host has
  been taken is about to be cancelled, because a goroutine of that host has yet to run. For an agent
  that moves this is false, since nothing cancels the consumer of the host it left.
- *Order* needs `OrderInv`: the channels are sorted, what a browser has seen is below
  what is in its channel, that is below the frame being served to it, and that is below
  what is still in publishCh.
- *The dashboard follows* by an invariant that foresees. `Heading` says what a page will show of an agent
  once every frame on the wire has been received, from what it shows now or from the list it is about to
  merge (`Base`). `FollowInv` says that this is the status in the registry (`Foreseen`), or that somebody
  still owes the page an event of the agent (`Due`, `OfflineDue`), or that the omission is in `untold`; unless the
  page is `astray`. `PathInv` says what may be on its way: agent_status frames come from
  the watcher alone and say offline, a wire without a connection is empty, and there is a list only in an answer.
- *What is stored* (`TimelineProofs`) is proved of any build, whatever it makes of the
  events. `Typed` is the part of `TypeOK` that no build writes, with one fact of the agents: outside of a
  turn nothing is in progress. A reload is complete because cutting an already cut list loses nothing.
- *The screen* needs `ScreenInv`: rendering trusts a cache whose version is current, so such a cache
  must have been built from the last frame, for the filters that are set and after the last removal,
  whatever the view (`Current`). `ShownIsCurrent` alone says nothing while a frame is waited for.
- *A build* (`TimelineItemsProofs`) needs induction over its loop. The induction theorems of the library
  take a predicate, which the provers cannot instantiate; `UpTo` takes the set of the places where the predicate
  holds instead, and gets its result from the least place outside of it (`LeastNumber`), which
  exists because < is well-founded. `BuildingUnfolds` shows that the recursive function
  exists. `PairedTo` and `MessagesTo` are the invariants of the loop: after k events, which starts and buffers are in
  the maps and which calls and messages among the items, given the first k events. `CallsOfBuild` says
  what any build shows of calls, from whatever earlier builds and deltas have left in the maps;
  `MessagesOfBuild` what one shows of messages that begins with empty maps: each end with the first start
  that no end has followed, which is its own unless an end was lost in between (`OpenedIsOpening`).
- *Calls* (`TimelineContentProofs`) need `CallsInv`: a call is open with one agent, and in the page's list and in
  localStorage starts and ends are in order, though the cap may have cut off a start (`Listed`). On top of it a page is
  `Sound`: the map of calls holds nothing but starts, an agent has one buffer, and the cache shows calls paired
  whenever its version counts as current. `CallsArePaired` is the last of these; without the
  maps it is not inductive.

TLC checked each of the properties on the instances above before it was proved.
Only model-checked: liveness (`ChangesReachDisk`, `CancelledStops`,
`ShutdownStopsConsumers`, `SlowBrowserHurtsNobody`), which is out of the prover's reach, and the six
violations, which are no theorems.

## Not modelled

- Usage poller: copies counters; nothing else depends on them.
- In the timeline: the order of the rows and their formatting, scrolling and the banner for new
  events, truncation and compaction of payloads, and two tabs that share localStorage.
- Client, proxy handlers, routing, middleware, responses, static files: no state between requests.
  That the recovery middleware covers handlers and not goroutines is part of AgentServer.
- Reading the stream (frame syntax, injection of the agent id), backoff delays, configuration,
  logging, rendering.
- Data races below a critical section (List hands out pointers to live agents): a model's
  step reads whole values. A machine crash: the file system is that of a running kernel.
- In the dashboard: cards, dialogs, counters, search, the orchestrator's restart under an open
  page. removeAgent deletes from the page by itself, but no card has a button that calls it.

## Plan

1. Done: AgentStore, AgentServer, EventBroker with LossyBroadcast, Dashboard, Timeline.
2. Dashboard: an abstract specification (a page that sees
   some past state of each agent, and ends at the present one) that it refines when
   nothing is lost; then the liveness of the watcher.
3. A consumer's stream: frames, Touch, and the backoff that is never reset,
   composed with the broker, so that a frame's way from agent to browser is one refinement.
4. Done: theorems for every invariant of the passing runs. Left: the action properties and the
   refinement that 2 and 3 add.
