------------------------------ MODULE Timeline ------------------------------
(***************************************************************************)
(* The timeline of the page (internal/ui/assets/app.js): the listeners     *)
(* that store events and stream texts into buffers, the cache of built     *)
(* items, rendering, filters and views, and the copy in localStorage that  *)
(* a reload starts from.                                                   *)
(*                                                                         *)
(* The agents are outside of the repository: they speak in turns, within   *)
(* a turn one message at a time and any number of calls, and an            *)
(* interruption or a fatal error ends a turn without ending what is in     *)
(* progress.  Their frames reach the page in order (EventBroker), unless   *)
(* the page is not connected.                                              *)
(***************************************************************************)
EXTENDS TimelineItems, FiniteSets, SequencesExt

CONSTANTS
  Cap,          \* 2000 events in memory, and as many in localStorage
  WholeText,    \* whether the end of a message carries its text
  DeltaKinds,   \* the kinds of delta that message_update carries
  Filters,      \* the event filters that are used
  AgentFilters, \* the agents whose tags are used
  Told,         \* the statuses the orchestrator tells
  MaxFrames,    \* bound on frames
  MaxIncidents, \* bound on errors, interruptions, removals, losses and reloads
  MaxCalls,     \* bound on the calls an agent has open
  MaxTime       \* bound on the clock

ASSUME TimelineAssumption ==
  /\ Cap \in Nat \ {0} /\ MaxFrames \in Nat /\ MaxCalls \in Nat /\ MaxTime \in Nat
  /\ MaxIncidents \in Nat /\ WholeText \in BOOLEAN
  /\ DeltaKinds \subseteq {"text", "toolcall_args", "thinking", "full"}
  /\ Filters \subseteq {"user", "assistant", "reasoning", "tools", "errors"}
  /\ AgentFilters \subseteq Agents /\ "all" \notin Agents
  /\ Told \subseteq {"idle", "offline"}

VARIABLES
  agent,        \* the agents: what each is doing
  registered,   \* the agents the orchestrator knows
  app,          \* the object App of the page
  storage,      \* localStorage, the list of persisted events
  frames,       \* frames sent so far, the serial number of the next one
  clock,
  incidents,    \* how much has happened that is out of the ordinary
  missed,       \* history: agents of which this page has missed a frame
  saved         \* history: the last write to localStorage has succeeded

vars == <<agent, registered, app, storage, frames, clock, incidents, missed, saved>>

Quiet == [turn |-> FALSE, talk |-> 0, role |-> "", calls |-> {}]
Status == {"absent", "idle", "streaming", "error", "offline"}

\* _itemsCache: null, or a set of items.
NoCache == <<>>

\* App.init.  stale stands for _prevEventsVersion # _eventsVersion; frame for
\* _pendingTimelineRender; thrown for the outcome of the last render.  History:
\* last is the last frame handled, basis what the items on screen were built
\* from, removed whether an agent has gone since, broken whether the last build
\* has thrown.
Fresh(events) ==
  [events |-> events, msgs |-> {}, tools |-> {}, agents |-> [a \in Agents |-> "absent"],
   view |-> "dashboard", agentFilter |-> "all", eventFilter |-> "all",
   cache |-> NoCache, stale |-> TRUE, frame |-> FALSE, thrown |-> FALSE,
   last |-> 0, basis |-> <<>>, removed |-> FALSE, broken |-> FALSE]

Init ==
  /\ agent \in [Agents -> {Quiet, [Quiet EXCEPT !.turn = TRUE]}]
  /\ registered = Agents
  /\ app = Fresh(<<>>)
  /\ storage = <<>>
  /\ frames = 0 /\ clock = 0 /\ incidents = 0
  /\ missed = {} /\ saved = TRUE

-----------------------------------------------------------------------------
(* Rendering.                                                              *)

Basis(p) == <<p.last, p.agentFilter, p.eventFilter>>

\* The page after a build.  The version is noted before it, and it may throw.
Built(p, b) ==
  LET built == [p EXCEPT !.msgs = b.msgs, !.tools = b.tools, !.stale = FALSE,
                         !.thrown = b.thrown, !.broken = b.thrown]
  IN IF b.thrown THEN built
     ELSE [built EXCEPT !.cache = <<ApplyTimelineFilters(b.items, p.agentFilter, p.eventFilter)>>,
                        !.basis = Basis(p), !.removed = FALSE]

GetOrBuildItems(p) ==
  IF p.cache # NoCache /\ ~p.stale THEN [p EXCEPT !.thrown = FALSE]
  ELSE Built(p, BuildTimelineItems(p.events, p.msgs, p.tools, clock))

\* Without items the cache is dropped.  A row that throws leaves a timeline
\* without rows.
Displayed(q) ==
  CASE q.thrown -> q
    [] ~q.thrown /\ q.cache = <<{}>> -> [q EXCEPT !.cache = NoCache]
    [] OTHER -> [q EXCEPT !.thrown = \E i \in q.cache[1] : RowThrows(i)]

RenderTimeline(p) ==
  IF p.view # "timeline" THEN p
  ELSE IF p.events = <<>> THEN [p EXCEPT !.cache = NoCache, !.thrown = FALSE, !.broken = FALSE,
                                             !.basis = Basis(p)]
  ELSE Displayed(GetOrBuildItems(p))

-----------------------------------------------------------------------------
(* Listeners.                                                              *)

\* Mutant: one event too many stays.
CappedLate(events) ==
  SubSeq(events, IF Len(events) > Cap + 1 THEN Len(events) - Cap ELSE 1, Len(events))

\* The last Cap events: what timelineEvents is cut to.
Capped(events) == SubSeq(events, IF Len(events) > Cap THEN Len(events) - Cap + 1 ELSE 1, Len(events))

\* Mutant: the newest event is not written.
PersistWithoutLast(events) == SubSeq(events, 1, Len(events) - 1)

\* What is written to localStorage, which has the same limit.
PersistEvents(events) == Capped(events)

\* Mutant: an interruption does not end the turn.
StatusAfterIgnoresInterrupt(st, kind, fatal) ==
  CASE st = "absent" -> st
    [] kind \in {"turn_start", "message_start", "tool_execution_start"} /\ st = "idle" -> "streaming"
    [] kind = "turn_end" /\ st # "absent" -> "idle"
    [] kind = "agent_error" /\ fatal /\ st # "absent" -> "error"
    [] OTHER -> st

\* The status of an agent that the page knows, after one of its events.
StatusAfter(st, kind, fatal) ==
  CASE st = "absent" -> st
    [] kind \in {"turn_start", "message_start", "tool_execution_start"} /\ st = "idle" -> "streaming"
    [] kind \in {"turn_end", "agent_interrupted"} /\ st # "absent" -> "idle"
    [] kind = "agent_error" /\ fatal /\ st # "absent" -> "error"
    [] OTHER -> st

OnTimelineEvent(p, ev, fatal) ==
  RenderTimeline([p EXCEPT !.events = Capped(Append(@, ev)), !.stale = TRUE, !.last = ev.n,
                           !.agents = [p.agents EXCEPT ![ev.agent] = StatusAfter(@, ev.kind, fatal)]])

\* A buffer for an update that none is there for: its role is a guess.
NewBuffer(a, kind) ==
  [agent |-> a, role |-> IF kind \in {"thinking", "toolcall_args"} THEN "assistant" ELSE "unknown",
   text |-> <<>>, thinking |-> <<>>, time |-> clock, start |-> 0]

Accumulated(m, kind, part) ==
  CASE kind \in {"text", "toolcall_args"} -> [m EXCEPT !.text = Append(@, part)]
    [] kind = "thinking" -> [m EXCEPT !.thinking = Append(@, part)]
    [] kind = "full" -> [m EXCEPT !.text = <<part>>]

\* Updates are never stored as events; the rendering waits for the next frame.
OnMessageUpdate(p, a, kind, part) ==
  LET old == BufferOf(p.msgs, a)
      buffers == IF old = {} THEN {NewBuffer(a, kind)} ELSE old
  IN [p EXCEPT !.msgs = (@ \ old) \cup {Accumulated(m, kind, part) : m \in buffers},
               !.stale = TRUE, !.last = frames + 1,
               !.frame = @ \/ p.view = "timeline"]

\* ev.data = null.  Cached errors, retries and interruptions are the events
\* themselves, other items have data of their own.
Released(x, a) == IF x.agent = a THEN [x EXCEPT !.data = FALSE] ELSE x

\* Mutant: the items built before a removal count as current after it.
OnUnregisteredUncounted(p, a) ==
  [p EXCEPT !.events = [i \in DOMAIN @ |-> Released(@[i], a)],
            !.cache = [c \in DOMAIN @ |-> {IF i.kind \in Markers THEN Released(i, a) ELSE i : i \in @[c]}],
            !.msgs = @ \ BufferOf(@, a),
            !.tools = {s \in @ : s.agent # a},
            !.agents = [p.agents EXCEPT ![a] = "absent"],
            !.removed = TRUE]

\* agent_unregistered: the payloads go, the events stay; nothing is persisted,
\* and the timeline is not rendered.
OnUnregistered(p, a) ==
  [p EXCEPT !.events = [i \in DOMAIN @ |-> Released(@[i], a)],
            !.cache = [c \in DOMAIN @ |-> {IF i.kind \in Markers THEN Released(i, a) ELSE i : i \in @[c]}],
            !.msgs = @ \ BufferOf(@, a),
            !.tools = {s \in @ : s.agent # a},
            !.agents = [p.agents EXCEPT ![a] = "absent"],
            !.removed = TRUE,
            !.stale = TRUE]

-----------------------------------------------------------------------------
(* What the agents say.                                                    *)

Happen(n) == incidents + n <= MaxIncidents /\ incidents' = incidents + n

\* A frame arrives and is stored, or it does not; localStorage may be full.
Utter(a, after, ev, fatal, n) ==
  /\ a \in registered /\ frames < MaxFrames
  /\ frames' = frames + 1
  /\ agent' = [agent EXCEPT ![a] = after]
  /\ \/ /\ app' = OnTimelineEvent(app, ev, fatal)
        /\ \/ storage' = PersistEvents(app'.events) /\ saved' = TRUE /\ Happen(n)
           \/ storage' = storage /\ saved' = FALSE /\ Happen(n + 1)
        /\ missed' = missed
     \/ /\ missed' = missed \cup {a}
        /\ Happen(n + 1)
        /\ UNCHANGED <<app, storage, saved>>
  /\ UNCHANGED <<registered, clock>>

Say(a, kind) == [n |-> frames + 1, agent |-> a, kind |-> kind, call |-> 0, role |-> "",
                 text |-> <<>>, time |-> clock, data |-> TRUE]

TurnStart(a) ==
  /\ ~agent[a].turn
  /\ Utter(a, [Quiet EXCEPT !.turn = TRUE], Say(a, "turn_start"), FALSE, 0)

TurnEnd(a) ==
  /\ agent[a].turn /\ agent[a].talk = 0 /\ agent[a].calls = {}
  /\ Utter(a, Quiet, Say(a, "turn_end"), FALSE, 0)

StartMessage(a, role) ==
  /\ agent[a].turn /\ agent[a].talk = 0
  /\ Utter(a, [agent[a] EXCEPT !.talk = frames + 1, !.role = role],
           [Say(a, "message_start") EXCEPT !.role = role], FALSE, 0)

EndMessage(a) ==
  /\ agent[a].talk # 0
  /\ Utter(a, [agent[a] EXCEPT !.talk = 0, !.role = ""],
           [Say(a, "message_end") EXCEPT !.role = agent[a].role,
                                         !.text = IF WholeText THEN <<agent[a].talk>> ELSE <<>>], FALSE, 0)

StartCall(a) ==
  /\ agent[a].turn /\ Cardinality(agent[a].calls) < MaxCalls
  /\ Utter(a, [agent[a] EXCEPT !.calls = @ \cup {frames + 1}],
           [Say(a, "tool_execution_start") EXCEPT !.call = frames + 1], FALSE, 0)

EndCall(a, c) ==
  /\ c \in agent[a].calls
  /\ Utter(a, [agent[a] EXCEPT !.calls = @ \ {c}], [Say(a, "tool_execution_end") EXCEPT !.call = c], FALSE, 0)

Fail(a, fatal) ==
  /\ agent[a].turn
  /\ Utter(a, IF fatal THEN Quiet ELSE agent[a], Say(a, "agent_error"), fatal, 1)

Retry(a) ==
  /\ agent[a].turn
  /\ Utter(a, agent[a], Say(a, "provider_retry"), FALSE, 1)

Interrupt(a) ==
  /\ agent[a].turn
  /\ Utter(a, Quiet, Say(a, "agent_interrupted"), FALSE, 1)

\* A delta of the message in progress.
Update(a, kind) ==
  /\ a \in registered /\ agent[a].talk # 0 /\ frames < MaxFrames
  /\ frames' = frames + 1
  /\ \/ app' = OnMessageUpdate(app, a, kind, agent[a].talk) /\ missed' = missed /\ Happen(0)
     \/ app' = app /\ missed' = missed \cup {a} /\ Happen(1)
  /\ UNCHANGED <<agent, registered, storage, clock, saved>>

-----------------------------------------------------------------------------
(* What the orchestrator says of an agent.                                 *)

Unregister(a) ==
  /\ a \in registered /\ frames < MaxFrames
  /\ frames' = frames + 1
  /\ registered' = registered \ {a}
  /\ agent' = [agent EXCEPT ![a] = Quiet]
  /\ \/ app' = OnUnregistered(app, a) /\ Happen(1)
     \/ app' = app /\ Happen(2)
  /\ UNCHANGED <<storage, clock, missed, saved>>

\* agent_registered, agent_updated, agent_status and the list of agents all end
\* in a status of the registry; no handler sets streaming or error by itself.
TellStatus(a, status) ==
  /\ Happen(IF app.agents[a] = "absent" THEN 0 ELSE 1)
  /\ frames < MaxFrames /\ frames' = frames + 1
  /\ registered' = registered \cup {a}
  /\ app' = [app EXCEPT !.agents = [app.agents EXCEPT ![a] = status]]
  /\ UNCHANGED <<agent, storage, clock, missed, saved>>

-----------------------------------------------------------------------------
(* The user, and the timers.                                               *)

PageStep(p) == app' = p /\ UNCHANGED <<agent, registered, storage, frames, clock, incidents, missed, saved>>

\* requestAnimationFrame.
DrawFrame == app.frame /\ PageStep(RenderTimeline([app EXCEPT !.frame = FALSE]))

Viewed(p, view) ==
  IF view = "dashboard" THEN [p EXCEPT !.view = view, !.cache = NoCache, !.thrown = FALSE, !.basis = <<>>]
  ELSE RenderTimeline([p EXCEPT !.view = view, !.stale = TRUE])

SwitchView(view) == PageStep(Viewed(app, view))

\* The button "Trace" of a card.
Trace(a) ==
  /\ app.view = "dashboard" /\ app.agents[a] # "absent"
  /\ PageStep(RenderTimeline([app EXCEPT !.view = "timeline"]))

\* A row of an agent the page does not know leads to the dashboard; any other
\* opens the agent's own page.
ClickRow(a) ==
  /\ app.cache # NoCache /\ (app.thrown => app.broken) /\ app.agents[a] = "absent"
  /\ \E i \in app.cache[1] : i.agent = a
  /\ PageStep(Viewed(app, "dashboard"))

SetTimelineAgentFilter(f) ==
  /\ app.view = "timeline" /\ f # app.agentFilter
  /\ PageStep(RenderTimeline([app EXCEPT !.agentFilter = f, !.stale = TRUE]))

\* Mutant: the filtered items stay in the cache.
SetTimelineEventFilterCached(f) ==
  /\ app.view = "timeline" /\ f # app.eventFilter
  /\ PageStep(RenderTimeline([app EXCEPT !.eventFilter = f]))

SetTimelineEventFilter(f) ==
  /\ app.view = "timeline" /\ f # app.eventFilter
  /\ PageStep(RenderTimeline([app EXCEPT !.eventFilter = f, !.stale = TRUE]))

\* What is older than five minutes goes: a tick may be that long, or shorter.
CleanupStaleBuffers(limit) ==
  PageStep([app EXCEPT !.msgs = {m \in @ : m.time >= limit}, !.tools = {s \in @ : s.time >= limit}])

\* The page starts again from what it has persisted.
Reload ==
  /\ Happen(1)
  /\ app' = Fresh(storage)
  /\ missed' = {} /\ saved' = TRUE
  /\ UNCHANGED <<agent, registered, storage, frames, clock>>

Tick ==
  /\ clock < MaxTime
  /\ clock' = clock + 1
  /\ UNCHANGED <<agent, registered, app, storage, frames, incidents, missed, saved>>

-----------------------------------------------------------------------------
Speak(a) ==
  \/ TurnStart(a) \/ TurnEnd(a)
  \/ \E role \in Roles : StartMessage(a, role)
  \/ EndMessage(a)
  \/ StartCall(a)
  \/ \E c \in agent[a].calls : EndCall(a, c)
  \/ \E fatal \in BOOLEAN : Fail(a, fatal)
  \/ Retry(a)
  \/ Interrupt(a)
  \/ \E kind \in DeltaKinds : Update(a, kind)

Use ==
  \/ \E view \in {"dashboard", "timeline"} : SwitchView(view)
  \/ \E a \in Agents : Trace(a) \/ ClickRow(a)
  \/ \E f \in AgentFilters \cup {"all"} : SetTimelineAgentFilter(f)
  \/ \E f \in Filters \cup {"all"} : SetTimelineEventFilter(f)
  \/ Reload

Next ==
  \/ \E a \in Agents : Speak(a) \/ Unregister(a)
  \/ \E a \in Agents, status \in Told : TellStatus(a, status)
  \/ Use
  \/ \E limit \in 1 .. clock : CleanupStaleBuffers(limit)
  \/ DrawFrame \/ Tick

Spec == Init /\ [][Next]_vars

-----------------------------------------------------------------------------
(* Properties.                                                             *)

TypeOK ==
  /\ app.events \in Seq(Event) /\ Len(app.events) <= Cap
  /\ storage \in Seq(Event) /\ Len(storage) <= Cap
  /\ app.msgs \subseteq Buffer
  /\ \A m, o \in app.msgs : m.agent = o.agent => m = o
  /\ app.tools \subseteq Event
  /\ app.agents \in [Agents -> Status]
  /\ app.cache # NoCache => app.cache[1] \subseteq Item

Numbers(events) == {events[i].n : i \in DOMAIN events}

\* A reload brings back every event, in its order, unless localStorage was full
\* when the last one was written.
ReloadKeepsEvents ==
  saved => [i \in DOMAIN storage |-> storage[i].n] = [i \in DOMAIN app.events |-> app.events[i].n]

\* Every stored event still has its payload.
Intact == \A i \in DOMAIN app.events : app.events[i].data

\* Once no frame is waited for, a timeline that is on screen was built from the
\* last frame that arrived, with the filters that are set; unless the last build
\* has thrown, which leaves an older cache that counts as current.  A removal
\* draws nothing, but whatever is drawn next is not what was built before it.
ShownIsCurrent ==
  /\ app.view = "timeline" /\ ~app.frame /\ ~app.broken => app.basis = Basis(app)
  /\ app.cache # NoCache /\ ~app.stale /\ ~app.broken => ~app.removed

\* An agent is shown working only during a turn, unless a frame was lost.
StreamingOnlyInTurn ==
  \A a \in Agents : app.agents[a] = "streaming" => agent[a].turn \/ a \in missed \/ a \notin registered

\* Whatever the builds before have left in the maps: a call whose end is stored
\* is not shown running, and one whose start is stored is shown with it.
CallsArePaired ==
  LET ends == {e \in ToSet(app.events) : e.kind = "tool_execution_end"} IN
  app.cache # NoCache /\ ~app.stale /\ Intact =>
    \A i \in app.cache[1], e \in ends :
      /\ i.kind = "tool_running" => i.from # e.call
      /\ i.kind = "tool_merged" /\ i.id[2] = e.n =>
           i.from \in {e.call} \cup (IF e.call \in Numbers(app.events) THEN {} ELSE {0})

\* The start of the call that event i ends, and the starts of messages that the
\* agent's end before it leaves.
OfKind(evs, kind) == {i \in DOMAIN evs : evs[i].kind = kind}
Called(evs, i) == {j \in OfKind(evs, "tool_execution_start") : evs[j].call = evs[i].call}
Opening(evs, i) ==
  {j \in OfKind(evs, "message_start") :
     /\ j < i /\ evs[j].agent = evs[i].agent
     /\ \A k \in OfKind(evs, "message_end") : evs[k].agent = evs[i].agent => k < j \/ k >= i}

\* The number of the start of a call, of which there is one at most; 0 for none.
From(evs, s) == IF s = {} THEN 0 ELSE evs[CHOOSE j \in s : TRUE].n

\* Those of the messages that were long enough, at event i, to be shown without
\* a text.
Slow(evs, i) == {j \in Opening(evs, i) : evs[j].time < evs[i].time}

OfEvents(items, kind) == {i \in items : i.kind = kind /\ i.id[1] = "event"}

EndedCallsRestored(evs, items) ==
  {<<i.id[2], i.from>> : i \in OfEvents(items, "tool_merged")}
    = {<<evs[i].n, From(evs, Called(evs, i))>> : i \in OfKind(evs, "tool_execution_end")}

RunningCallsRestored(evs, items) ==
  {i.from : i \in {i \in items : i.kind = "tool_running"}}
    = {evs[i].call : i \in {i \in OfKind(evs, "tool_execution_start") :
                              \A j \in OfKind(evs, "tool_execution_end") : evs[j].call # evs[i].call}}

\* The items that the end of a message makes.
Merged(evs, items, i) == {m \in OfEvents(items, "message_merged") : m.id[2] = evs[i].n}

MessagesRestored(evs, items) ==
  /\ \A m \in OfEvents(items, "message_merged") : \E i \in OfKind(evs, "message_end") : m.id[2] = evs[i].n
  /\ \A i \in OfKind(evs, "message_end") :
       LET open == Opening(evs, i) IN
       /\ \A m \in Merged(evs, items, i) :
            /\ m.text = evs[i].text
            /\ m.from \in (IF open = {} THEN {0} ELSE {evs[j].n : j \in open})
            /\ m.text # <<>> \/ Slow(evs, i) # {}
       /\ evs[i].text # <<>> \/ (open # {} /\ Slow(evs, i) = open) => Merged(evs, items, i) # {}

\* What a page shows that has just been loaded: a call with its start, a message
\* with the text that came with its end and never with the start of a message
\* that has ended.  So it has its own start, unless an end was lost before it:
\* then more than one start is open, and this does not say which is right.
RestoredIsRight ==
  LET items == BuildTimelineItems(app.events, {}, {}, clock).items IN
  Intact => /\ EndedCallsRestored(app.events, items)
            /\ RunningCallsRestored(app.events, items)
            /\ MessagesRestored(app.events, items)

\* The comment on agent_unregistered: releasing the payloads preserves the
\* structure of the events for the remaining visible items.
BuildNeverThrows == ~app.thrown

\* The comment in buildTimelineItems: accumulated text is not lost to a build,
\* while the message goes on.
AccumulatedTextStays ==
  [][ (DrawFrame \/ \E a \in Agents : \E kind \in DeltaKinds : Update(a, kind))
      => \A m \in app.msgs : agent[m.agent].talk # 0 =>
           \E o \in app'.msgs : o.agent = m.agent /\ IsPrefix(m.text, o.text) ]_vars
=============================================================================
