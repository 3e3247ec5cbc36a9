--------------------------- MODULE TimelineProofs ---------------------------
(***************************************************************************)
(* Proofs about Timeline, for every number of agents and every bound: what *)
(* is stored and what a reload brings back, that the timeline on screen is *)
(* built from the last frame and the filters that are set, and that an     *)
(* agent is shown working only during a turn.                              *)
(*                                                                         *)
(* A build is a loop over the stored events, and stays opaque here: what   *)
(* is proved holds whatever a build makes of the events and of the maps.   *)
(* TimelineContentProofs looks into it.                                    *)
(***************************************************************************)
EXTENDS Timeline, SequenceTheorems, TLAPS

\* p has the fields of app.
Fields == {"events", "msgs", "tools", "agents", "view", "agentFilter", "eventFilter", "cache", "stale",
           "frame", "thrown", "last", "basis", "removed", "broken"}
Shape(p) == p = [field \in Fields |-> p[field]]

\* What rendering leaves alone.
Kept(p, q) ==
  /\ Shape(q)
  /\ q.events = p.events /\ q.agents = p.agents /\ q.view = p.view /\ q.frame = p.frame
  /\ q.agentFilter = p.agentFilter /\ q.eventFilter = p.eventFilter /\ q.last = p.last

Resting(s) == s.talk = 0 /\ s.calls = {}
Speaker == [turn : BOOLEAN, talk : Nat, role : AnyRole, calls : SUBSET Nat]

\* The types of everything that no build writes.  Outside of a turn an agent has
\* nothing in progress.
Typed ==
  /\ Shape(app)
  /\ app.events \in Seq(Event) /\ Len(app.events) <= Cap
  /\ storage \in Seq(Event) /\ Len(storage) <= Cap
  /\ app.agents \in [Agents -> Status]
  /\ agent \in [Agents -> Speaker]
  /\ \A a \in Agents : agent[a].turn \/ Resting(agent[a])
  /\ frames \in Nat /\ clock \in Nat

-----------------------------------------------------------------------------
(* The helpers.                                                            *)

\* Cutting a sequence to its last Cap elements leaves a short one as it is.
LEMMA CappedIsShort ==
  ASSUME NEW s \in Seq(Event)
  PROVE  /\ Capped(s) \in Seq(Event) /\ Len(Capped(s)) <= Cap
         /\ Len(s) <= Cap => Capped(s) = s
<1> USE TimelineAssumption
<1>1. Len(s) \in Nat
  OBVIOUS
<1>2. CASE Len(s) > Cap
  BY <1>1, <1>2, SubSeqProperties DEF Capped
<1>3. CASE Len(s) <= Cap
  <2>1. ~(Len(s) > Cap)
    BY <1>1, <1>3
  <2>2. (IF Len(s) > Cap THEN Len(s) - Cap + 1 ELSE 1) = 1
    BY <2>1
  <2>3. Capped(s) = SubSeq(s, 1, Len(s))
    BY <2>2 DEF Capped
  <2>4. QED
    BY <2>3, <1>3, SubSeqFull
<1>4. QED
  BY <1>1, <1>2, <1>3

\* A build changes the maps, the cache and what is remembered of the build.
LEMMA BuildKeeps ==
  ASSUME NEW p, Shape(p)
  PROVE  Kept(p, GetOrBuildItems(p))
BY ZenonT(40) DEF GetOrBuildItems, Built, Shape, Fields, Kept

\* So does rendering.
LEMMA RenderKeeps ==
  ASSUME NEW p, Shape(p)
  PROVE  Kept(p, RenderTimeline(p))
<1> DEFINE q == GetOrBuildItems(p)
<1>1. Kept(p, q)
  BY BuildKeeps
<1>2. CASE p.view # "timeline" \/ p.events = <<>>
  BY <1>2 DEF RenderTimeline, Kept, Shape, Fields
<1>3. CASE p.view = "timeline" /\ p.events # <<>>
  <2> DEFINE r == CASE q.thrown -> q
                    [] ~q.thrown /\ q.cache = <<{}>> -> [q EXCEPT !.cache = NoCache]
                    [] OTHER -> [q EXCEPT !.thrown = \E i \in q.cache[1] : RowThrows(i)]
  <2>1. RenderTimeline(p) = r
    BY <1>3 DEF RenderTimeline, Displayed
  <2>2. Kept(p, r)
    <3> HIDE DEF q
    <3> QED BY <1>1 DEF Kept, Shape, Fields
  <2>3. QED
    BY <2>1, <2>2
<1>4. QED
  BY <1>2, <1>3

\* What a stored event does to the page, apart from the rendering.
LEMMA StoredEvent ==
  ASSUME Typed, NEW a \in Agents, NEW ev \in Event, ev.agent = a, NEW fatal
  PROVE  LET q == OnTimelineEvent(app, ev, fatal) IN
           /\ Shape(q)
           /\ q.events = Capped(Append(app.events, ev))
           /\ q.agents = [app.agents EXCEPT ![a] = StatusAfter(@, ev.kind, fatal)]
<1> DEFINE events == Capped(Append(app.events, ev))
           agents == [app.agents EXCEPT ![a] = StatusAfter(@, ev.kind, fatal)]
           p == [app EXCEPT !.events = events, !.stale = TRUE, !.last = ev.n, !.agents = agents]
<1>1. OnTimelineEvent(app, ev, fatal) = RenderTimeline(p)
  BY DEF OnTimelineEvent
<1>2. Shape(app)
  BY DEF Typed
<1>3. Shape(p) /\ p.events = events /\ p.agents = agents
  <2> HIDE DEF events, agents
  <2> QED BY <1>2 DEF Shape, Fields
<1>4. Kept(p, RenderTimeline(p))
  BY <1>3, RenderKeeps
<1>5. QED
  <2> HIDE DEF events, agents, p
  <2>1. LET q == OnTimelineEvent(app, ev, fatal) IN Shape(q) /\ q.events = events /\ q.agents = agents
    BY <1>1, <1>3, <1>4 DEF Kept
  <2>2. QED
    BY <2>1 DEF events, agents

-----------------------------------------------------------------------------
(* What the agents say.                                                    *)

\* The events after which an agent is not working.
Ends(kind, fatal) ==
  \/ kind \in {"turn_end", "agent_interrupted"}
  \/ kind = "agent_error" /\ fatal

\* What a frame says when its agent goes from s to t: a call is named after the
\* frame that starts it, and open until its end is sent.
Says(s, t, ev) ==
  /\ ev.n = frames + 1
  /\ t.calls \subseteq s.calls \cup (IF ev.kind = "tool_execution_start" THEN {ev.n} ELSE {})
  /\ ev.kind = "tool_execution_start" => ev.call = ev.n
  /\ ev.kind = "tool_execution_end" => ev.call \in s.calls \ t.calls
  /\ ev.kind = "message_start" => ev.text = <<>>

\* What every frame of an agent that is stored as an event has in common.
Uttered(a, after, ev, fatal) ==
  /\ after \in Speaker /\ ev \in Event /\ ev.agent = a /\ Says(agent[a], after, ev)
  /\ after.turn \/ (Resting(after) /\ Ends(ev.kind, fatal))
  /\ Utter(a, after, ev, fatal, 0) \/ Utter(a, after, ev, fatal, 1)

\* What an agent is doing keeps its type when a message starts or ends,
LEMMA MessageChanges ==
  ASSUME NEW s \in Speaker, NEW talk \in Nat, NEW role \in AnyRole
  PROVE  LET t == [s EXCEPT !.talk = talk, !.role = role] IN t \in Speaker /\ t.turn = s.turn /\ t.calls = s.calls
BY DEF Speaker

\* or a call.
LEMMA CallsChange ==
  ASSUME NEW s \in Speaker, NEW calls \in SUBSET Nat
  PROVE  LET t == [s EXCEPT !.calls = calls] IN t \in Speaker /\ t.turn = s.turn /\ t.calls = calls
BY DEF Speaker

\* An event keeps its type with another role, text or call.
LEMMA EventChanges ==
  ASSUME NEW ev \in Event
  PROVE  /\ \A role \in AnyRole :
              LET e == [ev EXCEPT !.role = role] IN
                e \in Event /\ e.agent = ev.agent /\ e.n = ev.n /\ e.kind = ev.kind /\ e.text = ev.text
         /\ \A call \in Nat :
              LET e == [ev EXCEPT !.call = call] IN
                e \in Event /\ e.agent = ev.agent /\ e.n = ev.n /\ e.kind = ev.kind /\ e.call = call
BY DEF Event

\* So does a stored event of which the role and the text change.
LEMMA EndChanges ==
  ASSUME NEW ev \in Event, NEW role \in AnyRole, NEW text \in Seq(Nat)
  PROVE  LET e == [ev EXCEPT !.role = role, !.text = text] IN
           e \in Event /\ e.agent = ev.agent /\ e.n = ev.n /\ e.kind = ev.kind
BY DEF Event

\* Every frame of an agent is a delta or a stored event.
LEMMA SpeakingIsUttering ==
  ASSUME Typed, NEW a \in Agents, Speak(a)
  PROVE  \/ \E kind \in DeltaKinds : Update(a, kind)
         \/ \E after \in Speaker, ev \in Event, fatal \in BOOLEAN : Uttered(a, after, ev, fatal)
<1> DEFINE Goal == \E after \in Speaker, ev \in Event, fatal \in BOOLEAN : Uttered(a, after, ev, fatal)
<1>1. /\ agent[a] \in Speaker /\ frames + 1 \in Nat /\ clock \in Nat
      /\ agent[a].turn \/ Resting(agent[a])
  BY DEF Typed
<1>2. /\ Quiet \in Speaker /\ Resting(Quiet) /\ Quiet.calls = {}
      /\ [Quiet EXCEPT !.turn = TRUE] \in Speaker /\ [Quiet EXCEPT !.turn = TRUE].turn
      /\ [Quiet EXCEPT !.turn = TRUE].calls = {}
  BY DEF Speaker, Quiet, Resting, AnyRole
<1>3. ASSUME NEW kind \in Kinds 
      PROVE  /\ Say(a, kind) \in Event /\ Say(a, kind).agent = a /\ Say(a, kind).kind = kind
             /\ Say(a, kind).n = frames + 1 /\ Say(a, kind).text = <<>>
  BY <1>1 DEF Say, Event, AnyRole
<1>4. ASSUME NEW after, NEW ev, NEW fatal \in BOOLEAN, Uttered(a, after, ev, fatal) PROVE Goal
  BY <1>4 DEF Uttered
<1> HIDE DEF Goal
<1> USE DEF Kinds
<1>5. ASSUME TurnStart(a) PROVE Goal
  <2> DEFINE after == [Quiet EXCEPT !.turn = TRUE]
  <2>1. Utter(a, after, Say(a, "turn_start"), FALSE, 0)
    BY <1>5 DEF TurnStart
  <2>2. after \in Speaker /\ after.turn /\ after.calls = {}
    BY <1>2
  <2> HIDE DEF after
  <2>3. Uttered(a, after, Say(a, "turn_start"), FALSE)
    BY <1>3, <2>1, <2>2 DEF Uttered, Says
  <2>4. QED
    BY <1>4, <2>3
<1>6. ASSUME TurnEnd(a) PROVE Goal
  <2>1. Ends(Say(a, "turn_end").kind, FALSE)
    BY <1>3 DEF Ends
  <2>2. Utter(a, Quiet, Say(a, "turn_end"), FALSE, 0)
    BY <1>6 DEF TurnEnd
  <2>3. Uttered(a, Quiet, Say(a, "turn_end"), FALSE)
    BY <1>2, <1>3, <2>1, <2>2 DEF Uttered, Says
  <2>4. QED
    BY <1>4, <2>3
<1>7. ASSUME NEW role \in Roles, StartMessage(a, role) PROVE Goal
  <2> DEFINE after == [agent[a] EXCEPT !.talk = frames + 1, !.role = role]
             ev == [Say(a, "message_start") EXCEPT !.role = role]
  <2>1. role \in AnyRole
    BY DEF AnyRole
  <2>2. agent[a].turn /\ Utter(a, after, ev, FALSE, 0)
    BY <1>7 DEF StartMessage
  <2>3. after \in Speaker /\ after.turn = agent[a].turn /\ after.calls = agent[a].calls
    <3>1. agent[a] \in Speaker /\ frames + 1 \in Nat
      BY <1>1
    <3>2. QED
      BY <2>1, <3>1, MessageChanges
  <2>4. ev \in Event /\ ev.agent = a /\ ev.n = frames + 1 /\ ev.kind = "message_start" /\ ev.text = <<>>
    BY <1>3, <2>1, EventChanges
  <2> HIDE DEF after, ev
  <2>5. Uttered(a, after, ev, FALSE)
    BY <2>2, <2>3, <2>4 DEF Uttered, Says
  <2>6. QED
    BY <1>4, <2>5
<1>8. ASSUME EndMessage(a) PROVE Goal
  <2> DEFINE text == IF WholeText THEN <<agent[a].talk>> ELSE <<>>
             after == [agent[a] EXCEPT !.talk = 0, !.role = ""]
             ev == [Say(a, "message_end") EXCEPT !.role = agent[a].role, !.text = text]
  <2>1. agent[a].turn
    <3>1. agent[a].talk # 0
      BY <1>8 DEF EndMessage
    <3>2. QED
      BY <1>1, <3>1 DEF Resting
  <2>2. agent[a].role \in AnyRole /\ agent[a].talk \in Nat
    BY <1>1 DEF Speaker
  <2>3. text \in Seq(Nat)
    BY <2>2
  <2>4. after \in Speaker /\ after.turn = agent[a].turn /\ after.calls = agent[a].calls
    <3>1. "" \in AnyRole /\ 0 \in Nat
      BY DEF AnyRole
    <3>2. agent[a] \in Speaker
      BY <1>1
    <3>3. QED
      BY <3>1, <3>2, MessageChanges
  <2>5. Utter(a, after, ev, FALSE, 0)
    BY <1>8 DEF EndMessage
  <2> HIDE DEF text
  <2>6. ev \in Event /\ ev.agent = a /\ ev.n = frames + 1 /\ ev.kind = "message_end"
    <3> DEFINE say == Say(a, "message_end")
               role == agent[a].role
    <3>1. say \in Event /\ say.agent = a /\ say.n = frames + 1 /\ say.kind = "message_end" /\ role \in AnyRole
      BY <1>3, <2>2
    <3>2. ev = [say EXCEPT !.role = role, !.text = text]
      OBVIOUS
    <3> HIDE DEF say, role, ev
    <3>3. /\ [say EXCEPT !.role = role, !.text = text] \in Event
          /\ [say EXCEPT !.role = role, !.text = text].agent = say.agent
          /\ [say EXCEPT !.role = role, !.text = text].n = say.n
          /\ [say EXCEPT !.role = role, !.text = text].kind = say.kind
      BY <2>3, <3>1, EndChanges
    <3>4. QED
      BY <3>1, <3>2, <3>3
  <2> HIDE DEF after, ev
  <2>7. Says(agent[a], after, ev)
    BY <2>4, <2>6 DEF Says
  <2>8. Uttered(a, after, ev, FALSE)
    BY <2>1, <2>4, <2>5, <2>6, <2>7 DEF Uttered
  <2>9. QED
    BY <1>4, <2>8
<1>9. ASSUME StartCall(a) PROVE Goal
  <2> DEFINE calls == agent[a].calls \cup {frames + 1}
             after == [agent[a] EXCEPT !.calls = calls]
             ev == [Say(a, "tool_execution_start") EXCEPT !.call = frames + 1]
  <2>1. agent[a].turn /\ Utter(a, after, ev, FALSE, 0)
    BY <1>9 DEF StartCall
  <2>2. calls \in SUBSET Nat
    BY <1>1 DEF Speaker
  <2> HIDE DEF calls
  <2>3. after \in Speaker /\ after.turn = agent[a].turn /\ after.calls = calls
    BY <1>1, <2>2, CallsChange
  <2>4. ev \in Event /\ ev.agent = a /\ ev.n = frames + 1 /\ ev.kind = "tool_execution_start" /\ ev.call = ev.n
    BY <1>1, <1>3, EventChanges
  <2> HIDE DEF after, ev
  <2>5. Uttered(a, after, ev, FALSE)
    BY <2>1, <2>3, <2>4 DEF Uttered, Says, calls
  <2>6. QED
    BY <1>4, <2>5
<1>10. ASSUME NEW c \in agent[a].calls, EndCall(a, c) PROVE Goal
  <2> DEFINE calls == agent[a].calls \ {c}
             after == [agent[a] EXCEPT !.calls = calls]
             ev == [Say(a, "tool_execution_end") EXCEPT !.call = c]
  <2>1. Utter(a, after, ev, FALSE, 0)
    BY <1>10 DEF EndCall
  <2>2. agent[a].turn
    BY <1>1, <1>10 DEF Resting
  <2>3. calls \in SUBSET Nat /\ c \in Nat
    BY <1>1 DEF Speaker
  <2> HIDE DEF calls
  <2>4. after \in Speaker /\ after.turn = agent[a].turn /\ after.calls = calls
    BY <1>1, <2>3, CallsChange
  <2>5. ev \in Event /\ ev.agent = a /\ ev.n = frames + 1 /\ ev.kind = "tool_execution_end" /\ ev.call = c
    BY <1>3, <2>3, EventChanges
  <2> HIDE DEF after, ev
  <2>6. Uttered(a, after, ev, FALSE)
    BY <1>10, <2>1, <2>2, <2>4, <2>5 DEF Uttered, Says, calls
  <2>7. QED
    BY <1>4, <2>6
<1>11. ASSUME NEW fatal \in BOOLEAN, Fail(a, fatal) PROVE Goal
  <2> DEFINE after == IF fatal THEN Quiet ELSE agent[a]
  <2>1. agent[a].turn /\ Utter(a, after, Say(a, "agent_error"), fatal, 1)
    BY <1>11 DEF Fail
  <2>2. after \in Speaker /\ after.calls \subseteq agent[a].calls
    BY <1>1, <1>2
  <2>3. after.turn \/ (Resting(after) /\ Ends(Say(a, "agent_error").kind, fatal))
    <3>1. CASE fatal
      BY <1>2, <1>3, <3>1 DEF Ends
    <3>2. CASE ~fatal
      BY <2>1, <3>2
    <3>3. QED
      BY <3>1, <3>2
  <2> HIDE DEF after
  <2>4. Uttered(a, after, Say(a, "agent_error"), fatal)
    BY <1>3, <2>1, <2>2, <2>3 DEF Uttered, Says
  <2>5. QED
    BY <1>4, <2>4
<1>12. ASSUME Retry(a) PROVE Goal
  <2>1. agent[a].turn /\ Utter(a, agent[a], Say(a, "provider_retry"), FALSE, 1)
    BY <1>12 DEF Retry
  <2>2. Uttered(a, agent[a], Say(a, "provider_retry"), FALSE)
    BY <1>1, <1>3, <2>1 DEF Uttered, Says
  <2>3. QED
    BY <1>4, <2>2
<1>13. ASSUME Interrupt(a) PROVE Goal
  <2>1. Ends(Say(a, "agent_interrupted").kind, FALSE)
    BY <1>3 DEF Ends
  <2>2. Utter(a, Quiet, Say(a, "agent_interrupted"), FALSE, 1)
    BY <1>13 DEF Interrupt
  <2>3. Uttered(a, Quiet, Say(a, "agent_interrupted"), FALSE)
    BY <1>2, <1>3, <2>1, <2>2 DEF Uttered, Says
  <2>4. QED
    BY <1>4, <2>3
<1>14. CASE \E kind \in DeltaKinds : Update(a, kind)
  BY <1>14
<1>15. QED
  <2>1. Goal \/ \E kind \in DeltaKinds : Update(a, kind)
    BY <1>5, <1>6, <1>7, <1>8, <1>9, <1>10, <1>11, <1>12, <1>13 DEF Speak
  <2>2. QED
    BY <2>1 DEF Goal

-----------------------------------------------------------------------------
(* What a step does to the events and the statuses.                        *)

\* A delta leaves both alone.
LEMMA DeltaKeeps ==
  ASSUME NEW p, Shape(p), NEW a, NEW kind, NEW part
  PROVE  LET q == OnMessageUpdate(p, a, kind, part) IN
           /\ Shape(q) /\ q.events = p.events /\ q.agents = p.agents
BY DEF OnMessageUpdate, Shape, Fields

\* A removal takes the payloads away, and the status.
LEMMA RemovalKeeps ==
  ASSUME Typed, NEW a \in Agents
  PROVE  LET q == OnUnregistered(app, a) IN
           /\ Shape(q)
           /\ q.events \in Seq(Event) /\ Len(q.events) = Len(app.events)
           /\ DOMAIN q.events = DOMAIN app.events
           /\ \A i \in DOMAIN app.events : q.events[i].n = app.events[i].n
           /\ q.agents = [app.agents EXCEPT ![a] = "absent"]
<1> DEFINE events == [i \in DOMAIN app.events |-> Released(app.events[i], a)]
           agents == [app.agents EXCEPT ![a] = "absent"]
           q == OnUnregistered(app, a)
<1>1. app.events \in Seq(Event)
  BY DEF Typed
<1>2. ASSUME NEW ev \in Event PROVE Released(ev, a) \in Event /\ Released(ev, a).n = ev.n
  BY DEF Released, Event
<1>3. events \in Seq(Event) /\ Len(events) = Len(app.events) /\ DOMAIN events = DOMAIN app.events
  BY <1>1, <1>2
<1>4. \A i \in DOMAIN app.events : events[i].n = app.events[i].n
  BY <1>1, <1>2
<1>5. q.events = events /\ q.agents = agents /\ Shape(q)
  <2>1. Shape(app)
    BY DEF Typed
  <2> HIDE DEF events, agents
  <2>2. q.events = events
    BY <2>1 DEF OnUnregistered, Shape, Fields, events
  <2>3. q.agents = agents
    BY <2>1 DEF OnUnregistered, Shape, Fields, agents
  <2>4. Shape(q)
    BY <2>1 DEF OnUnregistered, Shape, Fields
  <2>5. QED
    BY <2>2, <2>3, <2>4
<1>6. QED
  <2> HIDE DEF events
  <2> QED BY <1>3, <1>4, <1>5

\* A status that is told changes one agent's.
LEMMA TellingKeeps ==
  ASSUME Typed, NEW a \in Agents, NEW status \in Told, TellStatus(a, status)
  PROVE  /\ Shape(app') /\ app'.events = app.events
         /\ app'.agents = [app.agents EXCEPT ![a] = status] /\ app'.agents \in [Agents -> Status]
<1> DEFINE agents == [app.agents EXCEPT ![a] = status]
<1>1. Shape(app) /\ agents \in [Agents -> Status]
  BY TimelineAssumption DEF Typed, Status
<1>2. app' = [app EXCEPT !.agents = agents]
  BY DEF TellStatus
<1>3. QED
  <2> HIDE DEF agents
  <2>1. Shape(app') /\ app'.events = app.events /\ app'.agents = agents
    BY <1>1, <1>2 DEF Shape, Fields
  <2>2. QED
    BY <1>1, <2>1 DEF agents

\* The steps of the user and of the timers, except for a reload.
PageActs ==
  \/ \E view \in {"dashboard", "timeline"} : SwitchView(view)
  \/ \E a \in Agents : Trace(a) \/ ClickRow(a)
  \/ \E f \in AgentFilters \cup {"all"} : SetTimelineAgentFilter(f)
  \/ \E f \in Filters \cup {"all"} : SetTimelineEventFilter(f)
  \/ \E limit \in 1 .. clock : CleanupStaleBuffers(limit)
  \/ DrawFrame

\* Switching the view leaves events and statuses alone.
LEMMA ViewingKeeps ==
  ASSUME NEW p, Shape(p), NEW view
  PROVE  LET q == Viewed(p, view) IN Shape(q) /\ q.events = p.events /\ q.agents = p.agents
<1>1. CASE view = "dashboard"
  BY <1>1 DEF Viewed, Shape, Fields
<1>2. CASE view # "dashboard"
  <2> DEFINE r == [p EXCEPT !.view = view, !.stale = TRUE]
  <2>1. Shape(r) /\ r.events = p.events /\ r.agents = p.agents
    BY DEF Shape, Fields
  <2>2. Viewed(p, view) = RenderTimeline(r)
    BY <1>2 DEF Viewed
  <2> HIDE DEF r
  <2>3. QED
    BY <2>1, <2>2, RenderKeeps DEF Kept
<1>3. QED
  BY <1>1, <1>2

\* So do all of them.
LEMMA PageKeeps ==
  ASSUME Typed, PageActs
  PROVE  /\ Shape(app') /\ app'.events = app.events /\ app'.agents = app.agents
         /\ UNCHANGED <<agent, registered, storage, frames, clock, incidents, missed, saved>>
<1> DEFINE Goal == /\ Shape(app') /\ app'.events = app.events /\ app'.agents = app.agents
                   /\ UNCHANGED <<agent, registered, storage, frames, clock, incidents, missed, saved>>
<1>1. Shape(app)
  BY DEF Typed
<1>2. ASSUME NEW p, Shape(p), p.events = app.events, p.agents = app.agents, PageStep(RenderTimeline(p))
      PROVE  Goal
  BY <1>2, RenderKeeps DEF PageStep, Kept
<1>3. ASSUME NEW view, PageStep(Viewed(app, view)) PROVE Goal
  BY <1>1, <1>3, ViewingKeeps DEF PageStep
<1>4. ASSUME NEW view, SwitchView(view) PROVE Goal
  BY <1>3, <1>4 DEF SwitchView
<1>5. ASSUME NEW a, Trace(a) PROVE Goal
  <2> DEFINE p == [app EXCEPT !.view = "timeline"]
  <2>1. Shape(p) /\ p.events = app.events /\ p.agents = app.agents
    BY <1>1 DEF Shape, Fields
  <2>2. PageStep(RenderTimeline(p))
    BY <1>5 DEF Trace
  <2> HIDE DEF p, Goal
  <2>3. QED
    BY <1>2, <2>1, <2>2
<1>6. ASSUME NEW a, ClickRow(a) PROVE Goal
  BY <1>3, <1>6 DEF ClickRow
<1>7. ASSUME NEW f, SetTimelineAgentFilter(f) PROVE Goal
  <2> DEFINE p == [app EXCEPT !.agentFilter = f, !.stale = TRUE]
  <2>1. Shape(p) /\ p.events = app.events /\ p.agents = app.agents
    BY <1>1 DEF Shape, Fields
  <2>2. PageStep(RenderTimeline(p))
    BY <1>7 DEF SetTimelineAgentFilter
  <2> HIDE DEF p, Goal
  <2>3. QED
    BY <1>2, <2>1, <2>2
<1>8. ASSUME NEW f, SetTimelineEventFilter(f) PROVE Goal
  <2> DEFINE p == [app EXCEPT !.eventFilter = f, !.stale = TRUE]
  <2>1. Shape(p) /\ p.events = app.events /\ p.agents = app.agents
    BY <1>1 DEF Shape, Fields
  <2>2. PageStep(RenderTimeline(p))
    BY <1>8 DEF SetTimelineEventFilter
  <2> HIDE DEF p, Goal
  <2>3. QED
    BY <1>2, <2>1, <2>2
<1>9. ASSUME NEW limit, CleanupStaleBuffers(limit) PROVE Goal
  BY <1>1, <1>9 DEF CleanupStaleBuffers, PageStep, Shape, Fields
<1>10. CASE DrawFrame
  <2> DEFINE p == [app EXCEPT !.frame = FALSE]
  <2>1. Shape(p) /\ p.events = app.events /\ p.agents = app.agents
    BY <1>1 DEF Shape, Fields
  <2>2. PageStep(RenderTimeline(p))
    BY <1>10 DEF DrawFrame
  <2> HIDE DEF p, Goal
  <2>3. Goal
    BY <1>2, <2>1, <2>2
  <2>4. QED
    BY <2>3 DEF Goal
<1>11. QED
  BY <1>4, <1>5, <1>6, <1>7, <1>8, <1>9, <1>10 DEF PageActs

\* Every step is one of these.
LEMMA Steps ==
  ASSUME [Next]_vars
  PROVE  \/ \E a \in Agents : Speak(a) \/ Unregister(a)
         \/ \E a \in Agents, status \in Told : TellStatus(a, status)
         \/ PageActs
         \/ Reload
         \/ Tick
         \/ UNCHANGED vars
BY DEF Next, Use, PageActs

-----------------------------------------------------------------------------
(* Types.                                                                  *)

\* The types hold at the start.
LEMMA TypesHoldInitially == Init => Typed
<1> SUFFICES ASSUME Init PROVE Typed
  OBVIOUS
<1> USE TimelineAssumption DEF Init
<1>1. Shape(app) /\ app.events = <<>>
  BY DEF Fresh, Shape, Fields
<1>2. app.agents \in [Agents -> Status]
  BY DEF Fresh, Status
<1>3. ASSUME NEW a \in Agents
      PROVE  agent[a] \in Speaker /\ (agent[a].turn \/ Resting(agent[a]))
  <2>1. agent[a] \in {Quiet, [Quiet EXCEPT !.turn = TRUE]}
    OBVIOUS
  <2>2. /\ Quiet \in Speaker /\ Resting(Quiet)
        /\ [Quiet EXCEPT !.turn = TRUE] \in Speaker /\ [Quiet EXCEPT !.turn = TRUE].turn
    BY DEF Quiet, Speaker, Resting, AnyRole
  <2>3. QED
    BY <2>1, <2>2
<1>4. agent \in [Agents -> Speaker]
  BY <1>3
<1>5. <<>> \in Seq(Event) /\ Len(<<>>) <= Cap
  OBVIOUS
<1>6. storage = <<>> /\ frames \in Nat /\ clock \in Nat
  OBVIOUS
<1>7. \A a \in Agents : agent[a].turn \/ Resting(agent[a])
  BY <1>3
<1> QED
  BY ONLY <1>1, <1>2, <1>4, <1>5, <1>6, <1>7 DEF Typed

\* A status after an event is a status.
LEMMA StatusAfterIsStatus ==
  ASSUME NEW st \in Status, NEW kind, NEW fatal
  PROVE  StatusAfter(st, kind, fatal) \in Status
BY DEF StatusAfter, Status

\* A stored event, or one that is missed, keeps the types.
LEMMA UtteringKeepsTypes ==
  ASSUME Typed, NEW a \in Agents, NEW after, NEW ev, NEW fatal, Uttered(a, after, ev, fatal)
  PROVE  Typed'
<1>1. /\ frames' = frames + 1 /\ clock' = clock
      /\ agent' = [agent EXCEPT ![a] = after]
      /\ \/ app' = OnTimelineEvent(app, ev, fatal) /\ (storage' = PersistEvents(app'.events) \/ storage' = storage)
         \/ app' = app /\ storage' = storage
  BY DEF Uttered, Utter
<1>2. /\ after \in Speaker /\ (after.turn \/ Resting(after))
      /\ ev \in Event /\ ev.agent = a
  BY DEF Uttered
<1>3. frames' \in Nat /\ clock' \in Nat
  BY <1>1 DEF Typed
<1>4. agent' \in [Agents -> Speaker] /\ \A b \in Agents : agent'[b].turn \/ Resting(agent'[b])
  BY <1>1, <1>2 DEF Typed
<1>5. /\ Shape(app') /\ app'.events \in Seq(Event) /\ Len(app'.events) <= Cap
      /\ app'.agents \in [Agents -> Status]
  <2>1. CASE app' = OnTimelineEvent(app, ev, fatal)
    <3> DEFINE st == StatusAfter(app.agents[a], ev.kind, fatal)
    <3>1. /\ Shape(app') /\ app'.events = Capped(Append(app.events, ev))
          /\ app'.agents = [app.agents EXCEPT ![a] = st]
      BY <1>2, <2>1, StoredEvent
    <3>2. Append(app.events, ev) \in Seq(Event)
      BY <1>2 DEF Typed
    <3>3. app.agents \in [Agents -> Status]
      BY DEF Typed
    <3>4. st \in Status
      BY <3>3, StatusAfterIsStatus
    <3> HIDE DEF st
    <3>5. app'.agents \in [Agents -> Status]
      BY <3>1, <3>3, <3>4
    <3>6. app'.events \in Seq(Event) /\ Len(app'.events) <= Cap
      BY <3>1, <3>2, CappedIsShort
    <3>7. QED
      BY <3>1, <3>5, <3>6
  <2>2. CASE app' = app
    BY <2>2 DEF Typed
  <2>3. QED
    BY <1>1, <2>1, <2>2
<1>6. storage' \in Seq(Event) /\ Len(storage') <= Cap
  BY <1>1, <1>5, CappedIsShort DEF PersistEvents, Typed
<1>7. QED
  BY <1>3, <1>4, <1>5, <1>6 DEF Typed

\* Every step keeps the types.
LEMMA TypesKept == Typed /\ [Next]_vars => Typed'
<1> SUFFICES ASSUME Typed, [Next]_vars PROVE Typed'
  OBVIOUS
<1>1. ASSUME NEW a \in Agents, Speak(a) PROVE Typed'
  <2>1. ASSUME NEW kind \in DeltaKinds, Update(a, kind) PROVE Typed'
    <3>1. /\ frames' = frames + 1 /\ UNCHANGED <<agent, storage, clock>>
          /\ app' = OnMessageUpdate(app, a, kind, agent[a].talk) \/ app' = app
      BY <2>1 DEF Update
    <3>2. Shape(app') /\ app'.events = app.events /\ app'.agents = app.agents
      BY <3>1, DeltaKeeps DEF Typed
    <3>3. QED
      BY <3>1, <3>2 DEF Typed
  <2>2. QED
    BY <1>1, <2>1, SpeakingIsUttering, UtteringKeepsTypes
<1>2. ASSUME NEW a \in Agents, Unregister(a) PROVE Typed'
  <2>1. /\ frames' = frames + 1 /\ agent' = [agent EXCEPT ![a] = Quiet]
        /\ UNCHANGED <<storage, clock>>
        /\ app' = OnUnregistered(app, a) \/ app' = app
    BY <1>2 DEF Unregister
  <2>2. Quiet \in Speaker /\ Resting(Quiet)
    BY DEF Quiet, Speaker, Resting, AnyRole
  <2>3. agent' \in [Agents -> Speaker] /\ \A b \in Agents : agent'[b].turn \/ Resting(agent'[b])
    BY <2>1, <2>2 DEF Typed
  <2>4. /\ Shape(app') /\ app'.events \in Seq(Event) /\ Len(app'.events) <= Cap
        /\ app'.agents \in [Agents -> Status]
    <3>1. CASE app' = OnUnregistered(app, a)
      <4>1. /\ Shape(app') /\ app'.events \in Seq(Event) /\ Len(app'.events) = Len(app.events)
            /\ app'.agents = [app.agents EXCEPT ![a] = "absent"]
        BY <3>1, RemovalKeeps
      <4>2. app'.agents \in [Agents -> Status]
        BY <4>1 DEF Typed, Status
      <4>3. QED
        BY <4>1, <4>2 DEF Typed
    <3>2. CASE app' = app
      BY <3>2 DEF Typed
    <3>3. QED
      BY <2>1, <3>1, <3>2
  <2>5. QED
    BY <2>1, <2>3, <2>4 DEF Typed
<1>3. ASSUME NEW a \in Agents, NEW status \in Told, TellStatus(a, status) PROVE Typed'
  <2>1. /\ Shape(app') /\ app'.events = app.events /\ app'.agents \in [Agents -> Status]
    BY <1>3, TellingKeeps
  <2>2. frames' = frames + 1 /\ UNCHANGED <<agent, storage, clock>>
    BY <1>3 DEF TellStatus
  <2>3. QED
    BY <2>1, <2>2 DEF Typed
<1>4. CASE PageActs
  BY <1>4, PageKeeps DEF Typed
<1>5. CASE Reload
  <2>1. app' = Fresh(storage) /\ UNCHANGED <<agent, storage, frames, clock>>
    BY <1>5 DEF Reload
  <2>2. Shape(app') /\ app'.events = storage
    BY <2>1 DEF Fresh, Shape, Fields
  <2>3. app'.agents \in [Agents -> Status]
    BY <2>1 DEF Fresh, Status
  <2>4. QED
    BY <2>1, <2>2, <2>3 DEF Typed
<1>6. CASE Tick
  BY <1>6 DEF Tick, Typed
<1>7. CASE UNCHANGED vars
  BY <1>7 DEF vars, Typed
<1>8. QED
  BY <1>1, <1>2, <1>3, <1>4, <1>5, <1>6, <1>7, Steps

\* The stored events and the statuses keep their types, and both lists of
\* events stay within their limit, on the page and in localStorage.
THEOREM TypesOfWhatIsStored == Spec => []Typed
BY TypesHoldInitially, TypesKept, PTL DEF Spec

-----------------------------------------------------------------------------
(* A reload.                                                               *)

\* What is in localStorage is what the page has, unless the last write failed.
LEMMA ReloadKeepsEventsKept ==
  Typed /\ ReloadKeepsEvents /\ [Next]_vars => ReloadKeepsEvents'
<1> SUFFICES ASSUME Typed, ReloadKeepsEvents, [Next]_vars PROVE ReloadKeepsEvents'
  OBVIOUS
<1>0. ASSUME UNCHANGED <<storage, saved>>, app'.events = app.events PROVE ReloadKeepsEvents'
  BY <1>0 DEF ReloadKeepsEvents
<1>1. ASSUME NEW a \in Agents, Speak(a) PROVE ReloadKeepsEvents'
  <2>1. ASSUME NEW kind \in DeltaKinds, Update(a, kind) PROVE ReloadKeepsEvents'
    <3>1. /\ UNCHANGED <<storage, saved>>
          /\ app' = OnMessageUpdate(app, a, kind, agent[a].talk) \/ app' = app
      BY <2>1 DEF Update
    <3>2. app'.events = app.events
      BY <3>1, DeltaKeeps DEF Typed
    <3>3. QED
      BY <1>0, <3>1, <3>2
  <2>2. ASSUME NEW after, NEW ev, NEW fatal, Uttered(a, after, ev, fatal) PROVE ReloadKeepsEvents'
    <3>1. \/ /\ app' = OnTimelineEvent(app, ev, fatal)
             /\ (storage' = PersistEvents(app'.events)) \/ saved' = FALSE
          \/ app' = app /\ UNCHANGED <<storage, saved>>
      BY <2>2 DEF Uttered, Utter
    <3>2. CASE app' = OnTimelineEvent(app, ev, fatal) /\ storage' = PersistEvents(app'.events)
      <4>1. ev \in Event /\ ev.agent = a /\ Append(app.events, ev) \in Seq(Event)
        BY <2>2 DEF Uttered, Typed
      <4>2. app'.events = Capped(Append(app.events, ev))
        BY <3>2, <4>1, StoredEvent
      <4>3. app'.events \in Seq(Event) /\ Len(app'.events) <= Cap
        BY <4>1, <4>2, CappedIsShort
      <4>4. storage' = app'.events
        BY <3>2, <4>3, CappedIsShort DEF PersistEvents
      <4>5. QED
        BY <4>4 DEF ReloadKeepsEvents
    <3>3. CASE saved' = FALSE
      BY <3>3 DEF ReloadKeepsEvents
    <3>4. CASE app' = app /\ UNCHANGED <<storage, saved>>
      BY <1>0, <3>4
    <3>5. QED
      BY <3>1, <3>2, <3>3, <3>4
  <2>3. QED
    BY <1>1, <2>1, <2>2, SpeakingIsUttering
<1>2. ASSUME NEW a \in Agents, Unregister(a) PROVE ReloadKeepsEvents'
  <2>1. UNCHANGED <<storage, saved>> /\ (app' = OnUnregistered(app, a) \/ app' = app)
    BY <1>2 DEF Unregister
  <2>2. CASE app' = OnUnregistered(app, a)
    <3>1. /\ DOMAIN app'.events = DOMAIN app.events
          /\ \A i \in DOMAIN app.events : app'.events[i].n = app.events[i].n
      BY <2>2, RemovalKeeps
    <3>2. [i \in DOMAIN app'.events |-> app'.events[i].n] = [i \in DOMAIN app.events |-> app.events[i].n]
      BY <3>1
    <3>3. QED
      BY <2>1, <3>2 DEF ReloadKeepsEvents
  <2>3. CASE app' = app
    BY <1>0, <2>1, <2>3
  <2>4. QED
    BY <2>1, <2>2, <2>3
<1>3. ASSUME NEW a \in Agents, NEW status \in Told, TellStatus(a, status) PROVE ReloadKeepsEvents'
  <2>1. UNCHANGED <<storage, saved>>
    BY <1>3 DEF TellStatus
  <2>2. QED
    BY <1>0, <1>3, <2>1, TellingKeeps
<1>4. CASE PageActs
  BY <1>0, <1>4, PageKeeps
<1>5. CASE Reload
  <2>1. app'.events = storage /\ storage' = storage
    BY <1>5 DEF Reload, Fresh
  <2>2. QED
    BY <2>1 DEF ReloadKeepsEvents
<1>6. CASE Tick
  BY <1>0, <1>6 DEF Tick
<1>7. CASE UNCHANGED vars
  BY <1>0, <1>7 DEF vars
<1>8. QED
  BY <1>1, <1>2, <1>3, <1>4, <1>5, <1>6, <1>7, Steps

\* A reload brings back every event that the page has, in its order, unless
\* localStorage was full: cutting twice to the same limit loses nothing.
THEOREM ReloadsAreComplete == Spec => []ReloadKeepsEvents
<1>1. Init => ReloadKeepsEvents
  BY DEF Init, Fresh, ReloadKeepsEvents
<1>2. QED
  BY <1>1, TypesHoldInitially, TypesKept, ReloadKeepsEventsKept, PTL DEF Spec

-----------------------------------------------------------------------------
(* What is on screen.                                                      *)

\* A cache that counts as current was built from the last frame and for the
\* filters that are set, with no removal since, unless the build after it has
\* thrown.
Current(p) ==
  p.cache # NoCache /\ ~p.stale /\ ~p.broken => p.basis = Basis(p) /\ ~p.removed

\* Without it ShownIsCurrent is not inductive: rendering trusts the cache.
ScreenInv == Current(app) /\ ShownIsCurrent

\* A timeline that has been rendered shows what there is, or its build threw.
LEMMA RenderedIsCurrent ==
  ASSUME NEW p, Shape(p), Current(p)
  PROVE  LET q == RenderTimeline(p) IN
           /\ Current(q)
           /\ q.view = "timeline" /\ ~q.broken => q.basis = Basis(q)
<1> DEFINE q == GetOrBuildItems(p)
           r == RenderTimeline(p)
<1>1. CASE p.view # "timeline"
  BY <1>1 DEF RenderTimeline
<1>2. CASE p.view = "timeline" /\ p.events = <<>>
  <2>1. r.cache = NoCache /\ r.basis = Basis(p)
    BY <1>2 DEF RenderTimeline, Shape, Fields
  <2>2. Basis(r) = Basis(p)
    BY RenderKeeps DEF Kept, Basis
  <2>3. QED
    BY <2>1, <2>2 DEF Current
<1>3. CASE p.view = "timeline" /\ p.events # <<>>
  <2>1. Kept(p, q)
    BY BuildKeeps
  <2>2. ~q.broken => q.basis = Basis(p) /\ ~q.removed
    <3>1. CASE p.cache # NoCache /\ ~p.stale
      <4>1. q = [p EXCEPT !.thrown = FALSE]
        BY <3>1 DEF GetOrBuildItems
      <4>2. q.broken = p.broken /\ q.basis = p.basis /\ q.removed = p.removed
        BY <4>1 DEF Shape, Fields
      <4>3. QED
        BY <3>1, <4>2 DEF Current
    <3>2. CASE ~(p.cache # NoCache /\ ~p.stale)
      <4> DEFINE b == BuildTimelineItems(p.events, p.msgs, p.tools, clock)
                 built == [p EXCEPT !.msgs = b.msgs, !.tools = b.tools, !.stale = FALSE,
                                    !.thrown = b.thrown, !.broken = b.thrown]
                 shown == <<ApplyTimelineFilters(b.items, p.agentFilter, p.eventFilter)>>
      <4>1. q = IF b.thrown THEN built ELSE [built EXCEPT !.cache = shown, !.basis = Basis(p), !.removed = FALSE]
        BY <3>2 DEF GetOrBuildItems, Built
      <4>2. built.broken = b.thrown /\ Shape(built)
        <5> HIDE DEF b
        <5> QED BY DEF Shape, Fields
      <4> HIDE DEF b, built, shown
      <4>3. CASE b.thrown
        BY <4>1, <4>2, <4>3
      <4>4. CASE ~b.thrown
        <5>1. q = [built EXCEPT !.cache = shown, !.basis = Basis(p), !.removed = FALSE]
          BY <4>1, <4>4
        <5>2. q.basis = Basis(p) /\ ~q.removed
          BY <4>2, <5>1 DEF Shape, Fields
        <5>3. QED
          BY <5>2
      <4>5. QED
        BY <4>3, <4>4
    <3>3. QED
      BY <3>1, <3>2
  <2>3. r.broken = q.broken /\ r.basis = q.basis /\ r.removed = q.removed
    <3>1. r = CASE q.thrown -> q
                [] ~q.thrown /\ q.cache = <<{}>> -> [q EXCEPT !.cache = NoCache]
                [] OTHER -> [q EXCEPT !.thrown = \E i \in q.cache[1] : RowThrows(i)]
      BY <1>3 DEF RenderTimeline, Displayed
    <3>2. Shape(q)
      BY <2>1 DEF Kept
    <3> HIDE DEF q, r
    <3>3. QED
      BY <3>1, <3>2 DEF Shape, Fields
  <2>4. Basis(r) = Basis(p)
    BY RenderKeeps DEF Kept, Basis
  <2> HIDE DEF q
  <2>5. QED
    BY <2>2, <2>3, <2>4 DEF Current
<1>4. QED
  BY <1>1, <1>2, <1>3

\* A page that changes without a rendering still shows what there is.
LEMMA UnchangedIsCurrent ==
  ASSUME ScreenInv, app'.stale = app.stale \/ app'.stale, app'.cache = app.cache \/ app'.stale,
         app'.broken = app.broken, app'.basis = app.basis, app'.last = app.last,
         app'.removed = app.removed \/ app'.stale,
         app'.agentFilter = app.agentFilter, app'.eventFilter = app.eventFilter,
         app'.view = app.view, app'.frame = app.frame
  PROVE  ScreenInv'
BY DEF ScreenInv, Current, ShownIsCurrent, Basis

\* A step that ends in a rendering shows what there is.
LEMMA RenderingIsCurrent ==
  ASSUME NEW p, Shape(p), Current(p), app' = RenderTimeline(p)
  PROVE  ScreenInv'
<1> DEFINE q == RenderTimeline(p)
<1>1. /\ Current(q)
      /\ q.view = "timeline" /\ ~q.broken => q.basis = Basis(q)
  BY RenderedIsCurrent
<1>2. app' = q
  OBVIOUS
<1> HIDE DEF q
<1>3. QED
  BY <1>1, <1>2 DEF ScreenInv, ShownIsCurrent, Current, Basis

\* So does switching the view.
LEMMA ViewingIsCurrent ==
  ASSUME Typed, NEW view, app' = Viewed(app, view)
  PROVE  ScreenInv'
<1>1. Shape(app)
  BY DEF Typed
<1>2. CASE view = "dashboard"
  <2>1. app'.view = "dashboard" /\ app'.cache = NoCache
    BY <1>1, <1>2 DEF Viewed, Shape, Fields
  <2>2. QED
    BY <2>1 DEF ScreenInv, ShownIsCurrent, Current
<1>3. CASE view # "dashboard"
  <2> DEFINE p == [app EXCEPT !.view = view, !.stale = TRUE]
  <2>1. Shape(p) /\ p.stale
    BY <1>1 DEF Shape, Fields
  <2>2. app' = RenderTimeline(p)
    BY <1>3 DEF Viewed
  <2> HIDE DEF p
  <2>3. QED
    BY <2>1, <2>2, RenderingIsCurrent DEF Current
<1>4. QED
  BY <1>2, <1>3

\* And every other step of the user.
LEMMA PageIsCurrent ==
  ASSUME Typed, ScreenInv, PageActs
  PROVE  ScreenInv'
<1>1. Shape(app) /\ Current(app)
  BY DEF Typed, ScreenInv
<1>2. ASSUME NEW view, SwitchView(view) PROVE ScreenInv'
  BY <1>2, ViewingIsCurrent DEF SwitchView, PageStep
<1>3. ASSUME NEW a, ClickRow(a) PROVE ScreenInv'
  BY <1>3, ViewingIsCurrent DEF ClickRow, PageStep
<1>4. ASSUME NEW a, Trace(a) PROVE ScreenInv'
  <2> DEFINE p == [app EXCEPT !.view = "timeline"]
  <2>1. Shape(p) /\ Current(p)
    BY <1>1 DEF Shape, Fields, Current, Basis
  <2>2. app' = RenderTimeline(p)
    BY <1>4 DEF Trace, PageStep
  <2> HIDE DEF p
  <2>3. QED
    BY <2>1, <2>2, RenderingIsCurrent
<1>5. ASSUME NEW f, SetTimelineAgentFilter(f) PROVE ScreenInv'
  <2> DEFINE p == [app EXCEPT !.agentFilter = f, !.stale = TRUE]
  <2>1. Shape(p) /\ p.stale
    BY <1>1 DEF Shape, Fields
  <2>2. app' = RenderTimeline(p)
    BY <1>5 DEF SetTimelineAgentFilter, PageStep
  <2> HIDE DEF p
  <2>3. QED
    BY <2>1, <2>2, RenderingIsCurrent DEF Current
<1>6. ASSUME NEW f, SetTimelineEventFilter(f) PROVE ScreenInv'
  <2> DEFINE p == [app EXCEPT !.eventFilter = f, !.stale = TRUE]
  <2>1. Shape(p) /\ p.stale
    BY <1>1 DEF Shape, Fields
  <2>2. app' = RenderTimeline(p)
    BY <1>6 DEF SetTimelineEventFilter, PageStep
  <2> HIDE DEF p
  <2>3. QED
    BY <2>1, <2>2, RenderingIsCurrent DEF Current
<1>7. ASSUME NEW limit, CleanupStaleBuffers(limit) PROVE ScreenInv'
  <2>1. /\ app'.stale = app.stale /\ app'.cache = app.cache /\ app'.broken = app.broken
        /\ app'.removed = app.removed
        /\ app'.basis = app.basis /\ app'.last = app.last /\ app'.agentFilter = app.agentFilter
        /\ app'.eventFilter = app.eventFilter /\ app'.view = app.view /\ app'.frame = app.frame
    BY <1>1, <1>7 DEF CleanupStaleBuffers, PageStep, Shape, Fields
  <2>2. QED
    BY <2>1, UnchangedIsCurrent
<1>8. ASSUME DrawFrame PROVE ScreenInv'
  <2> DEFINE p == [app EXCEPT !.frame = FALSE]
  <2>1. Shape(p) /\ Current(p)
    BY <1>1 DEF Shape, Fields, Current, Basis
  <2>2. app' = RenderTimeline(p)
    BY <1>8 DEF DrawFrame, PageStep
  <2> HIDE DEF p
  <2>3. QED
    BY <2>1, <2>2, RenderingIsCurrent
<1>9. QED
  BY <1>2, <1>3, <1>4, <1>5, <1>6, <1>7, <1>8 DEF PageActs

\* A frame that arrives makes the cache old: it is built again at once, or a
\* rendering is asked for.
LEMMA SpeakingIsCurrent ==
  ASSUME Typed, ScreenInv, NEW a \in Agents, Speak(a)
  PROVE  ScreenInv'
<1>1. Shape(app)
  BY DEF Typed
<1>2. ASSUME app' = app PROVE ScreenInv'
  BY <1>2, UnchangedIsCurrent
<1>3. ASSUME NEW kind \in DeltaKinds, Update(a, kind) PROVE ScreenInv'
  <2>1. CASE app' = OnMessageUpdate(app, a, kind, agent[a].talk)
    <3>1. /\ app'.stale
          /\ app'.view = "timeline" => app'.frame
      BY <1>1, <2>1 DEF OnMessageUpdate, Shape, Fields
    <3>2. QED
      BY <3>1 DEF ScreenInv, Current, ShownIsCurrent
  <2>2. QED
    BY <1>2, <1>3, <2>1 DEF Update
<1>4. ASSUME NEW after, NEW ev, NEW fatal, Uttered(a, after, ev, fatal) PROVE ScreenInv'
  <2>1. CASE app' = OnTimelineEvent(app, ev, fatal)
    <3> DEFINE events == Capped(Append(app.events, ev))
               agents == [app.agents EXCEPT ![ev.agent] = StatusAfter(@, ev.kind, fatal)]
               p == [app EXCEPT !.events = events, !.stale = TRUE, !.last = ev.n, !.agents = agents]
    <3>1. app' = RenderTimeline(p)
      BY <2>1 DEF OnTimelineEvent
    <3>2. Shape(p) /\ p.stale
      <4> HIDE DEF events, agents
      <4> QED BY <1>1 DEF Shape, Fields
    <3> HIDE DEF p
    <3>3. QED
      BY <3>1, <3>2, RenderingIsCurrent DEF Current
  <2>2. QED
    BY <1>2, <1>4, <2>1 DEF Uttered, Utter
<1>5. QED
  BY <1>3, <1>4, SpeakingIsUttering

\* Every step keeps the screen current.
LEMMA ScreenInvKept == Typed /\ ScreenInv /\ [Next]_vars => ScreenInv'
<1> SUFFICES ASSUME Typed, ScreenInv, [Next]_vars PROVE ScreenInv'
  OBVIOUS
<1>1. Shape(app)
  BY DEF Typed
<1>2. ASSUME app' = app PROVE ScreenInv'
  BY <1>2, UnchangedIsCurrent
<1>3. ASSUME NEW a \in Agents, Unregister(a) PROVE ScreenInv'
  <2>1. CASE app' = OnUnregistered(app, a)
    <3>1. /\ app'.stale /\ app'.broken = app.broken
          /\ app'.basis = app.basis /\ app'.last = app.last /\ app'.agentFilter = app.agentFilter
          /\ app'.eventFilter = app.eventFilter /\ app'.view = app.view /\ app'.frame = app.frame
      BY <1>1, <2>1 DEF OnUnregistered, Shape, Fields
    <3>2. QED
      BY <3>1, UnchangedIsCurrent
  <2>2. QED
    BY <1>2, <1>3, <2>1 DEF Unregister
<1>4. ASSUME NEW a \in Agents, NEW status \in Told, TellStatus(a, status) PROVE ScreenInv'
  <2> DEFINE agents == [app.agents EXCEPT ![a] = status]
  <2>1. app' = [app EXCEPT !.agents = agents]
    BY <1>4 DEF TellStatus
  <2> HIDE DEF agents
  <2>2. /\ app'.stale = app.stale /\ app'.cache = app.cache /\ app'.broken = app.broken
        /\ app'.removed = app.removed
        /\ app'.basis = app.basis /\ app'.last = app.last /\ app'.agentFilter = app.agentFilter
        /\ app'.eventFilter = app.eventFilter /\ app'.view = app.view /\ app'.frame = app.frame
    BY <1>1, <2>1 DEF Shape, Fields
  <2>3. QED
    BY <2>2, UnchangedIsCurrent
<1>5. CASE Reload
  <2>1. app'.cache = NoCache /\ app'.view = "dashboard"
    BY <1>5 DEF Reload, Fresh
  <2>2. QED
    BY <2>1 DEF ScreenInv, Current, ShownIsCurrent
<1>6. CASE Tick
  BY <1>2, <1>6 DEF Tick
<1>7. CASE UNCHANGED vars
  BY <1>2, <1>7 DEF vars
<1>8. QED
  BY <1>3, <1>4, <1>5, <1>6, <1>7, Steps, SpeakingIsCurrent, PageIsCurrent

\* Once no frame is waited for, the timeline on screen was built from the last
\* frame and for the filters that are set, and items that count as current were
\* built after the last removal; unless the last build has thrown.
THEOREM ScreenIsCurrent == Spec => []ShownIsCurrent
<1>1. Init => ScreenInv
  BY DEF Init, Fresh, ScreenInv, Current, ShownIsCurrent
<1>2. ScreenInv => ShownIsCurrent
  BY DEF ScreenInv
<1>3. QED
  BY <1>1, <1>2, TypesHoldInitially, TypesKept, ScreenInvKept, PTL DEF Spec

-----------------------------------------------------------------------------
(* Whether an agent is working.                                            *)

\* What is said of an agent that has just ended its turn.
LEMMA EndedIsNotStreaming ==
  ASSUME NEW st, NEW kind, NEW fatal \in BOOLEAN, Ends(kind, fatal)
  PROVE  StatusAfter(st, kind, fatal) # "streaming"
BY DEF StatusAfter, Ends

\* Every step keeps it: a turn that ends is seen to end, or its end is missed.
LEMMA StreamingOnlyInTurnKept ==
  Typed /\ StreamingOnlyInTurn /\ [Next]_vars => StreamingOnlyInTurn'
<1> SUFFICES ASSUME Typed, StreamingOnlyInTurn, [Next]_vars,
                    NEW b \in Agents, app'.agents[b] = "streaming"
             PROVE  agent'[b].turn \/ b \in missed' \/ b \notin registered'
  BY DEF StreamingOnlyInTurn
<1> DEFINE Goal == agent'[b].turn \/ b \in missed' \/ b \notin registered'
<1>0. ASSUME UNCHANGED <<agent, missed>>, b \in registered' => b \in registered,
             app'.agents[b] = app.agents[b]
      PROVE  Goal
  BY <1>0 DEF StreamingOnlyInTurn
<1>1. app.agents \in [Agents -> Status] /\ agent \in [Agents -> Speaker]
  BY DEF Typed
<1>2. ASSUME NEW a \in Agents, Speak(a) PROVE Goal
  <2>1. ASSUME NEW kind \in DeltaKinds, Update(a, kind) PROVE Goal
    <3>1. /\ UNCHANGED <<agent, registered>> /\ missed \subseteq missed'
          /\ app' = OnMessageUpdate(app, a, kind, agent[a].talk) \/ app' = app
      BY <2>1 DEF Update
    <3>2. app'.agents = app.agents
      BY <3>1, DeltaKeeps DEF Typed
    <3>3. QED
      BY <3>1, <3>2 DEF StreamingOnlyInTurn
  <2>2. ASSUME NEW after, NEW ev, NEW fatal \in BOOLEAN, Uttered(a, after, ev, fatal) PROVE Goal
    <3>1. /\ agent' = [agent EXCEPT ![a] = after] /\ registered' = registered
          /\ \/ app' = OnTimelineEvent(app, ev, fatal) /\ missed' = missed
             \/ app' = app /\ missed' = missed \cup {a}
          /\ ev \in Event /\ ev.agent = a /\ (after.turn \/ Ends(ev.kind, fatal))
      BY <2>2 DEF Uttered, Utter
    <3>2. CASE app' = OnTimelineEvent(app, ev, fatal) /\ missed' = missed
      <4> DEFINE st == StatusAfter(app.agents[a], ev.kind, fatal)
      <4>1. app'.agents = [app.agents EXCEPT ![a] = st]
        BY <3>1, <3>2, StoredEvent
      <4>2. CASE b = a
        <5>1. st = "streaming" /\ agent'[b] = after
          <6> HIDE DEF st
          <6> QED BY <1>1, <3>1, <4>1, <4>2
        <5>2. ~Ends(ev.kind, fatal)
          BY <5>1, EndedIsNotStreaming
        <5>3. QED
          BY <3>1, <5>1, <5>2
      <4>3. CASE b # a
        <5>1. app'.agents[b] = app.agents[b] /\ agent'[b] = agent[b]
          <6> HIDE DEF st
          <6> QED BY <1>1, <3>1, <4>1, <4>3
        <5>2. QED
          BY <3>1, <3>2, <5>1 DEF StreamingOnlyInTurn
      <4>4. QED
        BY <4>2, <4>3
    <3>3. CASE app' = app /\ missed' = missed \cup {a}
      <4>1. CASE b = a
        BY <3>3, <4>1
      <4>2. CASE b # a
        <5>1. agent'[b] = agent[b]
          BY <1>1, <3>1, <4>2
        <5>2. QED
          BY <3>1, <3>3, <5>1 DEF StreamingOnlyInTurn
      <4>3. QED
        BY <4>1, <4>2
    <3>4. QED
      BY <3>1, <3>2, <3>3
  <2> HIDE DEF Goal
  <2>3. QED
    BY <1>2, <2>1, <2>2, SpeakingIsUttering
<1>3. ASSUME NEW a \in Agents, Unregister(a) PROVE Goal
  <2>1. /\ registered' = registered \ {a} /\ agent' = [agent EXCEPT ![a] = Quiet] /\ missed' = missed
        /\ app' = OnUnregistered(app, a) \/ app' = app
    BY <1>3 DEF Unregister
  <2>2. CASE b = a
    BY <2>1, <2>2
  <2>3. CASE b # a
    <3>1. app'.agents[b] = app.agents[b]
      <4>1. CASE app' = OnUnregistered(app, a)
        <5>1. app'.agents = [app.agents EXCEPT ![a] = "absent"]
          BY <4>1, RemovalKeeps
        <5>2. QED
          BY <1>1, <2>3, <5>1
      <4>2. CASE app' = app
        BY <4>2
      <4>3. QED
        BY <2>1, <4>1, <4>2
    <3>2. agent'[b] = agent[b]
      BY <1>1, <2>1, <2>3
    <3>3. QED
      BY <2>1, <3>1, <3>2 DEF StreamingOnlyInTurn
  <2>4. QED
    BY <2>2, <2>3
<1>4. ASSUME NEW a \in Agents, NEW status \in Told, TellStatus(a, status) PROVE Goal
  <2>1. app'.agents = [app.agents EXCEPT ![a] = status]
    BY <1>4, TellingKeeps
  <2>2. UNCHANGED <<agent, missed>> /\ registered' = registered \cup {a}
    BY <1>4 DEF TellStatus
  <2>3. b # a
    BY <1>1, <2>1, TimelineAssumption
  <2>4. app'.agents[b] = app.agents[b]
    BY <1>1, <2>1, <2>3
  <2>5. QED
    BY <1>0, <2>2, <2>3, <2>4
<1>5. ASSUME PageActs PROVE Goal
  BY <1>0, <1>5, PageKeeps
<1>6. ASSUME Reload PROVE Goal
  <2>1. app'.agents[b] = "absent"
    BY <1>6 DEF Reload, Fresh
  <2>2. QED
    BY <2>1
<1>7. ASSUME Tick PROVE Goal
  BY <1>0, <1>7 DEF Tick
<1>8. ASSUME UNCHANGED vars PROVE Goal
  BY <1>0, <1>8 DEF vars
<1> HIDE DEF Goal
<1>9. Goal
  BY <1>2, <1>3, <1>4, <1>5, <1>6, <1>7, <1>8, Steps
<1>10. QED
  BY <1>9 DEF Goal

\* An agent that is shown working is in a turn, unless this page has missed a
\* frame of it or it is no longer registered.
THEOREM WorkIsShownInTurns == Spec => []StreamingOnlyInTurn
<1>1. Init => StreamingOnlyInTurn
  BY DEF Init, Fresh, StreamingOnlyInTurn
<1>2. QED
  BY <1>1, TypesHoldInitially, TypesKept, StreamingOnlyInTurnKept, PTL DEF Spec
=============================================================================
